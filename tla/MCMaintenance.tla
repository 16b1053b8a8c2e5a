--------------------------- MODULE MCMaintenance ---------------------------
(* Three days of two hours; on the second the clock shows the last hour     *)
(* twice.  Five calls: one damaged, one from before the index had outcomes,  *)
(* one without a time, one in two versions, one that the viewer and another *)
(* archive both bring, one that this archive alone can read.                *)
EXTENDS Maintenance

At(d, h) == [day |-> d, hour |-> h]
MCWall == <<At(1, 0), At(1, 1), At(2, 0), At(2, 1), At(2, 1), At(3, 0), At(3, 1)>>

Base == [rid |-> 1, day |-> 1, hour |-> 1, epoch |-> 2, model |-> "m1", token |-> "t1",
         chan |-> 1, up |-> "", quota |-> 2, outcome |-> "ok", status |-> "",
         derived |-> "ok", stream |-> "1", tools |-> {}, errors |-> 0, words |-> {"w"}]
Hurt == Base
Healed == [Base EXCEPT !.tools = {"f"}]
Ancient == [Base EXCEPT !.rid = 2, !.day = 2, !.epoch = 5, !.token = "t2", !.chan = 0,
                        !.up = "host", !.quota = 0, !.outcome = "", !.model = ""]
Timeless == [Base EXCEPT !.rid = 3, !.day = 2, !.hour = 0, !.epoch = 0, !.outcome = "",
                         !.derived = "error", !.status = "error", !.errors = 1,
                         !.stream = "0", !.token = "", !.chan = 0]
Draft == [Base EXCEPT !.rid = 4, !.day = 3, !.hour = 0, !.epoch = 6, !.chan = 2,
                      !.model = "m2", !.token = "t2", !.outcome = "error",
                      !.derived = "error"]
Final == [Draft EXCEPT !.quota = 5, !.outcome = "ok", !.derived = "ok"]
Shared == [Base EXCEPT !.rid = 5, !.day = 2, !.hour = 0, !.epoch = 3, !.model = "m3",
                       !.token = "t3", !.words = {}, !.outcome = "", !.derived = ""]

MCRecord == {Hurt, Healed, Ancient, Timeless, Draft, Final, Shared}
MCRepaired == [r \in MCRecord |-> IF r = Hurt THEN Healed ELSE r]
MCRidDay == <<1, 2, 0, 3, 3>>
Line(r, good, age) == [rec |-> r, good |-> good, age |-> age]
MCFirst == <<<<Line(Hurt, TRUE, "old")>>,
             <<Line(Ancient, TRUE, "old"), Line(Timeless, TRUE, "new")>>, <<Line(Draft, TRUE, "new")>>>>
MCSource == <<<<>>, <<Line(Shared, TRUE, "new"), Line(Timeless, TRUE, "new"),
                Line(Ancient, FALSE, "new")>>,
              <<Line(Draft, FALSE, "new"), Line(Final, TRUE, "new")>>>>
MCArriving == {Shared, Final}

MCSpan == [today |-> 0, week |-> 1, ytd |-> 0]
MCChannelNames == <<"one">>
MCOrderOf == [one |-> 1, host |-> 2, m1 |-> 3, m2 |-> 4, m3 |-> 5, t1 |-> 6, t2 |-> 7,
              t3 |-> 8] @@ ("(unknown)" :> 9) @@ ("(unnamed)" :> 10)
              @@ ("(no channel)" :> 11) @@ ("#" :> 12)

All == [model |-> "", token |-> "", status |-> "", stream |-> "", tool |-> "",
        search |-> "", withTools |-> FALSE, withErrors |-> FALSE, since |-> 0, until |-> 0]
Between(s, u) == [All EXCEPT !.since = s, !.until = u]
MCFilters ==
  {All, Between(1, 2), Between(3, 5), Between(5, 6), Between(2, 5), Between(2, 7),
   [Between(2, 6) EXCEPT !.model = "m1"],
   [All EXCEPT !.token = "t2"], [All EXCEPT !.status = "error"],
   [Between(0, 5) EXCEPT !.withErrors = TRUE, !.stream = "0"],
   [All EXCEPT !.search = "w", !.withTools = TRUE], [Between(1, 0) EXCEPT !.tool = "f"]}
MCPageSizes == {1, 2}
=============================================================================
