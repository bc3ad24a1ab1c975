----------------------------- MODULE OutputPower -----------------------------
(***************************************************************************)
(* The display host's power controller (appliance/display_host/            *)
(* output_power.py and power_timetable.py) for one Output and one power    *)
(* method: Output documents with a timetable and a console test, Output    *)
(* reports, the Pi's clocks and the worker that looks at the Output.       *)
(***************************************************************************)
EXTENDS Naturals

CONSTANTS
  Timetables,          \* timetables: the power wanted in each hour, "ran-out" past their end
  MaxHour,        \* bound: the hours of the Pi's wall clock
  MaxOrders,      \* bound: Output documents
  MaxReplugs,     \* bound: Output reports
  MaxNoAnswers    \* bound: probes, writes and curtains answered other than they should be

ASSUME TimetablesAssumption == Timetables \subseteq [0..MaxHour -> {"on", "off", "ran-out"}]
ASSUME PowerBounds == {MaxHour, MaxOrders, MaxReplugs, MaxNoAnswers} \subseteq Nat

VARIABLES
  order,    \* the newest Output document
  power,    \* the controller's _Port, and the Output's pending look
  look,     \* the worker's look
  panel,    \* the display: whether it is there and on, the shell's curtain, its appearances
  hour,     \* the Pi's wall clock
  used      \* what is used of each bound

powerVars == <<order, power, look, panel, hour, used>>

NoTest == [id |-> 0, power |-> "none"]
NoOrder == [change |-> 0, plan |-> [h \in 0..MaxHour |-> "ran-out"], dark |-> "none", test |-> NoTest]
Nothing == [kind |-> "nothing", power |-> "none", id |-> 0]
NoLook == [at |-> "idle", found |-> FALSE, change |-> 0, dark |-> "none", carried |-> Nothing, after |-> 0]

Use(what, most) == used[what] < most /\ used' = [used EXCEPT ![what] = @ + 1]

-----------------------------------------------------------------------------
(* What is in force, and when to act *)

\* wanted (power_timetable.py).
TimetableWants(o) ==
  LET wants == o.plan[hour]
  IN IF wants = "ran-out" THEN [kind |-> "ran-out", power |-> "none", id |-> 0]
     ELSE [kind |-> "timetable", power |-> wants, id |-> 0]

\* in_force: the test while its own count runs or has not begun, else the timetable.
InForce ==
  IF order.test # NoTest /\ power.count # "over"
  THEN [kind |-> "test", power |-> order.test.power, id |-> order.test.id]
  ELSE TimetableWants(order)

\* A bug to catch: how an off is dark is not compared.
ActsOn_NotDark(new) == order.test # new.test \/ TimetableWants(order) # TimetableWants(new)

\* acts_on_new_document: what carrying the documents out does differs now.
ActsOn(new) ==
  \/ order.test # new.test
  \/ TimetableWants(order) # TimetableWants(new)
  \/ TimetableWants(new).power = "off" /\ order.dark # new.dark

\* _queue: one pending look, under the trigger that asked for it first.
Queued(due, trigger) == IF due = "none" THEN trigger ELSE due

-----------------------------------------------------------------------------
(* What the controller hears *)

\* document, with a new test, the one before or none: a count belongs to its test.
OrderArrives ==
  /\ order.change < MaxOrders
  /\ \E plan \in Timetables, dark \in {"display", "black"},
        test \in {NoTest, order.test} \cup [id : {order.change + 1}, power : {"on", "off"}] :
       LET new  == [change |-> order.change + 1, plan |-> plan, dark |-> dark, test |-> test]
           acts == order.change = 0 \/ power.acted = Nothing \/ ActsOn(new)
       IN /\ order' = new
          /\ power' = [power EXCEPT !.count = IF test # NoTest /\ test = order.test THEN @ ELSE "none",
                         !.due = IF acts THEN Queued(@, "change") ELSE @,
                         !.forChange = IF ~acts /\ @ # 0 THEN new.change ELSE @]
  /\ UNCHANGED <<look, panel, hour, used>>

\* output: the display goes, or comes and is looked at again.
Replugged ==
  /\ Use("replugs", MaxReplugs)
  /\ LET there == ~panel.there IN
       /\ panel' = [panel EXCEPT !.there = there, !.appeared = IF there THEN @ + 1 ELSE @]
       /\ power' = [power EXCEPT !.due = IF there THEN Queued(@, "appeared") ELSE @]
  /\ UNCHANGED <<order, look, hour>>

-----------------------------------------------------------------------------
(* The clocks *)

HourPasses == hour < MaxHour /\ hour' = hour + 1 /\ UNCHANGED <<order, power, look, panel, used>>

TestEnds ==
  /\ power.count = "running"
  /\ power' = [power EXCEPT !.count = "over"]
  /\ UNCHANGED <<order, look, panel, hour, used>>

\* _ended: what is in force is no longer what was carried out.
NoLongerInForce == power.acted # Nothing /\ InForce # power.acted

Ticked ==
  /\ look = NoLook /\ power.due = "none" /\ NoLongerInForce
  /\ power' = [power EXCEPT !.due = IF power.acted.kind = "test" THEN "ended" ELSE "set-time"]
  /\ UNCHANGED <<order, look, panel, hour, used>>

-----------------------------------------------------------------------------
(* The worker: _act *)

Counted(odd) == IF odd THEN Use("silences", MaxNoAnswers) ELSE UNCHANGED used

\* The probes: a display that is there may be silent, one that dropped hot-plug may answer.
LookTaken ==
  /\ look = NoLook /\ power.due # "none"
  /\ power' = [power EXCEPT !.due = "none"]
  /\ \E found \in BOOLEAN :
       /\ look' = [NoLook EXCEPT !.at = "probed", !.found = found, !.after = panel.appeared]
       /\ Counted(found # panel.there)
  /\ UNCHANGED <<order, panel, hour>>

\* The latest document is read, so that a look pending for a change is this one; past the timetable
\* the display is left as it is.
LookReads ==
  /\ look.at = "probed"
  /\ LET carried == IF order.change = 0 THEN Nothing ELSE InForce
         due == IF power.due = "change" THEN "none" ELSE power.due
     IN \/ /\ carried.power = "none"
           /\ power' = [power EXCEPT !.due = due, !.acted = carried, !.forChange = order.change, !.after = look.after]
           /\ look' = NoLook
        \/ /\ carried.power # "none"
           /\ power' = [power EXCEPT !.due = due,
                          !.count = IF carried.kind = "test" /\ @ = "none" THEN "running" ELSE @]
           /\ look' = [look EXCEPT !.at = "acts", !.change = order.change, !.dark = order.dark, !.carried = carried]
  /\ UNCHANGED <<order, panel, hour, used>>

\* What a look does: the curtain it wants, and whether it works the display.
BlackOff == look.carried.kind = "timetable" /\ look.dark = "black" /\ look.carried.power = "off"
Curtain == BlackOff \/ (look.carried.power = "off" /\ ~look.found)
WorksDisplay == look.found /\ ~BlackOff

\* The curtain, the display and the report, one attempt of each.
LookActs ==
  /\ look.at = "acts"
  /\ \E silent \in BOOLEAN, curtain \in {panel.curtain, Curtain},
        on \in {panel.on, IF WorksDisplay THEN look.carried.power = "on" ELSE panel.on} :
       /\ curtain # Curtain \/ (WorksDisplay /\ on # (look.carried.power = "on")) => silent
       /\ Counted(silent)
       /\ panel' = [panel EXCEPT !.curtain = curtain, !.on = on]
       /\ power' = [power EXCEPT !.forChange = look.change, !.acted = look.carried, !.after = look.after,
                      !.dark = look.dark, !.answered = ~silent]
  /\ look' = NoLook
  /\ UNCHANGED <<order, hour>>

-----------------------------------------------------------------------------

PowerInit ==
  /\ order = NoOrder
  /\ power = [count |-> "none", acted |-> Nothing, forChange |-> 0, due |-> "start",
              after |-> 0, dark |-> "display", answered |-> FALSE]
  /\ look = NoLook
  /\ panel = [there |-> FALSE, on |-> TRUE, curtain |-> FALSE, appeared |-> 0]
  /\ hour = 0
  /\ used = [replugs |-> 0, silences |-> 0]

PowerWorker == Ticked \/ LookTaken \/ LookReads \/ LookActs

PowerNext == OrderArrives \/ Replugged \/ HourPasses \/ TestEnds \/ PowerWorker

\* A test's time passes, and the worker's calls end in theirs.
PowerFairness == WF_powerVars(TestEnds) /\ WF_powerVars(PowerWorker)

PowerSpec == PowerInit /\ [][PowerNext]_powerVars /\ PowerFairness

-----------------------------------------------------------------------------
(* Properties *)

PowerTypeOK ==
  /\ {power.forChange, look.change} \subseteq 0..order.change /\ look.after <= panel.appeared
  /\ power.count \in {"none", "running", "over"} /\ look.at \in {"idle", "probed", "acts"}
  /\ power.due \in {"none", "start", "change", "appeared", "ended", "set-time"}
  /\ (power.acted.kind = "test") <=> (power.acted.id # 0)

\* "When to act" and "black is up exactly while one of those offs is carried out"
\* (output_power.py): in the end the look carried out is of what is in force at the Pi's clocks,
\* dark the way the newest document says, and where all answered left curtain and display so.
PowerSettles ==
  <>[](order.change # 0 =>
         LET wants == InForce IN
         /\ power.acted = wants
         /\ wants.kind = "timetable" /\ wants.power = "off"
              => /\ power.dark = order.dark
                 /\ power.answered => panel.curtain \/ (power.dark = "display" /\ ~panel.on)
         /\ wants.power = "on" /\ power.answered => ~panel.curtain)

\* "A pending APPEARED stays: the display came back after this look's probes" (output_power.py).
AppearedIsLookedAt == <>[](power.after = panel.appeared)

\* "A rise that wants the same moves the report's for_change" (output_power.py).
NewestIsAnswered == <>[](order.change # 0 => power.forChange = order.change)
==============================================================================
