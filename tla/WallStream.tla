------------------------------ MODULE WallStream ------------------------------
(***************************************************************************)
(* WALL, the hub's stream of wall documents (nodeapi/hub.py WallWriter):   *)
(* it lives in the hub's memory, is made again past Central's mark, and    *)
(* every Node mirrors it and goes on from where its mirror stands.  One    *)
(* key, as there is one (room-lights).                                     *)
(***************************************************************************)
EXTENDS Integers, FiniteSets

CONSTANTS
  Centrals,     \* worker processes that keep the hub
  WallMargin,   \* WALL_MARGIN, past the mark a new WALL starts
  MaxRestarts,  \* bound: hub restarts
  MaxStops,     \* bound: Centrals that stop, or lose the hub's answer
  MaxEdits      \* bound: changes of the wall document

\* "more than the wall writes ever in flight between an ack and its mark".
ASSUME WallMarginAssumption ==
  /\ {MaxStops, MaxRestarts, MaxEdits} \subseteq Nat
  /\ IsFiniteSet(Centrals)
  /\ WallMargin \in Nat /\ WallMargin >= MaxStops + Cardinality(Centrals)

VARIABLES
  wall,     \* the stream: whether it is there, its first and last sequence, the key's value
  mark,     \* node_bus_wall.mark, in the database both Centrals use
  wanted,   \* the wall document now
  writer,   \* each Central's WallWriter
  mirror,   \* how far the fastest of the Nodes' mirrors has come
  restarts, stops

wallVars == <<wall, mark, wanted, writer, mirror, restarts, stops>>

-----------------------------------------------------------------------------

NoWall == [there |-> FALSE, table |-> 0, first |-> 0, last |-> 0, value |-> 0, seq |-> 0]

\* A Central's writer: its release's key table, and the hub it last ensured WALL in.
Begun(table) == [phase |-> "rest", table |-> table, loaded |-> -1, hub |-> -1,
                 first |-> 0, value |-> 0, expect |-> 0]

WriterGoes(c, phase) == writer' = [writer EXCEPT ![c].phase = phase]

WriterRests(c, hub) == writer' = [writer EXCEPT ![c] = [Begun(writer[c].table) EXCEPT !.loaded = hub]]

\* The hub restarts: it starts empty, under a new identity.
HubRestarts ==
  /\ restarts < MaxRestarts
  /\ wall' = NoWall /\ restarts' = restarts + 1
  /\ UNCHANGED <<mark, wanted, writer, mirror, stops>>

Edits ==
  /\ wanted < MaxEdits
  /\ wanted' = wanted + 1
  /\ UNCHANGED <<wall, mark, writer, mirror, restarts, stops>>

-----------------------------------------------------------------------------
(* FleetHub._keep and WallWriter.ensure *)

\* A bug to catch: a hub that restarted under a running Central is not ensured again.
Unensured_Once(c) == writer[c].loaded = -1

\* WALL is ensured unless the running hub is the one it was last ensured in.
Unensured(c) == writer[c].loaded # restarts

EnsuresWall(c) ==
  /\ writer[c].phase = "rest" /\ Unensured(c)
  /\ IF wall.there /\ wall.table = writer[c].table
     THEN WriterRests(c, restarts)
     ELSE writer' = [writer EXCEPT ![c].hub = restarts, ![c].phase = IF wall.there THEN "delete" ELSE "mark"]
  /\ UNCHANGED <<wall, mark, wanted, mirror, restarts, stops>>

\* A WALL with another release's key table; another Central may have deleted it first.
DeletesWall(c) ==
  /\ writer[c].phase = "delete"
  /\ wall' = NoWall
  /\ WriterGoes(c, "mark")
  /\ UNCHANGED <<mark, wanted, mirror, restarts, stops>>

\* A bug to catch: WALL starts right after the mark.
PastTheMark_NoMargin == mark + 1

PastTheMark == mark + 1 + WallMargin

ReadsMark(c) ==
  /\ writer[c].phase = "mark"
  /\ writer' = [writer EXCEPT ![c].phase = "declare", ![c].first = PastTheMark]
  /\ UNCHANGED <<wall, mark, wanted, mirror, restarts, stops>>

\* declare: created if absent, and left as it is otherwise.
DeclaresWall(c) ==
  /\ writer[c].phase = "declare"
  /\ wall' = IF wall.there THEN wall
             ELSE [NoWall EXCEPT !.there = TRUE, !.table = writer[c].table, !.first = writer[c].first, !.last = writer[c].first - 1]
  /\ WriterRests(c, writer[c].hub)
  /\ UNCHANGED <<mark, wanted, mirror, restarts, stops>>

-----------------------------------------------------------------------------
(* RoomLightsWall, and WallWriter.put *)

\* The current document, at every wake and every few seconds, once WALL was ensured.
PutsCurrent(c) ==
  /\ writer[c].phase = "rest" /\ writer[c].loaded # -1
  /\ wall.there /\ wall.value # wanted
  /\ writer' = [writer EXCEPT ![c].phase = "read", ![c].value = wanted]
  /\ UNCHANGED <<wall, mark, wanted, mirror, restarts, stops>>

\* A value already there is not written again; a hub without WALL answers neither call.
ReadsKey(c) ==
  /\ writer[c].phase = "read"
  /\ IF ~wall.there \/ wall.value = writer[c].value
     THEN WriterRests(c, writer[c].loaded)
     ELSE writer' = [writer EXCEPT ![c].phase = "write", ![c].expect = wall.seq]
  /\ UNCHANGED <<wall, mark, wanted, mirror, restarts, stops>>

Expected(c) == wall.seq = writer[c].expect

\* A Node that mirrors at once has the write as soon as it is there.
WritesKey(c) ==
  /\ writer[c].phase = "write"
  /\ IF wall.there /\ Expected(c)
     THEN /\ wall' = [wall EXCEPT !.last = @ + 1, !.seq = wall.last + 1, !.value = writer[c].value]
          /\ mirror' = IF wall.last >= mirror THEN wall.last + 1 ELSE mirror
          /\ writer' = [writer EXCEPT ![c].phase = "record", ![c].expect = wall.last + 1, ![c].value = 0]
     ELSE /\ UNCHANGED <<wall, mirror>>
          /\ IF wall.there THEN WriterGoes(c, "read") ELSE WriterRests(c, writer[c].loaded)
  /\ UNCHANGED <<mark, wanted, restarts, stops>>

\* record_mark keeps the greatest.
Marked(seq) == IF seq > mark THEN seq ELSE mark

RecordsMark(c) ==
  /\ writer[c].phase = "record"
  /\ mark' = Marked(writer[c].expect)
  /\ WriterRests(c, writer[c].loaded)
  /\ UNCHANGED <<wall, wanted, mirror, restarts, stops>>

\* A Central stops, or does not hear the hub, and begins again, perhaps upgraded.
CentralStops(c) ==
  /\ stops < MaxStops
  /\ stops' = stops + 1
  /\ \E table \in {writer[c].table, 2} : writer' = [writer EXCEPT ![c] = Begun(table)]
  /\ UNCHANGED <<wall, mark, wanted, mirror, restarts>>

-----------------------------------------------------------------------------

WallInit ==
  /\ wall = NoWall /\ mark = 0 /\ wanted = 1 /\ mirror = 0
  /\ writer = [c \in Centrals |-> Begun(1)] /\ restarts = 0 /\ stops = 0

WriterStep(c) ==
  \/ EnsuresWall(c) \/ DeletesWall(c) \/ ReadsMark(c) \/ DeclaresWall(c) \/ PutsCurrent(c) \/ ReadsKey(c) \/ WritesKey(c) \/ RecordsMark(c)

WallNext ==
  \/ HubRestarts \/ Edits
  \/ \E c \in Centrals : WriterStep(c) \/ CentralStops(c)

WallFairness == \A c \in Centrals : WF_wallVars(WriterStep(c))

WallSpec == WallInit /\ [][WallNext]_wallVars /\ WallFairness

-----------------------------------------------------------------------------
(* Properties *)

WallTypeOK ==
  /\ wall \in [there : BOOLEAN, table : {0, 1, 2}, first : Nat, last : Nat, value : Nat, seq : Nat]
  /\ wall.seq <= wall.last /\ {mark, wanted, mirror, restarts} \subseteq Nat /\ stops \in 0..MaxStops
  /\ writer \in [Centrals -> [phase : {"delete", "mark", "declare", "rest", "read", "write", "record"},
                              table : {1, 2}, loaded : Nat \cup {-1}, hub : Nat \cup {-1},
                              first : Nat, value : Nat, expect : Nat]]
  /\ \A c \in Centrals : writer[c].phase = "declare" => writer[c].first > 0

\* "no Node mirror is ever ahead of the new WALL's first sequence" (hub.py), whatever was
\* lost between an acknowledgement and its mark.
NoMirrorIsAhead == wall.there => mirror <= wall.first \/ mirror <= wall.last

\* What holds of it: once a write of the running hub's WALL was marked, a WALL made again
\* from the mark starts past every write there has been, marked or lost.
MarginCovers == wall.there /\ mark >= wall.first => wall.last < PastTheMark

\* WALL holds the wall document, in the end, whoever made it again and whoever stopped.
WallHoldsTheDocument == <>[](wall.there /\ wall.value = wanted)
==============================================================================
