------------------------------ MODULE Trackers ------------------------------
(***************************************************************************)
(* What the library promises its program, said without structures, lists   *)
(* and counters.  The program holds trackers.  A tracker is empty or views *)
(* a part of an allocated block, from one byte up to the block's last, and *)
(* stands at one of its bytes.  Trackers that view one block share it.     *)
(* Memory somebody views stays allocated; when memory that nobody views    *)
(* goes is left open.                                                      *)
(***************************************************************************)
EXTENDS Integers

CONSTANTS Tracker, Block, MaxSize,
          Void          \* the view of a tracker that is empty or not held

VARIABLES held, view, allocated
vars == <<held, view, allocated>>

View ==
  [block : Block, from : 0 .. MaxSize, cur : 0 .. MaxSize,
   to    : -1 .. MaxSize - 1]

Init ==
  /\ held = {}
  /\ view = [t \in Tracker |-> Void]
  /\ allocated = {}

Viewed(v) == {v[t].block : t \in {t \in Tracker : v[t] # Void}}

(* The views become v, and only memory that is in no view may go.          *)
Become(v) ==
  /\ view' = v
  /\ allocated' \subseteq allocated
  /\ Viewed(v) \subseteq allocated'

(* The part of a view from the current byte on.                            *)
Rest(w) == IF w = Void THEN Void ELSE [w EXCEPT !.from = w.cur]

Malloc(t, b, size) ==
  /\ t \notin held
  /\ b \notin allocated
  /\ held' = held \cup {t}
  /\ view' = [view EXCEPT ![t] =
                [block |-> b, from |-> 0, cur |-> 0, to |-> size - 1]]
  /\ allocated' = allocated \cup {b}

MakeEmpty(t) ==
  /\ t \notin held
  /\ held' = held \cup {t}
  /\ UNCHANGED <<view, allocated>>

Free(t) ==
  /\ t \in held
  /\ held' = held \ {t}
  /\ Become([view EXCEPT ![t] = Void])

(* A view from its first byte again.                                       *)
Back(w) == IF w = Void THEN Void ELSE [w EXCEPT !.cur = w.from]

(* s comes to view what n views, from n's current byte on; before that o,  *)
(* if there is one, goes back to its first byte and then comes to view     *)
(* what s viewed, likewise.                                                *)
SetPtr(s, n, o) ==
  LET back  == IF o = Void THEN view ELSE [view EXCEPT ![o] = Back(@)]
      given == IF o = Void THEN view ELSE [back EXCEPT ![o] = Rest(back[s])]
  IN  /\ UNCHANGED held
      /\ {s, n} \cup ({o} \ {Void}) \subseteq held
      /\ view[n] # Void
      /\ Become([given EXCEPT ![s] = Rest(given[n])])

Move(t) ==
  /\ t \in held
  /\ view[t] # Void
  /\ \E a \in view[t].from .. view[t].to :
       view' = [view EXCEPT ![t].cur = a]
  /\ UNCHANGED <<held, allocated>>

Release ==
  /\ Become(view)
  /\ UNCHANGED held

Destroy ==
  /\ held' = {}
  /\ Become([t \in Tracker |-> Void])

Next ==
  \/ Release
  \/ \E t \in Tracker, b \in Block, size \in 0 .. MaxSize : Malloc(t, b, size)
  \/ \E t \in Tracker : MakeEmpty(t) \/ Free(t) \/ Move(t)
  \/ \E s, n \in held, o \in held \cup {Void} : SetPtr(s, n, o)
  \/ Destroy

Spec == Init /\ [][Next]_vars

(* What the program holds views memory that is allocated.                  *)
TypeOK ==
  /\ held \subseteq Tracker
  /\ view \in [Tracker -> View \cup {Void}]
  /\ \A t \in Tracker \ held : view[t] = Void
  /\ Viewed(view) \subseteq allocated
  /\ allocated \subseteq Block

=============================================================================
