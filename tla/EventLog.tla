------------------------------- MODULE EventLog -------------------------------
(***************************************************************************)
(* What a storage backend promises a boundary: its history only grows, at  *)
(* the end, by whole writes, each of which was saved while everything its  *)
(* command had observed still stood.                                       *)
(***************************************************************************)
EXTENDS Consistency

CONSTANT Initial   \* the writes the boundary starts with

VARIABLE history   \* the writes of the boundary

Init == history = Initial

\* The writes of ws that precede w.
Earlier(w, ws) == {x \in ws : x.commit < w.commit}

\* A whole number of writes is saved, in one order.
Save ==
    /\ history \subseteq history'
    /\ \A w \in history' \ history :
          /\ DOMAIN w.docs # {}
          /\ \A x \in history' : x # w => x.commit # w.commit
          /\ history \subseteq Earlier(w, history')
          /\ \A old \in Rows(Earlier(w, history')), new \in WriteRows(w) : Before(old.pos, new.pos)
          /\ Satisfied(w.checks, Rows(Earlier(w, history')))

Spec == Init /\ [][Save]_history
=============================================================================
