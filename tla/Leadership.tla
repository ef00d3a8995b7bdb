----------------------------- MODULE Leadership -----------------------------
(***************************************************************************)
(* What the leader elector promises to the rest of a control-plane node:   *)
(* its IsLeader() answer, and the fenced context it hands to the work done *)
(* in a term.  Every term carries an epoch no earlier term carried, and a  *)
(* node's context is live exactly while the node believes that it leads.   *)
(* Nothing is said of two nodes leading at once: the elector does not      *)
(* promise that (see LeaderElection, SingleLeader).                        *)
(***************************************************************************)
EXTENDS Naturals

CONSTANTS
    Node,
    Epoch   \* the fencing epochs; 0 is not one of them

VARIABLES
    isLeader,   \* isLeader[n]: what IsLeader() answers on node n
    leaderCtx,  \* leaderCtx[n]: the last fenced context made on n
    terms       \* the epochs of every term that has begun, anywhere

vars == <<isLeader, leaderCtx, terms>>

\* The context of a node that never led: epoch 0 is never handed out.
NoCtx == [epoch |-> 0, live |-> FALSE]

Init ==
    /\ isLeader = [n \in Node |-> FALSE]
    /\ leaderCtx = [n \in Node |-> NoCtx]
    /\ terms = {}

\* Node n begins a term whose epoch was never used before.
Elect(n, e) ==
    /\ ~isLeader[n]
    /\ e \notin terms
    /\ isLeader' = [isLeader EXCEPT ![n] = TRUE]
    /\ leaderCtx' = [leaderCtx EXCEPT ![n] = [epoch |-> e, live |-> TRUE]]
    /\ terms' = terms \cup {e}

\* Node n stops believing that it leads; its context is cancelled.
Lose(n) ==
    /\ isLeader[n]
    /\ isLeader' = [isLeader EXCEPT ![n] = FALSE]
    /\ leaderCtx' = [leaderCtx EXCEPT ![n].live = FALSE]
    /\ UNCHANGED terms

\* The process of node n is replaced by a fresh one.
Restart(n) ==
    /\ isLeader' = [isLeader EXCEPT ![n] = FALSE]
    /\ leaderCtx' = [leaderCtx EXCEPT ![n] = NoCtx]
    /\ UNCHANGED terms

Next ==
    \E n \in Node :
        \/ \E e \in Epoch : Elect(n, e)
        \/ Lose(n)
        \/ Restart(n)

Spec == Init /\ [][Next]_vars
=============================================================================
