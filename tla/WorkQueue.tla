----------------------------- MODULE WorkQueue -----------------------------
(***************************************************************************)
(* What the job queue of one process promises, without rows, processes or  *)
(* tasks: a durable first-in first-out queue of folders.  A folder is      *)
(* queued or worked on at most once, one folder is worked on at a time,    *)
(* and work that a crash interrupts is given up, not started over.  Every  *)
(* accepted submission has a ticket, the tickets in the order of           *)
(* acceptance.                                                             *)
(***************************************************************************)
EXTENDS Naturals

CONSTANT Folder

VARIABLES
    issued,   \* the tickets issued so far are 1..issued
    waiting,  \* the queue: pairs <<ticket, folder>>
    busy      \* the folders being worked on

wqVars == <<issued, waiting, busy>>

WQInit == issued = 0 /\ waiting = {} /\ busy = {}

Submit(f) ==
    /\ f \notin busy
    /\ \A w \in waiting : w[2] # f
    /\ issued' = issued + 1
    /\ waiting' = waiting \cup {<<issued + 1, f>>}
    /\ UNCHANGED busy

Take ==
    \E w \in waiting :
        /\ busy = {}
        /\ \A v \in waiting : w[1] <= v[1]
        /\ waiting' = waiting \ {w}
        /\ busy' = {w[2]}
        /\ UNCHANGED issued

\* The work ends, with either outcome, or is given up after a crash.
Release ==
    /\ busy # {}
    /\ busy' = {}
    /\ UNCHANGED <<issued, waiting>>

WQNext == (\E f \in Folder : Submit(f)) \/ Take \/ Release

WQSpec == WQInit /\ [][WQNext]_wqVars
=============================================================================
