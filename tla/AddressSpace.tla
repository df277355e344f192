---------------------------- MODULE AddressSpace ----------------------------
(***************************************************************************)
(* What paging promises its callers, without tables, levels or large       *)
(* pages: a call asks for a range of pages to be mapped to consecutive     *)
(* frames.  Until it returns, translations change only inside the range,   *)
(* and only to what was asked for; when it succeeds, the whole range       *)
(* translates as asked.  Paging is shown to implement this specification.  *)
(***************************************************************************)
EXTENDS Integers

CONSTANTS VPages,      \* the virtual pages
          NotMapped    \* the translation of a page that is not mapped

VARIABLES space,       \* the translation of every virtual page
          busy,        \* a call is in progress
          wanted,      \* the translations that the last call asked for
          result       \* what the last call returned: 0 or -1

vars == <<space, busy, wanted, result>>

Init == /\ space = [v \in VPages |-> NotMapped]
        /\ busy = FALSE
        /\ wanted = {}
        /\ result = 0

(* A call may ask for anything; it may also fail before it begins.         *)
Begin == /\ ~ busy
         /\ wanted' \subseteq VPages \X Nat
         /\ \/ busy' = TRUE /\ result' = 0
            \/ busy' = FALSE /\ result' = -1
         /\ UNCHANGED space

Install == /\ busy
           /\ \A v \in VPages : space'[v] = space[v] \/ <<v, space'[v]>> \in wanted
           /\ space' = [v \in VPages |-> space'[v]]
           /\ UNCHANGED <<busy, wanted, result>>

Succeed == /\ busy /\ result = 0
           /\ \A pair \in wanted : space[pair[1]] = pair[2]
           /\ busy' = FALSE
           /\ UNCHANGED <<space, wanted, result>>

(* A failed call may go on for a while, to clean up.                       *)
Fail == /\ busy
        /\ result' = -1
        /\ busy' \in BOOLEAN
        /\ UNCHANGED <<space, wanted>>

Next == Begin \/ Install \/ Succeed \/ Fail

Spec == Init /\ [][Next]_vars
=============================================================================
