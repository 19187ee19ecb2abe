----------------------------- MODULE MCOverlay -----------------------------
(* Two menus, one that closes on an action and executes on release, one    *)
(* that defers; three actions: open a menu, close, search.                 *)
EXTENDS Overlay

CONSTANTS m1, m2, open, close, find

Effects ==
  [x \in {open, close, find} |->
     CASE x = open  -> <<[call |-> "show", of |-> m1]>>
       [] x = close -> <<[call |-> "hideSearch"], [call |-> "hide"]>>
       [] x = find  -> <<[call |-> "search"]>>]
=============================================================================
