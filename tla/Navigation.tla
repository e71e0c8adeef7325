------------------------------ MODULE Navigation ------------------------------
(***************************************************************************)
(* The part of lib/app-state.ts that says which page is shown: the screen, *)
(* the stack of pages to go back to, and the household the page is about.  *)
(* A page is a screen with its household; `handoff', which only the account*)
(* opening wizard reads, is left out.                                      *)
(***************************************************************************)
EXTENDS Sequences, SequencesExt

CONSTANTS
  Households,   \* ids of households
  MaxDepth,     \* pages remembered at most
  None

ASSUME NavigationAssumption ==
  /\ MaxDepth \in Nat
  /\ None \notin Households

\* The screens followed here; the others are opened and left in the same way.
Screens == {"home", "dashboard", "family", "meeting", "compliance"}
Page == [screen : Screens, ctx : Households \union {None}]

NavState ==
  [screen : Screens, ctx : Households \union {None}, stack : BoundedSeq(Page, MaxDepth)]

Home == [screen |-> "home", ctx |-> None, stack |-> <<>>]

\* NAVIGATE: the page left is remembered with its own household, unless it is the
\* home screen; a request without a household keeps the one at hand.
MutNavTo(n, s, h) ==
  [screen |-> s, ctx |-> IF h # None THEN h ELSE n.ctx,
   stack |-> IF n.screen = "home" THEN n.stack
             ELSE Append(n.stack, [screen |-> n.screen, ctx |-> h])]
NavTo(n, s, h) ==
  [screen |-> s, ctx |-> IF h # None THEN h ELSE n.ctx,
   stack |-> IF n.screen = "home" THEN n.stack
             ELSE Append(n.stack, [screen |-> n.screen, ctx |-> n.ctx])]

\* GO_BACK
NavBack(n) ==
  IF n.stack = <<>> THEN Home
  ELSE [screen |-> Last(n.stack).screen, ctx |-> Last(n.stack).ctx, stack |-> Front(n.stack)]

\* SET_SETUP_STEP "ready": a principal lands on the dashboard, the others on the
\* screen that was there.
NavReady(n, role) == IF role = "principal" THEN [n EXCEPT !.screen = "dashboard"] ELSE n
=============================================================================
