-------------------------------- MODULE Trail ---------------------------------
(***************************************************************************)
(* What the back button promises, without a reducer or a stack: the pages  *)
(* visited since the home screen form a trail, the page shown is its last  *)
(* one, and going back takes that page away and nothing else.              *)
(***************************************************************************)
EXTENDS Sequences, SequencesExt

CONSTANTS
  Pages,       \* what can be shown, besides the home screen
  Dashboards   \* those among them that a principal lands on

VARIABLE trail

Init == trail = <<>>

Visit == trail' # <<>> /\ Front(trail') = trail /\ Last(trail') \in Pages
Back == trail # <<>> /\ trail' = Front(trail)

\* The home screen, or a reload of the page.
GoHome == trail' \in {<<>>} \union {<<p>> : p \in Dashboards}

\* A principal signing in sees the dashboard in place of the page shown.
Land ==
  /\ trail' # <<>> /\ Last(trail') \in Dashboards
  /\ Front(trail') = IF trail = <<>> THEN <<>> ELSE Front(trail)

Next == Visit \/ Back \/ GoHome \/ Land
Spec == Init /\ [][Next]_trail
=============================================================================
