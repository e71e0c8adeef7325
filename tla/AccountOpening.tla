---------------------------- MODULE AccountOpening ----------------------------
(***************************************************************************)
(* The account-opening wizard: the reducer, navigation and draft of        *)
(* app/flow/useFlowState.ts with the controls app/flow/FlowScreen.tsx      *)
(* shows at each step.  The run of the paperwork pipeline is only started  *)
(* and ended here; PaperworkRun says what it writes.                       *)
(*                                                                         *)
(* A client is a name and whether isClientValid accepts the form.  An      *)
(* account is owned by a name, or by a pair of names when it is joint.     *)
(* What the user can always supply (a search text, bank details, a signer  *)
(* e-mail) is not part of the state.  isProcessing is left out: whatever   *)
(* sets the step to review also clears it.                                 *)
(***************************************************************************)
EXTENDS Naturals, Sequences, FiniteSets

CONSTANTS
  P1Names, P2Names,   \* full names typed for the two clients, never the same
  Others,             \* names typed for other beneficiaries
  IndivTypes,         \* INDIV_TYPES
  JointTypes,         \* JOINT_TYPES
  Survivorship,       \* the joint types that pass to the survivor
  Contact,            \* the trusted contact of the primary client
  None,               \* an empty name
  SampleP1, SampleP2, \* the clients quick-fill enters in demo mode
  SampleCouple,       \* the owner it gives the joint account
  SampleIndiv,        \* its account types, "Roth IRA" and "JTWROS"
  SampleJoint,
  MaxAccounts,        \* bound: accounts of an opening
  MaxRuns,            \* bound: pipeline runs at the same time
  MaxJumps            \* bound: quick-fills whose jump to review is to come

ASSUME OpeningAssumption ==
  /\ P1Names \intersect P2Names = {}
  /\ None \notin P1Names \union P2Names
  /\ (P1Names \union P2Names \union {None}) \intersect (P1Names \X P2Names) = {}
  /\ Survivorship \subseteq JointTypes
  /\ SampleP1 \in P1Names /\ SampleP2 \in P2Names
  /\ SampleIndiv \in IndivTypes /\ SampleJoint \in JointTypes
  /\ MaxAccounts \in Nat
  /\ MaxRuns \in Nat
  /\ MaxJumps \in Nat

Entry == {"context", "client-type", "search-existing", "enter-client-p1", "enter-client-p2"}
Selection == {"select-accounts-p1", "select-accounts-p2", "select-accounts-joint"}
Past == {"funding", "moneylink", "beneficiaries", "review", "generating", "complete"}
FlowStep == Entry \union Selection \union Past

Blank == [name |-> None, complete |-> FALSE]
Clients(names) == [name : names \union {None}, complete : BOOLEAN]
Owners == P1Names \union P2Names \union (P1Names \X P2Names) \union {None, SampleCouple}
Accounts == [owner : Owners, type : IndivTypes \union JointTypes, funded : BOOLEAN]
Id(a) == <<a.owner, a.type>>
Ids == Owners \X (IndivTypes \union JointTypes)

VARIABLES
  state,        \* the reducer's FlowState
  handed,       \* clients handed over by the onboarding screen, if any
  running,      \* pipeline runs of this mount that have not ended
  jumps,        \* timers of quick-fills that have still to fire
  interrupted,  \* history: a RESET came while a run was in progress
  resumed,      \* history: this opening was restored from a draft
  quick         \* history: a quick-fill reached this opening

history == <<interrupted, resumed, quick>>
vars == <<state, handed, running, jumps, history>>

NoClients == [p1 |-> Blank, p2 |-> Blank, hasP2 |-> FALSE]
Handoffs ==
  {[p1 |-> [name |-> n, complete |-> TRUE], p2 |-> Blank, hasP2 |-> FALSE] : n \in P1Names}
    \union {[p1 |-> [name |-> n[1], complete |-> TRUE],
             p2 |-> [name |-> n[2], complete |-> TRUE], hasP2 |-> TRUE] : n \in P1Names \X P2Names}

States ==
  [step : FlowStep, p1 : Clients(P1Names), p2 : Clients(P2Names),
   hasP2 : BOOLEAN, hasJoint : BOOLEAN, accounts : Seq(Accounts),
   fundIdx : Nat, setupACH : {"unset", "yes", "no"},
   benes : SUBSET (Ids \X (P1Names \union P2Names \union Others \union {Contact}))]

TypeOK ==
  /\ state \in States
  /\ handed \in Handoffs \union {NoClients}
  /\ running \in 0 .. MaxRuns
  /\ jumps \in 0 .. MaxJumps
  /\ interrupted \in BOOLEAN /\ resumed \in BOOLEAN /\ quick \in BOOLEAN

InitialState ==
  [step |-> "context", p1 |-> Blank, p2 |-> Blank, hasP2 |-> FALSE, hasJoint |-> FALSE,
   accounts |-> <<>>, fundIdx |-> 0, setupACH |-> "unset", benes |-> {}]

\* The state of a mount that was given initialClient.
HandoffState(h) ==
  [InitialState EXCEPT !.step = "select-accounts-p1", !.p1 = h.p1, !.p2 = h.p2, !.hasP2 = h.hasP2]

Init ==
  /\ handed \in Handoffs \union {NoClients}
  /\ state = IF handed = NoClients THEN InitialState ELSE HandoffState(handed)
  /\ running = 0 /\ jumps = 0
  /\ interrupted = FALSE /\ resumed = FALSE /\ quick = FALSE

-------------------------------------------------------------------------------
(* Helpers of the hook. *)

Joint(s) == <<s.p1.name, s.p2.name>>

AcctsFor(s, owner) == {i \in DOMAIN s.accounts : s.accounts[i].owner = owner}

IdsOf(s) == {Id(s.accounts[i]) : i \in DOMAIN s.accounts}

\* Accounts whose beneficiary is not settled by survivorship.
Designable(s) == {id \in IdsOf(s) : id[2] \notin Survivorship}

\* The spouse; alone, the trusted contact, which every complete form has.
Beneficiary(s, owner) ==
  IF s.hasP2 THEN IF owner = s.p2.name THEN s.p1.name ELSE s.p2.name
  ELSE IF s.p1.name = None THEN None ELSE Contact

\* The effect that runs when the step becomes "beneficiaries".
Designated(s) ==
  IF s.benes # {} THEN s.benes
  ELSE {b \in {<<id, Beneficiary(s, id[1])>> : id \in Designable(s)} : b[2] # None}

\* SET_STEP, with the effect above.
At(s, step) ==
  [s EXCEPT !.step = step, !.benes = IF step = "beneficiaries" THEN Designated(s) ELSE @]

\* A step of the user that only the reducer sees.
Becomes(s) == state' = s /\ UNCHANGED <<handed, running, jumps, history>>

GoTo(step) == Becomes(At(state, step))

-------------------------------------------------------------------------------
(* The controls, step by step. *)

ChooseIntents == state.step = "context" /\ GoTo("client-type")

ChooseClientType ==
  /\ state.step = "client-type"
  /\ \E s \in {"search-existing", "enter-client-p1"} : GoTo(s)

\* A search result replaces the primary client's form.
PickResult ==
  /\ state.step = "search-existing"
  /\ \E n \in P1Names :
       Becomes([state EXCEPT !.p1 = [name |-> n, complete |-> FALSE], !.step = "enter-client-p1"])

SkipSearch == state.step = "search-existing" /\ GoTo("enter-client-p1")

\* Typing into the form; an empty name only makes it incomplete.
EditP1 ==
  /\ state.step = "enter-client-p1"
  /\ \E c \in [name : P1Names, complete : BOOLEAN] : Becomes([state EXCEPT !.p1 = c])

EditP2 ==
  /\ state.step = "enter-client-p2"
  /\ \E c \in [name : P2Names, complete : BOOLEAN] : Becomes([state EXCEPT !.p2 = c])

AddP2 ==
  /\ state.step = "enter-client-p1" /\ ~state.hasP2
  /\ Becomes([state EXCEPT !.hasP2 = TRUE])

WithoutP2(s) == [s EXCEPT !.hasP2 = FALSE, !.p2 = Blank, !.hasJoint = FALSE]

RemoveP2 ==
  /\ state.step = "enter-client-p1" /\ state.hasP2
  /\ Becomes(WithoutP2(state))

ToggleJoint ==
  /\ state.step = "enter-client-p1"
  /\ state.hasP2 /\ state.p1.name # None /\ state.p2.name # None
  /\ Becomes([state EXCEPT !.hasJoint = ~@])

\* Mutant: the button is not disabled for an incomplete form.
MutContinueFromP1 ==
  /\ state.step = "enter-client-p1"
  /\ state.p1.name # None
  /\ GoTo(IF state.hasP2 THEN "enter-client-p2" ELSE "select-accounts-p1")

ContinueFromP1 ==
  /\ state.step = "enter-client-p1"
  /\ state.p1.complete
  /\ GoTo(IF state.hasP2 THEN "enter-client-p2" ELSE "select-accounts-p1")

ContinueFromP2 ==
  /\ state.step = "enter-client-p2"
  /\ state.p2.complete
  /\ GoTo("select-accounts-p1")

\* "Remove second client".
DropP2 ==
  /\ state.step = "enter-client-p2"
  /\ Becomes([WithoutP2(state) EXCEPT !.step = "select-accounts-p1"])

SelectingFor ==
  CASE state.step = "select-accounts-p1" -> state.p1.name
    [] state.step = "select-accounts-p2" -> state.p2.name
    [] state.step = "select-accounts-joint" -> Joint(state)

\* Position i of the list; no two accounts have the same id (UniqueInv).
Without(accounts, i) == SubSeq(accounts, 1, i - 1) \o SubSeq(accounts, i + 1, Len(accounts))

\* ADD_ACCOUNT: adds the account, or takes it away when it is there.
Toggled(accounts, owner, type) ==
  IF \E i \in DOMAIN accounts : Id(accounts[i]) = <<owner, type>>
  THEN Without(accounts, CHOOSE i \in DOMAIN accounts : Id(accounts[i]) = <<owner, type>>)
  ELSE Append(accounts, [owner |-> owner, type |-> type, funded |-> FALSE])

ToggleAccount ==
  /\ state.step \in Selection
  /\ \E type \in IF state.step = "select-accounts-joint" THEN JointTypes ELSE IndivTypes :
       LET accounts == Toggled(state.accounts, SelectingFor, type)
       IN /\ Len(accounts) <= MaxAccounts
          /\ Becomes([state EXCEPT !.accounts = accounts])

\* nextP1, nextP2 and nextJoint.
AfterSelection(s) ==
  IF s.step = "select-accounts-p1" /\ s.hasP2 THEN At(s, "select-accounts-p2")
  ELSE IF s.step # "select-accounts-joint" /\ s.hasJoint THEN At(s, "select-accounts-joint")
  ELSE [At(s, "funding") EXCEPT !.fundIdx = 0]

ContinueFromSelection ==
  /\ state.step \in Selection
  /\ AcctsFor(state, SelectingFor) # {}
  /\ Becomes(AfterSelection(state))

\* The button of the demo mode: two clients whose Social Security numbers are masked,
\* a retirement account and one of the couple, under a name no page would give it.
QuickFill ==
  /\ state.step = "context"
  /\ jumps < MaxJumps
  /\ LET accounts == Toggled(Toggled(state.accounts, SampleP1, SampleIndiv),
                             SampleCouple, SampleJoint)
     IN /\ Len(accounts) <= MaxAccounts
        /\ state' = [state EXCEPT !.p1 = [name |-> SampleP1, complete |-> FALSE],
                                  !.p2 = [name |-> SampleP2, complete |-> FALSE],
                                  !.hasP2 = TRUE, !.hasJoint = TRUE, !.accounts = accounts]
  /\ jumps' = jumps + 1
  /\ quick' = TRUE
  /\ UNCHANGED <<handed, running, interrupted, resumed>>

\* 100 ms later, whatever the step is by then.
JumpToReview ==
  /\ jumps > 0
  /\ jumps' = jumps - 1
  /\ state' = At(state, "review")
  /\ UNCHANGED <<handed, running, history>>

\* The page is empty when there is no account at fundIdx.
FundingShown == state.step = "funding" /\ state.fundIdx < Len(state.accounts)

ChooseFunding ==
  /\ FundingShown
  /\ Becomes([state EXCEPT !.accounts[state.fundIdx + 1].funded = TRUE])

\* Mutant: the last account is skipped.
MutContinueFromFunding ==
  /\ FundingShown
  /\ state.accounts[state.fundIdx + 1].funded
  /\ IF state.fundIdx + 2 < Len(state.accounts)
     THEN Becomes([state EXCEPT !.fundIdx = @ + 1])
     ELSE GoTo("moneylink")

\* nextFund; transfer details may be skipped, the kind of funding may not.
ContinueFromFunding ==
  /\ FundingShown
  /\ state.accounts[state.fundIdx + 1].funded
  /\ IF state.fundIdx + 1 < Len(state.accounts)
     THEN Becomes([state EXCEPT !.fundIdx = @ + 1])
     ELSE GoTo("moneylink")

SetUpACH ==
  /\ state.step = "moneylink" /\ state.setupACH = "unset"
  /\ Becomes([state EXCEPT !.setupACH = "yes"])

SkipACH ==
  /\ state.step = "moneylink" /\ state.setupACH = "unset"
  /\ Becomes([At(state, "beneficiaries") EXCEPT !.setupACH = "no"])

ContinueFromACH ==
  /\ state.step = "moneylink" /\ state.setupACH = "yes"
  /\ GoTo("beneficiaries")

ChangeBeneficiaries ==
  /\ state.step = "beneficiaries"
  /\ \/ \E id \in Designable(state), n \in Others :
          Becomes([state EXCEPT !.benes = @ \union {<<id, n>>}])
     \/ \E b \in state.benes :
          b[1] \in Designable(state) /\ Becomes([state EXCEPT !.benes = @ \ {b}])

ContinueFromBeneficiaries == state.step = "beneficiaries" /\ GoTo("review")

\* The cards of the review page.
EditFromReview ==
  /\ state.step = "review"
  /\ \E s \in {"enter-client-p1", "select-accounts-p1"}
              \union IF state.hasP2 /\ state.p2.name # None THEN {"enter-client-p2"} ELSE {} :
       GoTo(s)

Previous(s) ==
  CASE s.step = "client-type" -> "context"
    [] s.step \in {"search-existing", "enter-client-p1"} -> "client-type"
    [] s.step = "enter-client-p2" -> "enter-client-p1"
    [] s.step = "select-accounts-p1" -> IF s.hasP2 THEN "enter-client-p2" ELSE "enter-client-p1"
    [] s.step = "select-accounts-p2" -> "select-accounts-p1"
    [] s.step = "select-accounts-joint" -> IF s.hasP2 THEN "select-accounts-p2" ELSE "select-accounts-p1"
    [] s.step = "funding" -> IF s.hasJoint THEN "select-accounts-joint"
                             ELSE IF s.hasP2 THEN "select-accounts-p2" ELSE "select-accounts-p1"
    [] s.step = "moneylink" -> "funding"
    [] s.step = "beneficiaries" -> "moneylink"
    [] s.step = "review" -> "beneficiaries"

Back ==
  /\ state.step \notin {"context", "generating", "complete"}
  /\ GoTo(Previous(state))

-------------------------------------------------------------------------------
(* The pipeline, Start Over, and leaving the screen. *)

Generate ==
  /\ state.step = "review"
  /\ running < MaxRuns
  /\ state' = At(state, "generating")
  /\ running' = running + 1
  /\ UNCHANGED <<handed, jumps, history>>

\* A run sets the step when it ends, whatever the step is by then.
RunEnds ==
  /\ running > 0
  /\ running' = running - 1
  /\ \E s \in {"complete", "review"} : state' = At(state, s)
  /\ UNCHANGED <<handed, jumps, history>>

StartOverShown == handed = NoClients /\ state.step \notin {"context", "complete"}

Reset ==
  /\ state' = InitialState
  /\ interrupted' = IF running > 0 THEN TRUE ELSE FALSE
  /\ resumed' = FALSE
  /\ quick' = IF jumps > 0 THEN TRUE ELSE FALSE
  /\ UNCHANGED <<handed, running, jumps>>

StartOver == StartOverShown /\ Reset

NewOpening == state.step = "complete" /\ Reset

Forget(s) == [s EXCEPT !.p1.complete = FALSE, !.p2.complete = FALSE]

\* The draft in sessionStorage: none at the ends of the wizard, and the one of
\* the review page while generating.
Draft(s) ==
  IF s.step \in {"context", "complete"} THEN InitialState
  ELSE Forget(At(s, IF s.step = "generating" THEN "review" ELSE s.step))

\* The screen is mounted again: runs and timers of the last mount no longer reach it.
Mount(h) ==
  /\ handed' = h
  /\ state' = IF h = NoClients THEN Draft(state) ELSE HandoffState(h)
  /\ running' = 0 /\ jumps' = 0
  /\ resumed' = (h = NoClients /\ state.step \notin {"context", "complete"})
  /\ interrupted' = (interrupted /\ resumed')
  /\ quick' = (quick /\ resumed')

\* By way of another screen, which keeps the handoff; of Home or a reload, which
\* forget it; or of the onboarding screen, which hands new clients over.
Remount == \E h \in Handoffs \union {NoClients} : Mount(h)

Next ==
  \/ QuickFill \/ JumpToReview
  \/ ChooseIntents \/ ChooseClientType \/ PickResult \/ SkipSearch
  \/ EditP1 \/ EditP2 \/ AddP2 \/ RemoveP2 \/ ToggleJoint
  \/ ContinueFromP1 \/ ContinueFromP2 \/ DropP2
  \/ ToggleAccount \/ ContinueFromSelection
  \/ ChooseFunding \/ ContinueFromFunding
  \/ SetUpACH \/ SkipACH \/ ContinueFromACH
  \/ ChangeBeneficiaries \/ ContinueFromBeneficiaries
  \/ EditFromReview \/ Back
  \/ Generate \/ RunEnds \/ StartOver \/ NewOpening
  \/ Remount

Spec == Init /\ [][Next]_vars
-------------------------------------------------------------------------------
(* Properties. *)

Uninterrupted == ~interrupted

\* This opening went through the wizard page by page: no quick-fill entered or skipped
\* anything in it, and no run of a former opening set its step.
Walked == Uninterrupted /\ ~quick

\* Bound of the runs: an opening that was not walked is followed around the page of the
\* quick-fill and the page it jumps to; the properties below say nothing of it, and the
\* next opening starts afresh.
Followed ==
  /\ Uninterrupted
  /\ quick => state.step \in {"context", "client-type", "review", "generating", "complete"}

Seated == state.step \in Past /\ Walked

Complete == state.p1.complete /\ (state.hasP2 => state.p2.complete)

\* The funding page always has an account to show: fundIdx stays inside the list
\* however the user goes back and takes accounts away (curFund, FlowScreen 356).
FundingShowsAccount == state.step = "funding" /\ Walked => FundingShown

\* Past the funding pages every account has its kind of funding decided, the ones
\* added on a later round too, unless a quick-fill jumped over the pages.
FundingDecided ==
  Seated /\ state.step # "funding" => \A i \in DOMAIN state.accounts : state.accounts[i].funded

\* Past the selection pages both people and, when it was asked for, the couple own an
\* account under the names they have now, though names can be edited afterwards.
EveryoneHasAnAccount ==
  Seated =>
    /\ AcctsFor(state, state.p1.name) # {}
    /\ state.hasP2 => AcctsFor(state, state.p2.name) # {}
    /\ state.hasJoint => AcctsFor(state, Joint(state)) # {}

\* Past the selection pages the forms of both clients are complete, though they can be
\* reopened from the review page and left by Back, unless a draft was restored or a
\* quick-fill jumped over the pages.
CompleteUnlessResumed == Seated /\ ~resumed => Complete

-------------------------------------------------------------------------------
(* The inductive invariant: what each page may rely on. *)

AfterP2 == Past \union {"select-accounts-joint"}
AfterP1 == AfterP2 \union {"select-accounts-p2"}

Named(s, step) ==
  /\ step \in Selection \union Past \union {"enter-client-p2"} => s.p1.name # None
  /\ step = "select-accounts-p2" => s.hasP2

Filled(s, step) ==
  /\ step = "enter-client-p2" => s.p1.complete
  /\ step \in Selection \union Past => s.p1.complete /\ (s.hasP2 => s.p2.complete)

Owned(s, step) ==
  /\ step \in AfterP1 => AcctsFor(s, s.p1.name) # {}
  /\ step \in AfterP2 /\ s.hasP2 => AcctsFor(s, s.p2.name) # {}
  /\ step \in Past /\ s.hasJoint => AcctsFor(s, Joint(s)) # {}

Funded(s, step) ==
  step \in Past =>
    /\ s.fundIdx < Len(s.accounts)
    /\ \A i \in DOMAIN s.accounts : step # "funding" \/ i <= s.fundIdx => s.accounts[i].funded

Ready(s, step) ==
  Named(s, step) /\ (resumed \/ Filled(s, step)) /\ Owned(s, step) /\ Funded(s, step)

\* No two accounts have the same id.
UniqueInv ==
  \A i, j \in DOMAIN state.accounts : Id(state.accounts[i]) = Id(state.accounts[j]) => i = j

\* The page of the couple is only for two people with names.
NamesInv ==
  /\ state.p1.complete => state.p1.name # None
  /\ state.p2.complete => state.p2.name # None
  /\ state.hasJoint => state.hasP2 /\ state.p1.name # None /\ state.p2.name # None
  /\ state.step = "select-accounts-joint" => state.hasJoint

\* Only one run reaches the screen, unless one was started over or jumped away from.
RunInv ==
  /\ state.step = "generating" => running > 0
  /\ Walked => running = IF state.step = "generating" THEN 1 ELSE 0
  /\ jumps > 0 => quick

\* The type invariant and what the pages rely on.
IInv ==
  TypeOK /\ UniqueInv /\ NamesInv /\ RunInv /\ (Walked => Ready(state, state.step))
=============================================================================
