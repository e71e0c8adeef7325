--------------------------- MODULE MoneyMovement ---------------------------
(***************************************************************************)
(* app/money/MoneyScreen.tsx: a wizard that turns a household, a kind of   *)
(* movement and its details into one task in Salesforce.  Choosing a       *)
(* household and submitting are calls whose answers set the step from      *)
(* wherever the user is by then; the details outlive the choice of         *)
(* another household; the command palette can open the screen on top of    *)
(* itself, so that leaving it does not always unmount it.                  *)
(*                                                                         *)
(* The search (its debounce and its results) is left out: any household    *)
(* may be found.  So are the wire templates and the withholding figures.   *)
(***************************************************************************)
EXTENDS Naturals, SequencesExt

CONSTANTS
  Households,
  Contexts,       \* what the screen may be opened for: households, or None
  Labels,         \* names of accounts, as parsed from a description
  IraLabels,      \* those that name a retirement account
  Offers,         \* the sets of accounts that descriptions parse to
  Types,          \* the kinds of movement offered
  None,
  MaxPicks,       \* bound on the user's choices whose answers are awaited
  MaxSubmits,     \* bound on the requests sent
  MaxMounts,      \* bound on the mounts of the screen
  MaxAgain        \* bound on openings of the screen on top of itself

MovementTypes == {"wire", "journal", "ach-distribution", "ach-contribution", "check"}

ASSUME MoneyAssumption ==
  /\ Contexts \subseteq Households \union {None}
  /\ IraLabels \subseteq Labels
  /\ Offers \subseteq (SUBSET Labels) \ {{}}
  /\ Types \subseteq MovementTypes
  /\ None \notin Households \union Labels \union MovementTypes
  /\ {MaxPicks, MaxSubmits, MaxMounts, MaxAgain} \subseteq Nat

VARIABLES
  step,        \* "closed" while the screen is not mounted
  context,     \* initialContext: the household it was opened for, or None
  again,       \* entries of the screen itself on top of the navigation stack
  mounts,
  selected,    \* selectedHousehold
  accounts,    \* the labels the page offers
  details,     \* MovementDetails, free text reduced to whether it is valid
  picks,       \* per household: calls of selectHousehold awaiting an answer
  sends,       \* the createTask requests sent so far
  out,         \* those of this mount that are not answered, oldest first
  answered,    \* the one answered last, unless a new movement was begun
  reselected,  \* history: the household was chosen again under the details
  interrupted  \* history: ... and that while a request was out

form == <<selected, accounts, details>>
stack == <<context, again, mounts>>
requests == <<sends, out, answered>>
history == <<reselected, interrupted>>

vars == <<step, stack, form, picks, requests, history>>

Steps == {"search", "type", "details", "review", "submitting", "complete"}
Fields == {"amount", "bank", "reason"}

Details == [type : Types \union {None}, from : Labels \union {None},
            to : Labels \union {None}, filled : SUBSET Fields]

EMPTY_DETAILS == [type |-> None, from |-> None, to |-> None, filled |-> {}]

Requests == [household : Households, type : Types, from : Labels,
             to : Labels \union {None}]

\* The free-text fields without which the details are not valid.
Needed(det) ==
  {"amount"}
    \union (IF det.type = "wire" THEN {"bank"} ELSE {})
    \union (IF det.type = "ach-distribution" /\ det.from \in IraLabels
            THEN {"reason"} ELSE {})

detailsValid(det) ==
  /\ det.from # None
  /\ Needed(det) \subseteq det.filled
  /\ det.type = "journal" => det.to # None

NoPicks == [h \in Households |-> 0]
InFlight == {h \in Households : picks[h] > 0}

\* What is set when the screen is mounted or a new movement begun for
\* context c: the effect chooses the household of the context by itself.
Fresh(c, pending) ==
  /\ step' = "search"
  /\ selected' = None
  /\ accounts' = {}
  /\ details' = EMPTY_DETAILS
  /\ picks' = [h \in Households |-> pending[h] + (IF h = c THEN 1 ELSE 0)]
  /\ answered' = None
  /\ reselected' = FALSE

Init ==
  /\ step = "closed"
  /\ context = None
  /\ again = 0
  /\ mounts = 0
  /\ selected = None
  /\ accounts = {}
  /\ details = EMPTY_DETAILS
  /\ picks = NoPicks
  /\ sends = 0
  /\ out = <<>>
  /\ answered = None
  /\ reselected = FALSE
  /\ interrupted = FALSE

----------------------------------------------------------------------------
(* Mounting and leaving.                                                   *)

\* The screen opens, from a household's page or from nowhere in particular.
Enter(c) ==
  /\ step = "closed"
  /\ mounts < MaxMounts
  /\ mounts' = mounts + 1
  /\ context' = c
  /\ Fresh(c, NoPicks)
  /\ interrupted' = FALSE
  /\ UNCHANGED <<again, sends, out>>

\* The palette opens the screen that is open: the stack grows, nothing else.
EnterAgain ==
  /\ step # "closed"
  /\ again < MaxAgain
  /\ again' = again + 1
  /\ UNCHANGED <<step, context, mounts, form, picks, requests, history>>

\* The screen is unmounted: answers to its calls change nothing in it.
Unmount ==
  /\ step' = "closed"
  /\ context' = None
  /\ again' = 0
  /\ selected' = None
  /\ accounts' = {}
  /\ details' = EMPTY_DETAILS
  /\ picks' = NoPicks
  /\ out' = <<>>
  /\ answered' = None
  /\ reselected' = FALSE
  /\ interrupted' = FALSE
  /\ UNCHANGED <<mounts, sends>>

\* The palette, "View Family": another screen takes over.
Leave ==
  /\ step # "closed"
  /\ Unmount

\* onExit pops the stack, which may well show this screen again.
onExit ==
  \/ /\ again = 0
     /\ Unmount
  \/ /\ again > 0
     /\ again' = again - 1
     /\ UNCHANGED <<step, context, mounts, form, picks, requests, history>>

----------------------------------------------------------------------------
(* Choosing the household.                                                 *)

\* A result of the search is clicked; nothing keeps a second click out.
Pick(h) ==
  /\ step = "search"
  /\ Cardinality(InFlight) < MaxPicks
  /\ picks[h] = 0
  /\ picks' = [picks EXCEPT ![h] = 1]
  /\ UNCHANGED <<step, stack, form, requests, history>>

\* SET_SELECTED, wherever the user is by now.  Every description parses to
\* some account, a missing one to the primary account.
selectHousehold(h, offered) ==
  /\ picks[h] > 0
  /\ picks' = [picks EXCEPT ![h] = @ - 1]
  /\ selected' = h
  /\ accounts' = offered
  /\ step' = "type"
  /\ reselected' = (reselected \/ (selected # None /\ {details.from, details.to} # {None}))
  /\ interrupted' = (interrupted \/ step = "submitting")
  /\ UNCHANGED <<stack, details, requests>>

----------------------------------------------------------------------------
(* Filling in.                                                             *)

ChooseType(t) ==
  /\ step = "type"
  /\ details' = [details EXCEPT !.type = t]
  /\ step' = "details"
  /\ UNCHANGED <<stack, selected, accounts, picks, requests, history>>

\* The accounts offered, or none; a journal's destination is not the source
\* of now, but the source may be changed to it afterwards.
EditAccount ==
  /\ step = "details"
  /\ \/ \E a \in accounts \union {None} : details' = [details EXCEPT !.from = a]
     \/ /\ details.type = "journal"
        /\ \E a \in (accounts \ {details.from}) \union {None} :
             details' = [details EXCEPT !.to = a]
  /\ UNCHANGED <<step, stack, selected, accounts, picks, requests, history>>

\* A free-text field the page shows becomes valid, or no longer is.
EditField(f) ==
  /\ step = "details"
  /\ f \in Needed(details)
  /\ \E filled \in {details.filled \union {f}, details.filled \ {f}} :
       details' = [details EXCEPT !.filled = filled]
  /\ UNCHANGED <<step, stack, selected, accounts, picks, requests, history>>

Review ==
  /\ step = "details"
  /\ detailsValid(details)
  /\ step' = "review"
  /\ UNCHANGED <<stack, form, picks, requests, history>>

----------------------------------------------------------------------------
(* Submitting.                                                             *)

Request == [household |-> selected, type |-> details.type,
            from |-> details.from, to |-> details.to]

submit ==
  /\ step = "review"
  /\ sends < MaxSubmits
  /\ sends' = sends + 1
  /\ out' = Append(out, Request)
  /\ step' = "submitting"
  /\ UNCHANGED <<stack, form, picks, answered, history>>

\* callSF returns, and never throws: whether or not the task was created,
\* the page is complete.
Answered(i) ==
  /\ i \in DOMAIN out
  /\ out' = RemoveAt(out, i)
  /\ answered' = out[i]
  /\ step' = "complete"
  /\ UNCHANGED <<stack, form, picks, sends, history>>

----------------------------------------------------------------------------
(* Going back and beginning anew.                                          *)

\* Mutant: a new movement starts from the details of the last one.
MutRESET ==
  /\ step' = "search"
  /\ selected' = None
  /\ accounts' = {}
  /\ UNCHANGED details
  /\ picks' = [h \in Households |-> picks[h] + (IF h = context THEN 1 ELSE 0)]
  /\ answered' = None
  /\ reselected' = FALSE
  /\ UNCHANGED <<stack, sends, out, interrupted>>

RESET ==
  /\ Fresh(context, picks)
  /\ UNCHANGED <<stack, sends, out, interrupted>>

StepTo(s) ==
  /\ step' = s
  /\ UNCHANGED <<stack, form, picks, requests, history>>

\* Mutant: back from a request under way to its review.
MutGoBack ==
  \/ step = "search" /\ onExit
  \/ step = "type" /\ context # None /\ onExit
  \/ step = "type" /\ context = None /\ StepTo("search")
  \/ step = "details" /\ StepTo("type")
  \/ step = "review" /\ StepTo("details")
  \/ step = "complete" /\ RESET
  \/ step = "submitting" /\ StepTo("review")

goBack ==
  \/ step = "search" /\ onExit
  \/ step = "type" /\ context # None /\ onExit
  \/ step = "type" /\ context = None /\ StepTo("search")
  \/ step = "details" /\ StepTo("type")
  \/ step = "review" /\ StepTo("details")
  \/ step = "complete" /\ RESET
  \/ step = "submitting" /\ onExit

\* "New Movement" is RESET as well; "Home" also leaves.
NewMovement ==
  /\ step = "complete"
  /\ RESET

Home ==
  /\ step = "complete"
  /\ \/ /\ again = 0
        /\ Unmount
     \/ /\ again > 0
        /\ again' = again - 1
        /\ Fresh(context, picks)
        /\ UNCHANGED <<context, mounts, sends, out, interrupted>>

Next ==
  \/ \E c \in Contexts : Enter(c)
  \/ EnterAgain
  \/ Leave
  \/ \E h \in Households : Pick(h)
  \/ \E h \in Households, offered \in Offers : selectHousehold(h, offered)
  \/ \E t \in Types : ChooseType(t)
  \/ EditAccount
  \/ \E f \in Fields : EditField(f)
  \/ Review
  \/ submit
  \/ \E i \in 1 .. MaxSubmits : Answered(i)
  \/ goBack
  \/ NewMovement
  \/ Home

Spec == Init /\ [][Next]_vars

\* Bound: once an answer has interrupted a request, TLC follows no further.
Uninterrupted == ~interrupted

----------------------------------------------------------------------------
(* Properties.                                                             *)

TypeOK ==
  /\ step \in Steps \union {"closed"}
  /\ context \in Households \union {None}
  /\ again \in Nat
  /\ mounts \in Nat
  /\ selected \in Households \union {None}
  /\ accounts \in SUBSET Labels
  /\ details \in Details
  /\ picks \in [Households -> Nat]
  /\ sends \in Nat
  /\ out \in Seq(Requests)
  /\ answered \in Requests \union {None}
  /\ reselected \in BOOLEAN
  /\ interrupted \in BOOLEAN

\* The pages up to the request have a household and its accounts.
PagesHaveHousehold ==
  step \in {"type", "details", "review", "submitting"} =>
    selected # None /\ accounts # {}

\* The pages past the choice of a type have one.
PagesHaveType ==
  step \in {"details", "review", "submitting"} => details.type \in Types

\* What is reviewed or under way is a complete movement.
ReviewedIsValid ==
  step \in {"review", "submitting"} => detailsValid(details)

\* Unless the household was chosen again under them, the details name
\* accounts of the household shown; without a household they name none.
DetailsFit ==
  /\ selected = None => details.from = None /\ details.to = None
  /\ details.from = None \/ details.from \in accounts \/ reselected
  /\ details.to = None \/ details.to \in accounts \/ reselected

\* Without an interruption a request is out exactly while the page says so,
\* and it is the one the page shows; an unmounted screen has none.
OutIsShown ==
  /\ ~interrupted => out = IF step = "submitting" THEN <<Request>> ELSE <<>>
  /\ step = "closed" => out = <<>>

\* The invariant: the types, what each page may rely on (submit reads
\* selectedHousehold!.id and the details unchecked), and how requests and the
\* page belong together.
IInv ==
  /\ TypeOK
  /\ PagesHaveHousehold
  /\ PagesHaveType
  /\ ReviewedIsValid
  /\ DetailsFit
  /\ OutIsShown

\* What is sent for a household names an account that was offered for it,
\* also in the second movement of a mount, unless the household was chosen
\* again under the details.
OwnAccount ==
  [][\A i \in DOMAIN out' \ DOMAIN out :
       ~reselected => /\ out'[i].from \in accounts
                      /\ out'[i].to \in accounts \union {None}]_vars

\* The last page describes a request of this mount that was answered, and not
\* what was entered or chosen since, unless the household was chosen again
\* while a request was out.
CompleteIsOwn ==
  step = "complete" /\ ~interrupted => answered = Request

\* A mount has one request out at a time: going back, the palette and the
\* screen's own stack offer no way to a second one, unless an answer to
\* another choice of household interrupts the first.
OneAtATime == interrupted \/ Len(out) <= 1

=============================================================================
