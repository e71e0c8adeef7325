------------------------- MODULE AccountOpeningProofs -------------------------
(***************************************************************************)
(* What the pages of the wizard may rely on, for any names, account types  *)
(* and number of accounts: with several names per client the user may also *)
(* correct a name after accounts were chosen.                              *)
(***************************************************************************)
EXTENDS AccountOpening, SequenceTheorems, TLAPS

USE DEF Uninterrupted

\* Beneficiaries are only designated for accounts of the list, to people there are.
LEMMA DesignatedType ==
  ASSUME NEW s \in States
  PROVE  Designated(s) \subseteq
           Ids \X (P1Names \union P2Names \union Others \union {Contact})
<1>1. IdsOf(s) \subseteq Ids
  <2>1. \A i \in DOMAIN s.accounts : s.accounts[i] \in Accounts
    BY DEF States
  <2> QED BY <2>1 DEF IdsOf, Ids, Id, Accounts
<1>2. \A o : Beneficiary(s, o) \in P1Names \union P2Names \union {None, Contact}
  BY DEF Beneficiary, States, Clients
<1> QED BY <1>1, <1>2 DEF Designated, Designable, States

\* Going to a page changes nothing but the page and the beneficiaries.
LEMMA AtFields ==
  ASSUME NEW s \in States, NEW step \in FlowStep
  PROVE  LET t == At(s, step) IN
         /\ t \in States
         /\ t.step = step
         /\ t.p1 = s.p1 /\ t.p2 = s.p2 /\ t.hasP2 = s.hasP2 /\ t.hasJoint = s.hasJoint
         /\ t.accounts = s.accounts /\ t.fundIdx = s.fundIdx
BY DesignatedType DEF At, States

\* A page may be gone to when what it relies on is there.
LEMMA GoToInv ==
  ASSUME IInv, NEW step \in FlowStep, GoTo(step),
         "generating" \notin {state.step, step},
         step = "select-accounts-joint" => state.hasJoint,
         Walked => Ready(state, step)
  PROVE  IInv'
<1>1. /\ state' \in States
      /\ state'.step = step
      /\ state'.p1 = state.p1 /\ state'.p2 = state.p2
      /\ state'.hasP2 = state.hasP2 /\ state'.hasJoint = state.hasJoint
      /\ state'.accounts = state.accounts /\ state'.fundIdx = state.fundIdx
      /\ UNCHANGED <<handed, running, jumps, interrupted, resumed, quick>>
  BY AtFields DEF IInv, TypeOK, GoTo, Becomes, history
<1>2. TypeOK' /\ UniqueInv' /\ NamesInv' /\ RunInv'
  BY <1>1 DEF IInv, TypeOK, UniqueInv, NamesInv, RunInv, Walked
<1>3. Walked' => Ready(state, state.step)'
  BY <1>1 DEF Ready, Named, Filled, Owned, Funded, AcctsFor, Joint, Walked
<1> QED BY <1>2, <1>3 DEF IInv

\* The moves that neither change what was entered nor need more than a guard.
LEMMA MovesInv ==
  ASSUME IInv,
         \/ ChooseIntents \/ ChooseClientType \/ SkipSearch
         \/ ContinueFromP1 \/ ContinueFromP2
         \/ ContinueFromACH \/ ContinueFromBeneficiaries
         \/ EditFromReview \/ Back
  PROVE  IInv'
<1> USE DEF FlowStep, Entry, Selection, Past
<1> DEFINE Entered == {"context", "client-type", "search-existing", "enter-client-p1"}
<1>1. ASSUME NEW g \in Entered, GoTo(g), state.step # "generating" PROVE IInv'
  <2>1. Ready(state, g)
    BY DEF Ready, Named, Filled, Owned, Funded, AfterP1, AfterP2
  <2> QED BY <1>1, <2>1, GoToInv
<1>2. CASE ChooseIntents \/ ChooseClientType \/ SkipSearch
  BY <1>1, <1>2 DEF ChooseIntents, ChooseClientType, SkipSearch
<1>3. CASE ContinueFromP1
  <2> DEFINE g == IF state.hasP2 THEN "enter-client-p2" ELSE "select-accounts-p1"
  <2>1. Ready(state, g)
    BY <1>3 DEF ContinueFromP1, IInv, NamesInv, Ready, Named, Filled, Owned, Funded, AfterP1, AfterP2
  <2> QED BY <1>3, <2>1, GoToInv DEF ContinueFromP1
<1>4. CASE ContinueFromP2
  <2>1. Walked => Ready(state, "select-accounts-p1")
    BY <1>4 DEF ContinueFromP2, IInv, Ready, Named, Filled, Owned, Funded, AfterP1, AfterP2
  <2> QED BY <1>4, <2>1, GoToInv DEF ContinueFromP2
<1>5. CASE ContinueFromACH \/ ContinueFromBeneficiaries
  <2>1. PICK g \in {"beneficiaries", "review"} : GoTo(g) /\ state.step \in {"moneylink", "beneficiaries"}
    BY <1>5 DEF ContinueFromACH, ContinueFromBeneficiaries
  <2>2. Walked => Ready(state, g)
    BY <2>1 DEF IInv, Ready, Named, Filled, Owned, Funded, AfterP1, AfterP2
  <2> QED BY <2>1, <2>2, GoToInv
<1>6. CASE EditFromReview
  <2>1. PICK g \in {"enter-client-p1", "select-accounts-p1", "enter-client-p2"} : GoTo(g)
    BY <1>6 DEF EditFromReview
  <2>2. Walked => Ready(state, g)
    BY <1>6 DEF EditFromReview, IInv, Ready, Named, Filled, Owned, Funded, AfterP1, AfterP2
  <2> QED BY <1>6, <2>1, <2>2, GoToInv DEF EditFromReview
<1>7. CASE Back
  <2>1. state.step \in FlowStep \ {"context", "generating", "complete"}
    BY <1>7 DEF Back, IInv, TypeOK, States
  <2>2. Previous(state) \in FlowStep \ {"generating"}
    BY <2>1 DEF Previous
  <2>3. Walked => Ready(state, Previous(state))
    BY <2>1 DEF Previous, IInv, NamesInv, Ready, Named, Filled, Owned, Funded, AfterP1, AfterP2
  <2>4. Previous(state) = "select-accounts-joint" => state.hasJoint
    BY <2>1 DEF Previous
  <2> QED BY <1>7, <2>1, <2>2, <2>3, <2>4, GoToInv DEF Back
<1> QED BY <1>2, <1>3, <1>4, <1>5, <1>6, <1>7
\* What is entered on the clients' pages.
LEMMA ClientsInv ==
  ASSUME IInv, PickResult \/ EditP1 \/ EditP2 \/ AddP2 \/ RemoveP2 \/ ToggleJoint \/ DropP2
  PROVE  IInv'
<1> USE DEF FlowStep, Entry, Selection, Past, Becomes, history, Walked
<1>1. /\ state'.accounts = state.accounts
      /\ UNCHANGED <<handed, running, jumps, interrupted, resumed, quick>>
  BY DEF PickResult, EditP1, EditP2, AddP2, RemoveP2, ToggleJoint, DropP2, WithoutP2,
     IInv, TypeOK, States
<1>2. state' \in States /\ NamesInv'
  <2> USE OpeningAssumption DEF IInv, TypeOK, NamesInv, States, Clients, Blank
  <2>1. CASE PickResult
    <3>1. PICK n \in P1Names :
            state' = [state EXCEPT !.p1 = [name |-> n, complete |-> FALSE], !.step = "enter-client-p1"]
      BY <2>1 DEF PickResult
    <3> QED BY <3>1
  <2>2. CASE EditP1
    BY <2>2 DEF EditP1
  <2>3. CASE EditP2
    BY <2>3 DEF EditP2
  <2>4. CASE AddP2
    BY <2>4 DEF AddP2
  <2>7. CASE RemoveP2
    BY <2>7 DEF RemoveP2, WithoutP2
  <2>5. CASE ToggleJoint
    BY <2>5 DEF ToggleJoint
  <2>6. CASE DropP2
    BY <2>6 DEF DropP2, WithoutP2
  <2> QED BY <2>1, <2>2, <2>3, <2>4, <2>5, <2>6, <2>7
<1>3. TypeOK' /\ UniqueInv'
  BY <1>1, <1>2 DEF IInv, TypeOK, UniqueInv
<1>4. /\ RunInv'
      /\ Walked' => Ready(state, state.step)'
  <2>1. CASE PickResult \/ EditP1 \/ AddP2 \/ RemoveP2 \/ ToggleJoint
    <3>1. state.step # "generating" /\ state'.step = "enter-client-p1"
      BY <2>1 DEF PickResult, EditP1, AddP2, RemoveP2, ToggleJoint, WithoutP2, IInv, TypeOK, States
    <3> QED
      BY <1>1, <3>1 DEF IInv, RunInv, Ready, Named, Filled, Owned, Funded, AfterP1, AfterP2
  <2>2. CASE EditP2 \/ DropP2
    <3>1. /\ state.step = "enter-client-p2"
          /\ state'.step \in {"enter-client-p2", "select-accounts-p1"}
          /\ state'.step = "select-accounts-p1" => ~state'.hasP2
          /\ state'.p1 = state.p1
      BY <2>2 DEF EditP2, DropP2, WithoutP2, IInv, TypeOK, States
    <3>2. RunInv'
      BY <1>1, <3>1 DEF IInv, RunInv
    <3>3. ASSUME Walked' PROVE Ready(state, state.step)'
      <4>1. Named(state, "enter-client-p2") /\ (resumed \/ Filled(state, "enter-client-p2"))
        BY <1>1, <3>1, <3>3 DEF IInv, Ready
      <4>2. Named(state, state.step)' /\ (resumed \/ Filled(state, state.step))'
        BY <1>1, <3>1, <4>1 DEF Named, Filled
      <4>3. Owned(state, state.step)' /\ Funded(state, state.step)'
        BY <3>1 DEF Owned, Funded, AfterP1, AfterP2
      <4> QED BY <4>2, <4>3 DEF Ready
    <3> QED BY <3>2, <3>3
  <2> QED BY <2>1, <2>2
<1> QED BY <1>2, <1>3, <1>4 DEF IInv

\* The bank page and the beneficiaries.
LEMMA BankInv ==
  ASSUME IInv, SetUpACH \/ SkipACH \/ ChangeBeneficiaries
  PROVE  IInv'
<1> USE DEF FlowStep, Entry, Selection, Past, Becomes, history, Walked
<1>1. At(state, "beneficiaries") \in States
  BY AtFields DEF IInv, TypeOK
<1>2. /\ state.step \in {"moneylink", "beneficiaries"}
      /\ state'.step \in {"moneylink", "beneficiaries"}
      /\ state'.p1 = state.p1 /\ state'.p2 = state.p2
      /\ state'.hasP2 = state.hasP2 /\ state'.hasJoint = state.hasJoint
      /\ state'.accounts = state.accounts /\ state'.fundIdx = state.fundIdx
      /\ UNCHANGED <<handed, running, jumps, interrupted, resumed, quick>>
  BY <1>1, AtFields DEF SetUpACH, SkipACH, ChangeBeneficiaries, IInv, TypeOK, States
<1>3. state' \in States
  <2>1. IdsOf(state) \subseteq Ids
    <3>1. \A i \in DOMAIN state.accounts : state.accounts[i] \in Accounts
      BY DEF IInv, TypeOK, States
    <3> QED BY <3>1 DEF IdsOf, Ids, Id, Accounts
  <2>2. CASE SetUpACH \/ SkipACH
    BY <1>1, <2>2 DEF SetUpACH, SkipACH, IInv, TypeOK, States
  <2>3. CASE ChangeBeneficiaries
    BY <2>1, <2>3 DEF ChangeBeneficiaries, Designable, IInv, TypeOK, States
  <2> QED BY <2>2, <2>3
<1>4. TypeOK' /\ UniqueInv' /\ NamesInv' /\ RunInv'
  BY <1>2, <1>3 DEF IInv, TypeOK, UniqueInv, NamesInv, RunInv
<1>5. Walked' => Ready(state, state.step)'
  BY <1>2 DEF IInv, Ready, Named, Filled, Owned, Funded, AcctsFor, Joint, AfterP1, AfterP2
<1> QED BY <1>4, <1>5 DEF IInv

\* Taking one account away, or adding one that is not there, keeps the list as it
\* must be and every account with another id.
LEMMA ToggledList ==
  ASSUME NEW accounts \in Seq(Accounts), NEW owner \in Owners, NEW type \in IndivTypes \union JointTypes,
         \A i, j \in DOMAIN accounts : Id(accounts[i]) = Id(accounts[j]) => i = j
  PROVE  LET t == Toggled(accounts, owner, type) IN
         /\ t \in Seq(Accounts)
         /\ \A i, j \in DOMAIN t : Id(t[i]) = Id(t[j]) => i = j
         /\ \A i \in DOMAIN accounts : accounts[i].owner # owner =>
              \E j \in DOMAIN t : t[j] = accounts[i]
<1> DEFINE at == CHOOSE i \in DOMAIN accounts : Id(accounts[i]) = <<owner, type>>
           new == [owner |-> owner, type |-> type, funded |-> FALSE]
<1>1. CASE \E i \in DOMAIN accounts : Id(accounts[i]) = <<owner, type>>
  <2>1. at \in 1 .. Len(accounts) /\ Id(accounts[at]) = <<owner, type>>
    BY <1>1
  <2> HIDE DEF at
  <2> DEFINE t == Without(accounts, at)
  <2>2. /\ t \in Seq(Accounts)
        /\ Len(t) = Len(accounts) - 1
        /\ \A i \in 1 .. Len(t) : t[i] = accounts[IF i < at THEN i ELSE i + 1]
    <3> DEFINE first == SubSeq(accounts, 1, at - 1)
               rest == SubSeq(accounts, at + 1, Len(accounts))
    <3>1. /\ first \in Seq(Accounts) /\ Len(first) = at - 1
          /\ \A i \in 1 .. at - 1 : first[i] = accounts[i]
      BY <2>1, SubSeqProperties
    <3>2. /\ rest \in Seq(Accounts) /\ Len(rest) = Len(accounts) - at
          /\ \A i \in 1 .. Len(accounts) - at : rest[i] = accounts[at + i]
      BY <2>1, SubSeqProperties
    <3>3. t = first \o rest
      BY DEF Without
    <3> HIDE DEF first, rest, t
    <3>5. /\ first \o rest \in Seq(Accounts)
          /\ Len(first \o rest) = Len(first) + Len(rest)
          /\ \A i \in 1 .. Len(first) + Len(rest) :
               (first \o rest)[i] = IF i <= Len(first) THEN first[i] ELSE rest[i - Len(first)]
      BY <3>1, <3>2, ConcatProperties, Zenon
    <3>4. /\ t \in Seq(Accounts) /\ Len(t) = Len(accounts) - 1
          /\ \A i \in 1 .. Len(t) : t[i] = IF i <= at - 1 THEN first[i] ELSE rest[i - (at - 1)]
      <4>1. Len(first) + Len(rest) = Len(accounts) - 1
        BY <2>1, <3>1, <3>2
      <4> QED BY <3>1, <3>3, <3>5, <4>1
    <3> QED BY <2>1, <3>1, <3>2, <3>4
  <2>3. Toggled(accounts, owner, type) = t
    BY <1>1 DEF Toggled, at
  <2> HIDE DEF t
  <2> DEFINE old(i) == IF i < at THEN i ELSE i + 1
  <2>6. /\ \A i \in DOMAIN t : old(i) \in DOMAIN accounts /\ t[i] = accounts[old(i)]
        /\ \A i, j \in DOMAIN t : old(i) = old(j) => i = j
    <3>1. /\ DOMAIN t = 1 .. Len(t) /\ DOMAIN accounts = 1 .. Len(accounts)
          /\ Len(t) \in Nat /\ Len(accounts) \in Nat
      BY <2>2, LenProperties
    <3>2. at \in 1 .. Len(accounts)
      BY <2>1
    <3>3. ASSUME NEW i \in DOMAIN t
          PROVE  old(i) \in DOMAIN accounts /\ t[i] = accounts[old(i)]
      BY <2>2, <3>1, <3>2
    <3>4. ASSUME NEW i \in DOMAIN t, NEW j \in DOMAIN t, old(i) = old(j)
          PROVE  i = j
      BY <3>1, <3>2, <3>4
    <3> QED BY <3>3, <3>4
  <2>4. \A i, j \in DOMAIN t : Id(t[i]) = Id(t[j]) => i = j
    <3> HIDE DEF old
    <3> QED BY <2>6
  <2>5. ASSUME NEW i \in DOMAIN accounts, accounts[i].owner # owner
        PROVE  \E j \in DOMAIN t : t[j] = accounts[i]
    <3>1. i # at
      BY <2>1, <2>5 DEF Id
    <3> DEFINE j == IF i < at THEN i ELSE i - 1
    <3>2. j \in DOMAIN t /\ old(j) = i
      BY <2>1, <2>2, <2>5, <3>1
    <3> QED BY <2>6, <3>2
  <2> QED BY <2>2, <2>3, <2>4, <2>5
<1>2. CASE ~\E i \in DOMAIN accounts : Id(accounts[i]) = <<owner, type>>
  <2>1. Toggled(accounts, owner, type) = Append(accounts, new)
    BY <1>2 DEF Toggled
  <2>2. new \in Accounts /\ Id(new) = <<owner, type>>
    BY DEF Accounts, Id
  <2> HIDE DEF new
  <2> QED BY <1>2, <2>1, <2>2
<1> QED BY <1>1, <1>2

\* Accounts of the person, or the couple, on the page come and go; the ones the pages
\* before asked for belong to others and stay.
LEMMA ToggleInv ==
  ASSUME IInv, ToggleAccount
  PROVE  IInv'
<1> USE DEF FlowStep, Entry, Selection, Past
<1> DEFINE owner == SelectingFor
<1>1. PICK type \in IndivTypes \union JointTypes :
        Becomes([state EXCEPT !.accounts = Toggled(state.accounts, owner, type)])
  BY DEF ToggleAccount
<1>2. state \in States /\ state.step \in Selection
  BY DEF IInv, TypeOK, ToggleAccount
<1>3. owner \in Owners
  <2>1. state.p1.name \in P1Names \union {None} /\ state.p2.name \in P2Names \union {None}
    BY <1>2 DEF States, Clients
  <2>2. state.step = "select-accounts-joint" => Joint(state) \in P1Names \X P2Names
    BY <2>1 DEF IInv, NamesInv, Joint
  <2> QED BY <1>2, <2>1, <2>2 DEF SelectingFor, Owners
<1> HIDE DEF owner
<1> DEFINE new == Toggled(state.accounts, owner, type)
<1>4. /\ new \in Seq(Accounts)
      /\ \A i, j \in DOMAIN new : Id(new[i]) = Id(new[j]) => i = j
      /\ \A i \in DOMAIN state.accounts : state.accounts[i].owner # owner =>
           \E j \in DOMAIN new : new[j] = state.accounts[i]
  BY <1>2, <1>3, ToggledList DEF States, IInv, UniqueInv
<1> HIDE DEF new
<1>5. state' = [state EXCEPT !.accounts = new] /\ UNCHANGED <<handed, running, jumps, interrupted, resumed, quick>>
  BY <1>1 DEF Becomes, history, new
<1>6. /\ state' \in States /\ state'.accounts = new
      /\ state'.step = state.step /\ state'.p1 = state.p1 /\ state'.p2 = state.p2
      /\ state'.hasP2 = state.hasP2 /\ state'.hasJoint = state.hasJoint
  BY <1>2, <1>4, <1>5 DEF States
<1>7. TypeOK' /\ UniqueInv' /\ NamesInv' /\ RunInv'
  BY <1>4, <1>5, <1>6 DEF IInv, TypeOK, UniqueInv, NamesInv, RunInv, Walked
<1>8. \A o : o # owner /\ AcctsFor(state, o) # {} => AcctsFor(state', o) # {}
  BY <1>4, <1>6 DEF AcctsFor
<1>9. ASSUME Walked' PROVE Ready(state, state.step)'
  <2>1. Ready(state, state.step)
    BY <1>5, <1>9 DEF IInv, Walked
  <2>2. Named(state, state.step)' /\ (resumed \/ Filled(state, state.step))' /\ Funded(state, state.step)'
    BY <1>2, <1>5, <1>6, <2>1 DEF Ready, Named, Filled, Funded
  <2>3. Owned(state, state.step)'
    <3>1. /\ state.p1.name \in P1Names
          /\ state.p2.name \in P2Names \union {None}
      BY <1>2, <2>1 DEF Ready, Named, States, Clients
    <3>2. CASE state.step = "select-accounts-p1"
      BY <1>6, <3>2 DEF Owned, AfterP1, AfterP2
    <3>3. CASE state.step = "select-accounts-p2"
      <4>1. state.p1.name # owner
        BY <3>1, <3>3, OpeningAssumption DEF owner, SelectingFor
      <4> QED BY <1>6, <1>8, <2>1, <3>3, <4>1 DEF Ready, Owned, AfterP1, AfterP2
    <3>4. CASE state.step = "select-accounts-joint"
      <4>1. owner \in P1Names \X P2Names
        BY <3>1, <3>4 DEF owner, SelectingFor, Joint, IInv, NamesInv
      <4>2. state.p1.name # owner /\ state.p2.name # owner
        BY <3>1, <4>1, OpeningAssumption
      <4> QED BY <1>6, <1>8, <2>1, <3>4, <4>2 DEF Ready, Owned, AfterP1, AfterP2
    <3> QED BY <1>2, <3>2, <3>3, <3>4
  <2> QED BY <2>2, <2>3 DEF Ready
<1> QED BY <1>7, <1>9 DEF IInv

\* Every selection page is left with an account for whom it is about, and the funding
\* pages are entered at the first account.
LEMMA SelectionInv ==
  ASSUME IInv, ContinueFromSelection
  PROVE  IInv'
<1> USE DEF FlowStep, Entry, Selection, Past
<1>1. state \in States /\ state.step \in Selection
  BY DEF IInv, TypeOK, ContinueFromSelection
<1>2. AcctsFor(state, SelectingFor) # {} /\ Becomes(AfterSelection(state))
  BY DEF ContinueFromSelection
<1>3. Len(state.accounts) > 0
  BY <1>1, <1>2 DEF AcctsFor, States
<1>4. CASE state.step = "select-accounts-p1" /\ state.hasP2
  <2>1. GoTo("select-accounts-p2")
    BY <1>2, <1>4 DEF AfterSelection, GoTo
  <2>2. Walked => Ready(state, "select-accounts-p2")
    BY <1>2, <1>4 DEF SelectingFor, IInv, Ready, Named, Filled, Owned, Funded, AfterP1, AfterP2
  <2> QED BY <1>4, <2>1, <2>2, GoToInv
<1>5. CASE ~(state.step = "select-accounts-p1" /\ state.hasP2)
           /\ state.step # "select-accounts-joint" /\ state.hasJoint
  <2>1. GoTo("select-accounts-joint")
    BY <1>2, <1>5 DEF AfterSelection, GoTo
  <2>2. state.step = "select-accounts-p2"
    BY <1>1, <1>5 DEF IInv, NamesInv
  <2>3. Walked => Ready(state, "select-accounts-joint")
    BY <1>2, <2>2 DEF SelectingFor, IInv, Ready, Named, Filled, Owned, Funded, AfterP1, AfterP2
  <2> QED BY <1>5, <2>1, <2>2, <2>3, GoToInv
<1>6. CASE /\ ~(state.step = "select-accounts-p1" /\ state.hasP2)
           /\ ~(state.step # "select-accounts-joint" /\ state.hasJoint)
  <2>1. state' = [At(state, "funding") EXCEPT !.fundIdx = 0]
        /\ UNCHANGED <<handed, running, jumps, interrupted, resumed, quick>>
    BY <1>2, <1>6 DEF AfterSelection, Becomes, history
  <2>2. /\ state' \in States /\ state'.step = "funding" /\ state'.fundIdx = 0
        /\ state'.p1 = state.p1 /\ state'.p2 = state.p2
        /\ state'.hasP2 = state.hasP2 /\ state'.hasJoint = state.hasJoint
        /\ state'.accounts = state.accounts
    <3> DEFINE t == At(state, "funding")
    <3>1. /\ t \in States /\ t.step = "funding"
          /\ t.p1 = state.p1 /\ t.p2 = state.p2
          /\ t.hasP2 = state.hasP2 /\ t.hasJoint = state.hasJoint
          /\ t.accounts = state.accounts
      BY <1>1, AtFields
    <3> HIDE DEF t
    <3> QED BY <2>1, <3>1 DEF States, t
  <2>3. TypeOK' /\ UniqueInv' /\ NamesInv' /\ RunInv'
    BY <1>1, <2>1, <2>2 DEF IInv, TypeOK, UniqueInv, NamesInv, RunInv, Walked
  <2>4. ASSUME Walked' PROVE Ready(state, state.step)'
    <3>1. Ready(state, state.step)
      BY <2>1, <2>4 DEF IInv, Walked
    <3>2. Named(state, state.step)' /\ (resumed \/ Filled(state, state.step))'
      BY <1>1, <2>1, <2>2, <3>1 DEF Ready, Named, Filled
    <3>3. Owned(state, state.step)'
      <4>1. \A o : AcctsFor(state', o) = AcctsFor(state, o)
        BY <2>2 DEF AcctsFor
      <4>2. /\ AcctsFor(state, state.p1.name) # {}
            /\ state.hasP2 => AcctsFor(state, state.p2.name) # {}
            /\ state.hasJoint => AcctsFor(state, Joint(state)) # {}
        BY <1>1, <1>2, <1>6, <3>1 DEF SelectingFor, IInv, NamesInv, Ready, Owned, AfterP1, AfterP2
      <4> QED BY <2>2, <4>1, <4>2 DEF Owned, Joint
    <3>4. Funded(state, state.step)'
      BY <1>1, <1>3, <2>2 DEF Funded, States
    <3> QED BY <3>2, <3>3, <3>4 DEF Ready
  <2> QED BY <2>3, <2>4 DEF IInv
<1> QED BY <1>4, <1>5, <1>6

\* Choosing how the account on the page is funded changes nothing else of the list.
LEMMA ChooseFundingInv ==
  ASSUME IInv, ChooseFunding
  PROVE  IInv'
<1> USE DEF FlowStep, Entry, Selection, Past
<1> DEFINE k == state.fundIdx + 1
           old == state.accounts
           new == [old EXCEPT ![k].funded = TRUE]
<1>1. /\ state \in States /\ state.step = "funding"
      /\ state' = [state EXCEPT !.accounts = new]
      /\ UNCHANGED <<handed, running, jumps, interrupted, resumed, quick>>
  BY DEF IInv, TypeOK, ChooseFunding, FundingShown, Becomes, history
<1>2. /\ old \in Seq(Accounts) /\ k \in DOMAIN old
  BY <1>1 DEF States, ChooseFunding, FundingShown
<1>3. /\ new \in Seq(Accounts) /\ DOMAIN new = DOMAIN old /\ Len(new) = Len(old)
      /\ \A i \in DOMAIN old : /\ new[i].owner = old[i].owner /\ new[i].type = old[i].type
                               /\ new[i].funded <=> (i = k \/ old[i].funded)
  <2> HIDE DEF old, k
  <2>1. /\ DOMAIN new = DOMAIN old
        /\ \A i \in DOMAIN old : new[i] = IF i = k THEN [old[i] EXCEPT !.funded = TRUE] ELSE old[i]
    BY <1>2
  <2>2. \A a \in Accounts :
          LET b == [a EXCEPT !.funded = TRUE]
          IN b \in Accounts /\ b.owner = a.owner /\ b.type = a.type /\ b.funded
    BY DEF Accounts
  <2>3. \A i \in DOMAIN old : old[i] \in Accounts
    BY <1>2
  <2> HIDE DEF new
  <2>4. \A i \in DOMAIN old : /\ new[i] \in Accounts
                              /\ new[i].owner = old[i].owner /\ new[i].type = old[i].type
                              /\ new[i].funded <=> (i = k \/ old[i].funded)
    BY <2>1, <2>2, <2>3
  <2>5. new \in Seq(Accounts) /\ Len(new) = Len(old)
    <3>1. [old[k] EXCEPT !.funded = TRUE] \in Accounts
      BY <1>2, <2>2, <2>3
    <3> QED BY <1>2, <3>1, ExceptSeq DEF new
  <2> QED BY <2>1, <2>4, <2>5
<1> HIDE DEF new
<1>4. /\ state' \in States /\ state'.step = "funding" /\ state'.accounts = new
      /\ state'.p1 = state.p1 /\ state'.p2 = state.p2 /\ state'.fundIdx = state.fundIdx
      /\ state'.hasP2 = state.hasP2 /\ state'.hasJoint = state.hasJoint
  BY <1>1, <1>3 DEF States
<1> HIDE DEF old
<1>5. TypeOK' /\ NamesInv' /\ RunInv'
  BY <1>1, <1>4 DEF IInv, TypeOK, NamesInv, RunInv, Walked
<1>6. UniqueInv'
  BY <1>3, <1>4 DEF IInv, UniqueInv, Id, old
<1>7. ASSUME Walked' PROVE Ready(state, state.step)'
  <2>1. Ready(state, state.step)
    BY <1>1, <1>7 DEF IInv, Walked
  <2>2. Named(state, state.step)' /\ (resumed \/ Filled(state, state.step))'
    BY <1>1, <1>4, <2>1 DEF Ready, Named, Filled
  <2>3. \A o : AcctsFor(state', o) = AcctsFor(state, o)
    BY <1>3, <1>4 DEF AcctsFor, old
  <2>4. Owned(state, state.step)'
    BY <1>1, <1>4, <2>1, <2>3 DEF Ready, Owned, Joint, AfterP1, AfterP2
  <2>5. Funded(state, state.step)'
    BY <1>1, <1>3, <1>4, <2>1 DEF Ready, Funded, old
  <2> QED BY <2>2, <2>4, <2>5 DEF Ready
<1> QED BY <1>5, <1>6, <1>7 DEF IInv

\* The funding pages are walked through in order, so none is left out.
LEMMA ContinueFundingInv ==
  ASSUME IInv, ContinueFromFunding
  PROVE  IInv'
<1> USE DEF FlowStep, Entry, Selection, Past
<1>1. /\ state \in States /\ state.step = "funding"
      /\ state.fundIdx < Len(state.accounts)
      /\ state.accounts[state.fundIdx + 1].funded
  BY DEF IInv, TypeOK, ContinueFromFunding, FundingShown
<1>2. CASE state.fundIdx + 1 < Len(state.accounts)
  <2>1. /\ state' = [state EXCEPT !.fundIdx = state.fundIdx + 1]
        /\ UNCHANGED <<handed, running, jumps, interrupted, resumed, quick>>
    BY <1>2 DEF ContinueFromFunding, Becomes, history
  <2>2. /\ state' \in States /\ state'.step = "funding" /\ state'.fundIdx = state.fundIdx + 1
        /\ state'.p1 = state.p1 /\ state'.p2 = state.p2 /\ state'.accounts = state.accounts
        /\ state'.hasP2 = state.hasP2 /\ state'.hasJoint = state.hasJoint
    <3> DEFINE next == state.fundIdx + 1
    <3>1. next \in Nat
      BY <1>1 DEF States
    <3> HIDE DEF next
    <3>2. state' = [state EXCEPT !.fundIdx = next]
      BY <2>1 DEF next
    <3>3. /\ state' \in States /\ state'.step = "funding" /\ state'.fundIdx = next
          /\ state'.p1 = state.p1 /\ state'.p2 = state.p2 /\ state'.accounts = state.accounts
          /\ state'.hasP2 = state.hasP2 /\ state'.hasJoint = state.hasJoint
      BY <1>1, <3>1, <3>2 DEF States
    <3> QED BY <3>3 DEF next
  <2>3. TypeOK' /\ UniqueInv' /\ NamesInv' /\ RunInv'
    BY <1>1, <2>1, <2>2 DEF IInv, TypeOK, UniqueInv, NamesInv, RunInv, Walked
  <2>4. ASSUME Walked' PROVE Ready(state, state.step)'
    <3>1. Ready(state, state.step)
      BY <2>1, <2>4 DEF IInv, Walked
    <3>2. /\ Named(state, state.step)' /\ (resumed \/ Filled(state, state.step))'
          /\ Owned(state, state.step)'
      BY <1>1, <2>1, <2>2, <3>1 DEF Ready, Named, Filled, Owned, AcctsFor, Joint, AfterP1, AfterP2
    <3>3. Funded(state, state.step)'
      BY <1>1, <1>2, <2>2, <3>1 DEF Ready, Funded, States
    <3> QED BY <3>2, <3>3 DEF Ready
  <2> QED BY <2>3, <2>4 DEF IInv
<1>3. CASE ~(state.fundIdx + 1 < Len(state.accounts))
  <2>1. GoTo("moneylink")
    BY <1>3 DEF ContinueFromFunding
  <2>2. ASSUME Walked PROVE Ready(state, "moneylink")
    <3>1. Ready(state, state.step)
      BY <2>2 DEF IInv
    <3>2. \A i \in DOMAIN state.accounts : i <= state.fundIdx \/ i = state.fundIdx + 1
      BY <1>1, <1>3 DEF States
    <3>3. Funded(state, "moneylink")
      BY <1>1, <3>1, <3>2 DEF Ready, Funded
    <3> QED BY <1>1, <3>1, <3>3 DEF Ready, Named, Filled, Owned, AfterP1, AfterP2
  <2> QED BY <1>1, <2>1, <2>2, GoToInv
<1> QED BY <1>2, <1>3

\* Runs of the pipeline, the new opening after one, and a new mount of the screen.
LEMMA RunsInv ==
  ASSUME IInv, Generate \/ RunEnds \/ StartOver \/ NewOpening
  PROVE  IInv'
<1> USE OpeningAssumption DEF FlowStep, Entry, Selection, Past
<1>1. state \in States /\ running \in 0 .. MaxRuns
  BY DEF IInv, TypeOK
<1>2. CASE Generate \/ RunEnds
  <2>1. PICK g \in {"generating", "complete", "review"} :
          /\ state' = At(state, g)
          /\ running' = IF g = "generating" THEN running + 1 ELSE running - 1
          /\ g = "generating" => state.step = "review" /\ running < MaxRuns
          /\ g # "generating" => running > 0
          /\ UNCHANGED <<handed, jumps, interrupted, resumed, quick>>
    BY <1>2 DEF Generate, RunEnds, history
  <2>2. /\ state' \in States /\ state'.step = g
        /\ state'.p1 = state.p1 /\ state'.p2 = state.p2
        /\ state'.hasP2 = state.hasP2 /\ state'.hasJoint = state.hasJoint
        /\ state'.accounts = state.accounts /\ state'.fundIdx = state.fundIdx
    BY <1>1, <2>1, AtFields
  <2>3. TypeOK' /\ UniqueInv' /\ NamesInv'
    BY <1>1, <2>1, <2>2 DEF IInv, TypeOK, UniqueInv, NamesInv
  <2>4. RunInv' /\ (Walked => state.step \in {"review", "generating"})
    BY <1>1, <2>1, <2>2 DEF IInv, RunInv, Walked
  <2>5. ASSUME Walked' PROVE Ready(state, state.step)'
    <3>1. Ready(state, state.step) /\ state.step \in {"review", "generating"}
      BY <2>1, <2>4, <2>5 DEF IInv, Walked
    <3> QED
      BY <2>1, <2>2, <3>1
         DEF Ready, Named, Filled, Owned, Funded, AcctsFor, Joint, AfterP1, AfterP2
  <2> QED BY <2>3, <2>4, <2>5 DEF IInv
<1>3. CASE StartOver \/ NewOpening
  <2>10. Reset
    BY <1>3 DEF StartOver, NewOpening
  <2>1. /\ state' = InitialState /\ running' = running /\ handed' = handed /\ jumps' = jumps
        /\ resumed' = FALSE
    BY <2>10 DEF Reset
  <2>6. interrupted' \in BOOLEAN /\ resumed' \in BOOLEAN /\ quick' \in BOOLEAN
    BY <2>10 DEF Reset
  <2>7. (~interrupted' => ~(running > 0)) /\ (jumps > 0 => quick')
    BY <2>10 DEF Reset
  <2>2. InitialState \in States
    BY DEF InitialState, States, Clients, Blank
  <2>3. TypeOK'
    BY <2>1, <2>2, <2>6 DEF IInv, TypeOK
  <2>8. NamesInv'
    BY <2>1 DEF NamesInv, InitialState, Blank
  <2>9. RunInv'
    BY <1>1, <2>1, <2>7 DEF RunInv, Walked, InitialState
  <2>5. UniqueInv'
    BY <2>1 DEF UniqueInv, InitialState
  <2>4. Ready(state, state.step)'
    BY <2>1 DEF InitialState, Ready, Named, Filled, Owned, Funded, AfterP1, AfterP2
  <2> QED BY <2>3, <2>4, <2>5, <2>8, <2>9 DEF IInv
<1> QED BY <1>2, <1>3

\* A quick-fill and its jump leave lists and names as they must be; what the pages rely
\* on is not claimed behind them.
LEMMA QuickFillInv ==
  ASSUME IInv, QuickFill \/ JumpToReview
  PROVE  IInv'
<1> USE OpeningAssumption DEF FlowStep, Entry, Selection, Past
<1>1. state \in States /\ jumps \in 0 .. MaxJumps
  BY DEF IInv, TypeOK
<1>2. CASE QuickFill
  <2> DEFINE first == Toggled(state.accounts, SampleP1, SampleIndiv)
             new == Toggled(first, SampleCouple, SampleJoint)
             p1 == [name |-> SampleP1, complete |-> FALSE]
             p2 == [name |-> SampleP2, complete |-> FALSE]
  <2>1. /\ first \in Seq(Accounts)
        /\ \A i, j \in DOMAIN first : Id(first[i]) = Id(first[j]) => i = j
    BY <1>1, ToggledList DEF Owners, States, IInv, UniqueInv
  <2> HIDE DEF first
  <2>2. /\ new \in Seq(Accounts)
        /\ \A i, j \in DOMAIN new : Id(new[i]) = Id(new[j]) => i = j
    BY <2>1, ToggledList DEF Owners
  <2>3. /\ state' = [state EXCEPT !.p1 = p1, !.p2 = p2, !.hasP2 = TRUE, !.hasJoint = TRUE,
                                  !.accounts = new]
        /\ state.step = "context" /\ jumps < MaxJumps /\ jumps' = jumps + 1 /\ quick' = TRUE
        /\ UNCHANGED <<handed, running, interrupted, resumed>>
    BY <1>2 DEF QuickFill, first
  <2> HIDE DEF new
  <2>4. /\ p1 \in Clients(P1Names) /\ p1.name # None /\ p1.complete = FALSE
        /\ p2 \in Clients(P2Names) /\ p2.name # None /\ p2.complete = FALSE
    BY DEF Clients
  <2> HIDE DEF p1, p2
  <2>5. /\ state' \in States /\ state'.step = "context" /\ state'.accounts = new
        /\ state'.p1 = p1 /\ state'.p2 = p2 /\ state'.hasP2 = TRUE /\ state'.hasJoint = TRUE
    BY <1>1, <2>2, <2>3, <2>4 DEF States
  <2>6. TypeOK'
    BY <1>1, <2>3, <2>5 DEF IInv, TypeOK
  <2>7. UniqueInv' /\ NamesInv' /\ RunInv' /\ ~Walked'
    BY <2>2, <2>3, <2>4, <2>5 DEF UniqueInv, NamesInv, RunInv, Walked
  <2> QED BY <2>6, <2>7 DEF IInv
<1>3. CASE JumpToReview
  <2>1. /\ state' = At(state, "review") /\ jumps > 0 /\ jumps' = jumps - 1
        /\ UNCHANGED <<handed, running, interrupted, resumed, quick>>
    BY <1>3 DEF JumpToReview, history
  <2>2. /\ state' \in States /\ state'.step = "review"
        /\ state'.p1 = state.p1 /\ state'.p2 = state.p2
        /\ state'.hasP2 = state.hasP2 /\ state'.hasJoint = state.hasJoint
        /\ state'.accounts = state.accounts
    BY <1>1, <2>1, AtFields
  <2>3. quick
    BY <2>1 DEF IInv, RunInv
  <2>4. TypeOK'
    BY <1>1, <2>1, <2>2 DEF IInv, TypeOK
  <2>5. UniqueInv' /\ NamesInv' /\ RunInv' /\ ~Walked'
    BY <2>1, <2>2, <2>3 DEF IInv, UniqueInv, NamesInv, RunInv, Walked
  <2> QED BY <2>4, <2>5 DEF IInv
<1> QED BY <1>2, <1>3

\* A mount without a draft: nothing was entered, or two complete forms were handed over.
LEMMA FreshFields ==
  ASSUME NEW h \in Handoffs \union {NoClients}
  PROVE  LET s == IF h = NoClients THEN InitialState ELSE HandoffState(h) IN
         /\ s \in States
         /\ s.step = IF h = NoClients THEN "context" ELSE "select-accounts-p1"
         /\ s.accounts = <<>> /\ s.hasJoint = FALSE
         /\ s.p1.complete => s.p1.name # None
         /\ s.p2.complete => s.p2.name # None
         /\ h # NoClients => s.p1.complete /\ (s.hasP2 => s.p2.complete)
<1> USE OpeningAssumption DEF FlowStep, Entry, Selection, Past
<1>1. /\ InitialState \in States /\ InitialState.step = "context"
      /\ InitialState.accounts = <<>> /\ InitialState.hasJoint = FALSE
      /\ InitialState.p1 = Blank /\ InitialState.p2 = Blank
  BY DEF InitialState, States, Clients, Blank
<1>2. CASE h = NoClients
  BY <1>1, <1>2 DEF Blank
<1>3. CASE h # NoClients
  <2> DEFINE s == HandoffState(h)
  <2>1. /\ h.p1 \in Clients(P1Names) /\ h.p2 \in Clients(P2Names) /\ h.hasP2 \in BOOLEAN
        /\ h.p1.complete /\ h.p1.name # None
        /\ h.p2.complete => h.p2.name # None
        /\ h.hasP2 => h.p2.complete
    <3>1. CASE \E n \in P1Names :
                 h = [p1 |-> [name |-> n, complete |-> TRUE], p2 |-> Blank, hasP2 |-> FALSE]
      BY <3>1 DEF Clients, Blank
    <3>2. CASE \E n \in P1Names \X P2Names :
                 h = [p1 |-> [name |-> n[1], complete |-> TRUE],
                      p2 |-> [name |-> n[2], complete |-> TRUE], hasP2 |-> TRUE]
      BY <3>2 DEF Clients
    <3> QED BY <1>3, <3>1, <3>2 DEF Handoffs
  <2>2. /\ s \in States /\ s.step = "select-accounts-p1"
        /\ s.accounts = <<>> /\ s.hasJoint = FALSE
        /\ s.p1 = h.p1 /\ s.p2 = h.p2 /\ s.hasP2 = h.hasP2
    <3> HIDE DEF InitialState
    <3> QED BY <1>1, <2>1 DEF HandoffState, States
  <2> QED BY <1>3, <2>1, <2>2
<1> QED BY <1>2, <1>3

\* A draft brings back its page, and everything on the way to it but the fields that
\* make a form complete; a handoff brings complete forms.
LEMMA RemountInv ==
  ASSUME IInv, Remount
  PROVE  IInv'
<1> USE OpeningAssumption DEF FlowStep, Entry, Selection, Past
<1>1. PICK h \in Handoffs \union {NoClients} : Mount(h)
  BY DEF Remount
<1>2. state \in States
  BY DEF IInv, TypeOK
<1>3. handed' = h /\ running' = 0 /\ jumps' = 0
  BY <1>1 DEF Mount
<1>4. interrupted' \in BOOLEAN /\ resumed' \in BOOLEAN /\ quick' \in BOOLEAN
  BY <1>1, Zenon DEF Mount
<1>5. CASE h = NoClients /\ state.step \notin {"context", "complete"}
  <2> DEFINE g == IF state.step = "generating" THEN "review" ELSE state.step
             t == At(state, g)
  <2>1. /\ t \in States /\ t.step = g /\ g \in FlowStep \ {"generating"}
        /\ t.p1 = state.p1 /\ t.p2 = state.p2
        /\ t.hasP2 = state.hasP2 /\ t.hasJoint = state.hasJoint
        /\ t.accounts = state.accounts /\ t.fundIdx = state.fundIdx
    <3>1. g \in FlowStep \ {"generating"}
      BY <1>2 DEF States
    <3> QED BY <1>2, <3>1, AtFields
  <2>2. state' = Forget(t)
    BY <1>1, <1>5 DEF Mount, Draft
  <2> HIDE DEF t
  <2>3. /\ state' \in States /\ state'.step = g
        /\ state'.p1.name = state.p1.name /\ state'.p1.complete = FALSE
        /\ state'.p2.name = state.p2.name /\ state'.p2.complete = FALSE
        /\ state'.hasP2 = state.hasP2 /\ state'.hasJoint = state.hasJoint
        /\ state'.accounts = state.accounts /\ state'.fundIdx = state.fundIdx
    <3>1. ASSUME NEW names, NEW c \in Clients(names)
          PROVE  LET d == [c EXCEPT !.complete = FALSE]
                 IN d \in Clients(names) /\ d.name = c.name /\ d.complete = FALSE
      BY DEF Clients
    <3>2. state' = [[t EXCEPT !.p1 = [t.p1 EXCEPT !.complete = FALSE]]
                       EXCEPT !.p2 = [t.p2 EXCEPT !.complete = FALSE]]
      BY <2>1, <2>2 DEF Forget, States
    <3> DEFINE p1 == [t.p1 EXCEPT !.complete = FALSE]
               p2 == [t.p2 EXCEPT !.complete = FALSE]
    <3>3. /\ p1 \in Clients(P1Names) /\ p1.name = state.p1.name /\ p1.complete = FALSE
          /\ p2 \in Clients(P2Names) /\ p2.name = state.p2.name /\ p2.complete = FALSE
      BY <2>1, <3>1 DEF States
    <3> HIDE DEF p1, p2
    <3>4. state' = [t EXCEPT !.p1 = p1, !.p2 = p2]
      BY <3>2 DEF p1, p2
    <3> QED BY <2>1, <3>3, <3>4 DEF States
  <2>4. resumed' /\ (Walked' => Walked)
    BY <1>1, <1>5 DEF Mount, Walked
  <2>5. TypeOK' /\ UniqueInv' /\ NamesInv' /\ RunInv'
    BY <1>3, <1>4, <1>5, <2>1, <2>3 DEF IInv, TypeOK, UniqueInv, NamesInv, RunInv
  <2>6. ASSUME Walked' PROVE Ready(state, state.step)'
    BY <2>3, <2>4, <2>6
       DEF IInv, Ready, Named, Owned, Funded, AcctsFor, Joint, AfterP1, AfterP2
  <2> QED BY <2>5, <2>6 DEF IInv
<1>6. CASE ~(h = NoClients /\ state.step \notin {"context", "complete"})
  <2>1. state' = IF h = NoClients THEN InitialState ELSE HandoffState(h)
    BY <1>1, <1>6 DEF Mount, Draft
  <2>2. /\ state' \in States
        /\ state'.step = IF h = NoClients THEN "context" ELSE "select-accounts-p1"
        /\ state'.accounts = <<>> /\ state'.hasJoint = FALSE
        /\ state'.p1.complete => state'.p1.name # None
        /\ state'.p2.complete => state'.p2.name # None
        /\ h # NoClients => state'.p1.complete /\ (state'.hasP2 => state'.p2.complete)
    BY <2>1, FreshFields
  <2>3. NamesInv'
    BY <2>2 DEF NamesInv
  <2>4. TypeOK' /\ UniqueInv' /\ RunInv'
    BY <1>3, <1>4, <2>2 DEF TypeOK, UniqueInv, RunInv
  <2>5. Ready(state, state.step)'
    BY <2>2, <2>3 DEF NamesInv, Ready, Named, Filled, Owned, Funded, AfterP1, AfterP2
  <2> QED BY <2>3, <2>4, <2>5 DEF IInv
<1> QED BY <1>5, <1>6

LEMMA InitInv == Init => IInv
<1> SUFFICES ASSUME Init PROVE IInv
  OBVIOUS
<1> USE OpeningAssumption DEF FlowStep, Entry, Selection, Past
<1>1. /\ handed \in Handoffs \union {NoClients} /\ running = 0 /\ jumps = 0
      /\ interrupted = FALSE /\ resumed = FALSE /\ quick = FALSE
  BY DEF Init
<1>2. /\ state \in States
      /\ state.step = IF handed = NoClients THEN "context" ELSE "select-accounts-p1"
      /\ state.accounts = <<>> /\ state.hasJoint = FALSE
      /\ state.p1.complete => state.p1.name # None
      /\ state.p2.complete => state.p2.name # None
      /\ handed # NoClients => state.p1.complete /\ (state.hasP2 => state.p2.complete)
  BY <1>1, FreshFields DEF Init
<1>3. NamesInv
  BY <1>2 DEF NamesInv
<1>4. TypeOK
  <2>1. interrupted \in BOOLEAN /\ resumed \in BOOLEAN /\ quick \in BOOLEAN
    BY <1>1, Zenon
  <2>2. running \in 0 .. MaxRuns /\ jumps \in 0 .. MaxJumps
    BY <1>1
  <2> QED BY <1>1, <1>2, <2>1, <2>2, Zenon DEF TypeOK
<1>6. UniqueInv /\ RunInv
  BY <1>1, <1>2 DEF UniqueInv, RunInv
<1>5. Ready(state, state.step)
  BY <1>2, <1>3 DEF NamesInv, Ready, Named, Filled, Owned, Funded, AfterP1, AfterP2
<1> QED BY <1>3, <1>4, <1>5, <1>6 DEF IInv

\* The invariant holds in every state of the wizard, started over under a run or not.
THEOREM Invariant == Spec => []IInv
<1>1. ASSUME IInv, [Next]_vars PROVE IInv'
  <2>1. CASE Next
    BY <1>1, <2>1, MovesInv, ClientsInv, BankInv, ToggleInv, SelectionInv,
       ChooseFundingInv, ContinueFundingInv, RunsInv, QuickFillInv, RemountInv DEF Next
  <2>2. CASE UNCHANGED vars
    BY <1>1, <2>2
       DEF vars, history, IInv, TypeOK, UniqueInv, NamesInv, RunInv, Walked, Ready,
           Named, Filled, Owned, Funded, AcctsFor, Joint
  <2> QED BY <1>1, <2>1, <2>2
<1> QED BY <1>1, InitInv, PTL DEF Spec

\* Past the selection pages everyone owns an account under the name they have now, in
\* an opening that no quick-fill and no run of a former one reached.
THEOREM EveryoneHasAnAccountHolds == Spec => []EveryoneHasAnAccount
<1>1. IInv => EveryoneHasAnAccount
  BY DEF IInv, Ready, Owned, EveryoneHasAnAccount, Seated, AfterP1, AfterP2
<1> QED BY <1>1, Invariant, PTL

\* The funding page has an account to show, in an opening that no quick-fill and no run
\* of a former one reached.
THEOREM FundingShowsAccountHolds == Spec => []FundingShowsAccount
<1>1. IInv => FundingShowsAccount
  BY DEF IInv, Ready, Funded, FundingShowsAccount, FundingShown, Walked, Past
<1> QED BY <1>1, Invariant, PTL

\* Past the funding pages no account is left without its kind of funding, in an opening
\* that no quick-fill and no run of a former one reached.
THEOREM FundingDecidedHolds == Spec => []FundingDecided
<1>1. IInv => FundingDecided
  BY DEF IInv, Ready, Funded, FundingDecided, Seated
<1> QED BY <1>1, Invariant, PTL

\* Unless a draft was restored, what is past the selection pages has complete forms, in
\* an opening that no quick-fill and no run of a former one reached.
THEOREM CompleteUnlessResumedHolds == Spec => []CompleteUnlessResumed
<1>1. IInv => CompleteUnlessResumed
  BY DEF IInv, Ready, Filled, CompleteUnlessResumed, Complete, Seated
<1> QED BY <1>1, Invariant, PTL
=============================================================================
