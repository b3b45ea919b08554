--------------------------- MODULE EdgePartsProofs ---------------------------
(***************************************************************************)
(* The parts of the edge that keep their state in D1: for every account,   *)
(* name, code and number of requests between their reads and their         *)
(* batches, the invariants of NameRepo, LoginCodes, UsageBudget and        *)
(* Moderation, each with an inductive invariant of its own.  The last      *)
(* section puts them beside the agent's parts, as the run of MCParts does. *)
(***************************************************************************)
EXTENDS MCParts, AgentPartsProofs, SumProofs, TLAPS

---------------------------------------------------------------------------
(* The login codes.                                                        *)

Minted == {k \in Codes : minted[k] > 0}

CodeTypes ==
  /\ codes \in 0 .. MAX_CODES
  /\ tried \in [Codes -> Nat] /\ compared \in [Codes -> Nat] /\ minted \in [Codes -> Nat]
  /\ since \in [Codes -> Nat]
  /\ request \in [Verifiers -> [at : {"free", "others", "matched"}, row : 0 .. MAX_CODES,
                                guess : 0 .. MAX_CODES]]

\* A token is paid for by a code that is consumed with it; whatever code is
\* still unconsumed was issued after the last token.
Paid ==
  /\ consumed \subseteq 1 .. codes
  /\ \A k \in Codes : minted[k] <= 1 /\ compared[k] = tried[k] /\ tried[k] <= MAX_CODE_ATTEMPTS
  /\ Minted \subseteq consumed
  /\ \A k \in Minted : since[k] < Cardinality(Minted)
  /\ \A j, k \in Minted : j # k => since[j] # since[k]
  /\ \A k \in 1 .. codes : k \notin consumed => since[k] = Cardinality(Minted)
  /\ \A v \in Verifiers : request[v].at = "matched" => request[v].row \in 1 .. codes

CodesInv == CodeTypes /\ Paid

LEMMA MintedIsFinite == IsFiniteSet(Minted) /\ Cardinality(Minted) \in Nat
  <1>1. IsFiniteSet(Codes)  BY CodesAssumption, FS_Interval DEF Codes
  <1>2. Minted \subseteq Codes  BY DEF Minted
  <1> QED BY <1>1, <1>2, FS_Subset, FS_CardinalityType

\* What leaves tokens and rows alone keeps the invariant, if a verify only comes
\* to a row that is there, and pays an attempt for a row only when it has one.
LEMMA OnlyTries ==
  ASSUME CodesInv, UNCHANGED <<codes, minted, since>>,
         consumed \subseteq consumed', consumed' \subseteq 1 .. codes,
         NEW rows \in SUBSET Codes, \A k \in rows : tried[k] < MAX_CODE_ATTEMPTS,
         Try(rows) \/ (rows = {} /\ UNCHANGED <<tried, compared>>),
         request' \in [Verifiers -> [at : {"free", "others", "matched"}, row : 0 .. MAX_CODES,
                                     guess : 0 .. MAX_CODES]],
         \A v \in Verifiers : request'[v].at = "matched" => request'[v].row \in 1 .. codes
  PROVE  CodesInv'
  <1>1. Minted' = Minted  BY DEF Minted
  <1>2. /\ tried' \in [Codes -> Nat] /\ compared' \in [Codes -> Nat]
        /\ \A k \in Codes : compared'[k] = tried'[k] /\ tried'[k] <= MAX_CODE_ATTEMPTS
    BY CodesAssumption DEF CodesInv, CodeTypes, Paid, Try
  <1>3. CodeTypes'  BY <1>2 DEF CodesInv, CodeTypes
  <1>4. Paid'  BY <1>1, <1>2 DEF CodesInv, Paid
  <1> QED BY <1>3, <1>4 DEF CodesInv

LEMMA CodesStep ==
  ASSUME CodesInv, [CodesNext]_codeVars
  PROVE  CodesInv'
  <1>a. CodeTypes /\ Paid  BY DEF CodesInv
  <1>b. MAX_CODES \in Nat /\ MAX_CODE_ATTEMPTS \in Nat /\ Codes = 1 .. MAX_CODES
    BY CodesAssumption DEF Codes
  <1>c. {} \in SUBSET Codes  OBVIOUS
  <1>1. CASE IssueCode
    <2>1. /\ codes' = codes + 1 /\ codes' \in Codes
          /\ since' = [since EXCEPT ![codes'] = Cardinality(Minted)]
          /\ UNCHANGED <<consumed, tried, request, compared, minted>>
      BY <1>a, <1>b, <1>1 DEF IssueCode, CodeTypes, Minted
    <2>2. Minted' = Minted  BY <2>1 DEF Minted
    <2>a. codes' \in 0 .. MAX_CODES /\ since' \in [Codes -> Nat]
      BY <1>a, <1>b, <2>1, MintedIsFinite DEF CodeTypes
    <2>3. CodeTypes'  BY <1>a, <2>1, <2>a DEF CodeTypes
    <2>4. \A k \in Codes : k # codes' => since'[k] = since[k]  BY <1>a, <2>1 DEF CodeTypes
    <2>5. since'[codes'] = Cardinality(Minted)  BY <1>a, <2>1 DEF CodeTypes
    <2>6. 1 .. codes' = (1 .. codes) \cup {codes'} /\ codes' \notin 1 .. codes
      BY <1>a, <2>1 DEF CodeTypes
    <2>7. 1 .. codes \subseteq Codes  BY <1>a, <1>b DEF CodeTypes
    <2>8. Paid'  BY <1>a, <2>1, <2>2, <2>4, <2>5, <2>6, <2>7 DEF Paid
    <2> QED BY <2>3, <2>8 DEF CodesInv
  <1>2. CASE SetUserSuspended \/ AccountDeleted \/ \E k \in Codes : Expire(k)
    <2>1. UNCHANGED <<codes, minted, since, tried, compared, request>>
      BY <1>2 DEF SetUserSuspended, AccountDeleted, Expire
    <2>2. consumed \subseteq consumed' /\ consumed' \subseteq 1 .. codes
      BY <1>a, <1>2 DEF SetUserSuspended, AccountDeleted, Expire, Paid
    <2> QED BY <1>a, <1>c, <2>1, <2>2, OnlyTries DEF CodeTypes, Paid
  <1>3. ASSUME NEW v \in Verifiers, NEW id \in Codes, NEW guess \in 0 .. MAX_CODES,
               VerifyFirst(v, id, guess)
        PROVE  CodesInv'
    <2> DEFINE r == [at |-> IF guess = id THEN "matched" ELSE "others", row |-> id,
                     guess |-> guess]
    <2>1. /\ id \in 1 .. codes /\ tried[id] < MAX_CODE_ATTEMPTS /\ Try({id})
          /\ request' = [request EXCEPT ![v] = r] /\ UNCHANGED <<codes, consumed, minted, since>>
      BY <1>3 DEF VerifyFirst, Live, Becomes
    <2>2. r \in [at : {"free", "others", "matched"}, row : 0 .. MAX_CODES, guess : 0 .. MAX_CODES]
      BY <1>b
    <2>3. r.row = id  OBVIOUS
    <2> HIDE DEF r
    <2> QED BY <1>a, <2>1, <2>2, <2>3, OnlyTries DEF CodeTypes, Paid
  <1>4. ASSUME NEW v \in Verifiers, VerifyOthers(v) PROVE CodesInv'
    <2> DEFINE rows == {k \in Newest \ {request[v].row} : tried[k] < MAX_CODE_ATTEMPTS}
               r == IF request[v].guess \in rows
                    THEN [at |-> "matched", row |-> request[v].guess, guess |-> request[v].guess]
                    ELSE Free
    <2>1. Try(rows) /\ request' = [request EXCEPT ![v] = r] /\ UNCHANGED <<codes, consumed, minted, since>>
      BY <1>4 DEF VerifyOthers, Becomes
    <2>2. rows \subseteq Codes /\ rows \subseteq 1 .. codes  BY DEF Newest, Live
    <2>3. request[v].guess \in 0 .. MAX_CODES  BY <1>a DEF CodeTypes
    <2>4. r \in [at : {"free", "others", "matched"}, row : 0 .. MAX_CODES, guess : 0 .. MAX_CODES]
      BY <1>b, <2>3 DEF Free
    <2>5. r.at = "matched" => r.row \in 1 .. codes  BY <2>2 DEF Free
    <2>6. \A k \in rows : tried[k] < MAX_CODE_ATTEMPTS  OBVIOUS
    <2> HIDE DEF r, rows
    <2> QED BY <1>a, <2>1, <2>2, <2>4, <2>5, <2>6, OnlyTries DEF CodeTypes, Paid
  <1>5. ASSUME NEW v \in Verifiers, RequestLost(v) PROVE CodesInv'
    <2>1. request' = [request EXCEPT ![v] = Free]
          /\ UNCHANGED <<codes, minted, since, tried, compared, consumed>>
      BY <1>5 DEF RequestLost, Becomes
    <2>2. Free \in [at : {"free", "others", "matched"}, row : 0 .. MAX_CODES,
                    guess : 0 .. MAX_CODES] /\ Free.at # "matched"
      BY <1>b DEF Free
    <2> QED BY <1>a, <1>c, <2>1, <2>2, OnlyTries DEF CodeTypes, Paid
  <1>6. ASSUME NEW v \in Verifiers, Verified(v) PROVE CodesInv'
    <2> DEFINE k == request[v].row
    <2>1. /\ request' = [request EXCEPT ![v] = Free] /\ consumed' = consumed \cup 1 .. codes
          /\ UNCHANGED <<codes, tried, compared, since>> /\ k \in 1 .. codes
      BY <1>a, <1>6 DEF Verified, Becomes, Paid
    <2>2. (minted' = [minted EXCEPT ![k] = @ + 1] /\ k \notin consumed) \/ minted' = minted
      BY <1>a, <1>6 DEF Verified, ConsumeMatched, CodeTypes
    <2>3. /\ Free \in [at : {"free", "others", "matched"}, row : 0 .. MAX_CODES,
                       guess : 0 .. MAX_CODES]
          /\ Free.at # "matched"
      BY <1>b DEF Free
    <2>4. /\ request' \in [Verifiers -> [at : {"free", "others", "matched"}, row : 0 .. MAX_CODES,
                                         guess : 0 .. MAX_CODES]]
          /\ \A w \in Verifiers : request'[w].at = "matched" => request'[w].row \in 1 .. codes
      BY <1>a, <2>1, <2>3 DEF CodeTypes, Paid
    <2>5. consumed' = 1 .. codes  BY <1>a, <2>1 DEF Paid
    <2>6. CASE minted' = minted
      BY <1>a, <1>c, <2>1, <2>4, <2>5, <2>6, OnlyTries DEF Paid
    <2>7. CASE minted' = [minted EXCEPT ![k] = @ + 1] /\ k \notin consumed
      <3>1. k \in Codes /\ minted[k] = 0 /\ k \notin Minted
        BY <1>a, <1>b, <2>1, <2>7 DEF CodeTypes, Paid, Minted
      <3>2. /\ minted' \in [Codes -> Nat] /\ minted'[k] = 1
            /\ \A j \in Codes : j # k => minted'[j] = minted[j]
        BY <1>a, <2>7, <3>1 DEF CodeTypes
      <3>3. Minted' = Minted \cup {k}
        BY <3>1, <3>2 DEF Minted
      <3>4. Cardinality(Minted') = Cardinality(Minted) + 1 /\ Cardinality(Minted) \in Nat
        BY <3>1, <3>3, MintedIsFinite, FS_AddElement
      <3>5. since[k] = Cardinality(Minted)  BY <1>a, <2>1, <2>7 DEF Paid
      <3>6. \A j \in Minted : since[j] \in Nat /\ since[j] < Cardinality(Minted)
        BY <1>a DEF Paid, CodeTypes, Minted
      <3>7. CodeTypes'  BY <1>a, <2>1, <2>4, <3>2 DEF CodeTypes
      <3>8. \A j \in Minted' : since'[j] < Cardinality(Minted')
        BY <2>1, <3>3, <3>4, <3>5, <3>6
      <3>9. \A i, j \in Minted' : i # j => since'[i] # since'[j]
        <4>1. \A i, j \in Minted : i # j => since[i] # since[j]  BY <1>a DEF Paid
        <4>2. \A j \in Minted : since[j] # since[k]  BY <3>4, <3>5, <3>6
        <4>3. since' = since  BY <2>1
        <4> HIDE DEF k
        <4> QED BY <3>3, <4>1, <4>2, <4>3
      <3>10. Minted' \subseteq consumed'
        BY <1>a, <2>1, <2>5, <3>3 DEF Paid
      <3>11. \A j \in Codes : minted'[j] <= 1
        BY <1>a, <3>2 DEF Paid
      <3> HIDE DEF k
      <3>12. Paid'
        BY <1>a, <2>1, <2>4, <2>5, <3>8, <3>9, <3>10, <3>11 DEF Paid
      <3> QED BY <3>7, <3>12 DEF CodesInv
    <2> QED BY <2>2, <2>6, <2>7
  <1>7. CASE UNCHANGED codeVars
    BY <1>a, <1>c, <1>7, OnlyTries DEF codeVars, CodeTypes, Paid
  <1> QED BY <1>1, <1>2, <1>3, <1>4, <1>5, <1>6, <1>7 DEF CodesNext

LEMMA CodesStart == CodesInit => CodesInv
  <1> SUFFICES ASSUME CodesInit PROVE CodesInv
    OBVIOUS
  <1>1. Minted = {}  BY DEF CodesInit, Minted
  <1>2. CodeTypes  BY CodesAssumption DEF CodesInit, CodeTypes, Free
  <1>3. Paid  BY <1>1, CodesAssumption DEF CodesInit, Paid, Free
  <1> QED BY <1>2, <1>3 DEF CodesInv

\* However many verifies of one address overlap: a code pays for one token, of
\* the codes outstanding together only one does, and no code is compared with
\* more guesses than it has attempts.
THEOREM OneTokenPerLogin == CodesSpec => []OneLogin
  <1>1. CodesInv => OneLogin
    BY DEF CodesInv, Paid, OneLogin, Minted
  <1> QED BY <1>1, CodesStart, CodesStep, PTL DEF CodesSpec

\* The fields that no token depends on.
CodesRest == expired \subseteq Codes /\ account \in {"none", "active", "suspended", "deleted"}

LEMMA CodesStayTyped ==
  /\ CodesInit => CodesRest
  /\ CodesRest /\ [CodesNext]_codeVars => CodesRest'
  <1>1. CodesInit => CodesRest  BY DEF CodesInit, CodesRest
  <1>2. CodesRest /\ [CodesNext]_codeVars => CodesRest'
    <2> SUFFICES ASSUME CodesRest, [CodesNext]_codeVars PROVE CodesRest'
      OBVIOUS
    <2>1. CASE IssueCode \/ SetUserSuspended \/ AccountDeleted \/ UNCHANGED codeVars
      BY <2>1 DEF IssueCode, SetUserSuspended, AccountDeleted, codeVars, CodesRest
    <2>2. ASSUME NEW k \in Codes, Expire(k) PROVE CodesRest'
      BY <2>2 DEF Expire, CodesRest
    <2>3. ASSUME NEW v \in Verifiers,
                 \/ \E id \in Codes, guess \in 0 .. MAX_CODES : VerifyFirst(v, id, guess)
                 \/ VerifyOthers(v) \/ RequestLost(v)
          PROVE  CodesRest'
      BY <2>3 DEF VerifyFirst, VerifyOthers, RequestLost, CodesRest
    <2>4. ASSUME NEW v \in Verifiers, Verified(v) PROVE CodesRest'
      BY <2>4 DEF Verified, CodesRest
    <2> QED BY <2>1, <2>2, <2>3, <2>4 DEF CodesNext
  <1> QED BY <1>1, <1>2

LEMMA CodesTypes == CodesInv /\ CodesRest => CodesTypeOK
  <1> SUFFICES ASSUME CodesInv, CodesRest PROVE CodesTypeOK
    OBVIOUS
  <1>1. 1 .. codes \subseteq Codes
    BY CodesAssumption DEF CodesInv, CodeTypes, Codes
  <1>2. tried \in [Codes -> 0 .. MAX_CODE_ATTEMPTS]
    BY CodesAssumption DEF CodesInv, CodeTypes, Paid
  <1> QED BY <1>1, <1>2 DEF CodesInv, CodeTypes, Paid, CodesRest, CodesTypeOK

---------------------------------------------------------------------------
(* The tables of names.                                                    *)

NameTypes ==
  /\ owner \in [Names -> Users \cup {Nobody}] /\ defaults \subseteq Names
  /\ heldFor \in [Names -> Users \cup {Nobody, Blocked}]
  /\ hint \in [Names -> Names \cup {NoName}]

\* A rename's row is the one that it read, as long as it is fresh.
CallsFit ==
  /\ calls \subseteq Call
  /\ \A c \in calls : c.op = "rename" /\ c.fresh =>
       c.user \in Users /\ owner[c.name] = c.user /\ c.name # c.to

OneDefault ==
  /\ \A n \in defaults : owner[n] \in Users
  /\ \A m, n \in defaults : owner[m] = owner[n] => m = n

SomeDefault ==
  \A n \in Names : owner[n] \in Users \ orphaned => \E m \in defaults : owner[m] = owner[n]

HoldsCapped ==
  \A u \in Users \ deleted : IsFiniteSet(HoldsOf(u)) /\ Cardinality(HoldsOf(u)) <= MAX_HOLDS

\* Where a name went, nothing that the same user released leads on.
HintsEnd ==
  \A x, y \in Names :
    heldFor[x] \in Users /\ heldFor[y] = heldFor[x] /\ hint[x] = y => hint[y] = NoName

RepoInv ==
  NameTypes /\ CallsFit /\ OneDefault /\ SomeDefault /\ HoldsCapped /\ HintsEnd

LEMMA RepoConstants ==
  /\ Nobody \notin Users /\ Blocked \notin Users /\ NoName \notin Names
  /\ MAX_NAMES \in Nat /\ MAX_HOLDS \in Nat /\ MAX_CALLS \in Nat
  BY RepoAssumption

\* Calls still fit if those on the names that changed hands are outdated.
LEMMA OutdatedFit ==
  ASSUME CallsFit, NEW ns, NEW cs \in SUBSET calls, calls' = Outdated(ns, cs),
         \A n \in Names \ ns : owner[n] \in Users => owner'[n] = owner[n]
  PROVE  CallsFit'
  <1>1. \A c \in cs : c \in Call  BY DEF CallsFit
  <1>2. ASSUME NEW d \in calls'
        PROVE  d \in Call /\ (d.op = "rename" /\ d.fresh =>
                                d.user \in Users /\ owner'[d.name] = d.user /\ d.name # d.to)
    <2>1. PICK c \in cs : d = IF c.name \in ns THEN [c EXCEPT !.fresh = FALSE] ELSE c
      BY <1>2 DEF Outdated
    <2>2. c \in Call /\ c \in calls  BY <1>1
    <2>3. CASE c.name \in ns
      <3>1. d = [c EXCEPT !.fresh = FALSE]  BY <2>1, <2>3
      <3>2. d \in Call /\ d.fresh = FALSE  BY <2>2, <3>1 DEF Call
      <3> QED BY <3>2
    <2>4. CASE c.name \notin ns
      <3>1. d = c /\ c.name \in Names  BY <2>1, <2>2, <2>4 DEF Call
      <3> QED BY <2>2, <2>4, <3>1 DEF CallsFit
    <2> QED BY <2>3, <2>4
  <1>3. calls' \subseteq Call  BY <1>2
  <1> QED BY <1>2, <1>3 DEF CallsFit

LEMMA FewerFit ==
  ASSUME CallsFit, calls' \subseteq calls,
         \A n \in Names : owner[n] \in Users => owner'[n] = owner[n]
  PROVE  CallsFit'
  <1>1. \A c \in calls' : c \in Call /\ c.name \in Names  BY DEF CallsFit, Call
  <1> QED BY <1>1 DEF CallsFit

LEMMA CallStarts ==
  ASSUME CallsFit, NEW op \in {"rename", "remove", "block"}, NEW u \in Users \cup {Nobody},
         NEW n \in Names, NEW m \in Names, NEW noHold \in BOOLEAN,
         op = "rename" => u \in Users /\ owner[n] = u /\ n # m,
         StartCall(op, u, n, m, noHold)
  PROVE  CallsFit'
  <1> DEFINE d == [op |-> op, user |-> u, name |-> n, to |-> m, noHold |-> noHold, fresh |-> TRUE]
  <1>1. calls' = calls \cup {d} /\ owner' = owner  BY DEF StartCall
  <1>2. d \in Call  BY DEF Call
  <1>3. d.op = op /\ d.user = u /\ d.name = n /\ d.to = m  OBVIOUS
  <1> HIDE DEF d
  <1> QED BY <1>1, <1>2, <1>3 DEF CallsFit

\* The cap stands where no user gets a hold but one that had room.
LEMMA HoldsStayCapped ==
  ASSUME HoldsCapped, deleted \subseteq deleted', NEW n, NEW u,
         \A w \in Users \ deleted' : HoldsOf(w)' \subseteq HoldsOf(w) \/ w = u,
         u \in Users \ deleted' => /\ HoldsOf(u)' \subseteq HoldsOf(u) \cup {n}
                                   /\ Cardinality(HoldsOf(u) \ {n}) < MAX_HOLDS
  PROVE  HoldsCapped'
  <1> SUFFICES ASSUME NEW w \in Users \ deleted'
               PROVE  IsFiniteSet(HoldsOf(w)') /\ Cardinality(HoldsOf(w)') <= MAX_HOLDS
    BY DEF HoldsCapped
  <1>1. IsFiniteSet(HoldsOf(w)) /\ Cardinality(HoldsOf(w)) <= MAX_HOLDS /\ Cardinality(HoldsOf(w)) \in Nat
    BY FS_CardinalityType DEF HoldsCapped
  <1>2. CASE HoldsOf(w)' \subseteq HoldsOf(w)
    <2>1. /\ IsFiniteSet(HoldsOf(w)') /\ Cardinality(HoldsOf(w)') <= Cardinality(HoldsOf(w))
          /\ Cardinality(HoldsOf(w)') \in Nat
      BY <1>1, <1>2, FS_Subset, FS_CardinalityType
    <2> QED BY <1>1, <2>1, RepoConstants
  <1>3. CASE ~(HoldsOf(w)' \subseteq HoldsOf(w))
    <2> DEFINE kept == HoldsOf(w) \ {n}
    <2>1. w = u  BY <1>3
    <2>2. HoldsOf(w)' \subseteq kept \cup {n} /\ Cardinality(kept) < MAX_HOLDS  BY <2>1
    <2>3. IsFiniteSet(kept) /\ n \notin kept  BY <1>1, FS_Subset
    <2> HIDE DEF kept
    <2>4. Cardinality(kept) \in Nat /\ Cardinality(kept \cup {n}) = Cardinality(kept) + 1
          /\ IsFiniteSet(kept \cup {n})
      BY <2>3, FS_CardinalityType, FS_AddElement
    <2>5. /\ IsFiniteSet(HoldsOf(w)') /\ Cardinality(HoldsOf(w)') <= Cardinality(kept \cup {n})
          /\ Cardinality(HoldsOf(w)') \in Nat
      BY <2>2, <2>4, FS_Subset, FS_CardinalityType
    <2> QED BY <2>2, <2>4, <2>5, RepoConstants
  <1> QED BY <1>2, <1>3

LEMMA HoldsUnchanged ==
  ASSUME HoldsCapped, HintsEnd, UNCHANGED holdVars, deleted \subseteq deleted'
  PROVE  HoldsCapped' /\ HintsEnd'
  BY DEF HoldsCapped, HintsEnd, HoldsOf, holdVars

\* A hold set anew, or dropped, carries no hint.
LEMMA HoldIsSet ==
  ASSUME NameTypes, HoldsCapped, HintsEnd, NEW n \in Names,
         NEW u \in Users \cup {Nobody, Blocked}, Hold(n, u), deleted' = deleted,
         u \in Users \ deleted => Cardinality(HoldsOf(u) \ {n}) < MAX_HOLDS
  PROVE  /\ heldFor' \in [Names -> Users \cup {Nobody, Blocked}]
         /\ hint' \in [Names -> Names \cup {NoName}]
         /\ HoldsCapped' /\ HintsEnd'
  <1>1. /\ heldFor' \in [Names -> Users \cup {Nobody, Blocked}]
        /\ hint' \in [Names -> Names \cup {NoName}]
        /\ heldFor'[n] = u /\ hint'[n] = NoName
        /\ \A x \in Names \ {n} : heldFor'[x] = heldFor[x] /\ hint'[x] = hint[x]
    BY DEF Hold, NameTypes
  <1>2. \A w : w # u => HoldsOf(w)' \subseteq HoldsOf(w)  BY <1>1 DEF HoldsOf
  <1>3. HoldsOf(u)' \subseteq HoldsOf(u) \cup {n}  BY <1>1 DEF HoldsOf
  <1>4. HoldsCapped'  BY <1>2, <1>3, HoldsStayCapped
  <1>5. HintsEnd'  BY <1>1, RepoConstants DEF HintsEnd
  <1> QED BY <1>1, <1>4, <1>5

\* A promotion leaves one default to each user: names may be lost with it, a
\* default that is lost being u's or that of an orphaned user.
LEMMA Promotes ==
  ASSUME NameTypes, OneDefault, SomeDefault, NEW u \in Users \cup {Nobody},
         owner' \in [Names -> Users \cup {Nobody}],
         \A n \in Names : owner'[n] \in {owner[n], Nobody},
         \A n \in defaults : owner'[n] = owner[n] \/ owner[n] = u \/ owner[n] \in orphaned',
         orphaned \subseteq orphaned', Promote(u)
  PROVE  OneDefault' /\ SomeDefault' /\ defaults' \subseteq Names
  <1> DEFINE own == {n \in Names : owner'[n] = u}
             kept == {n \in defaults : owner'[n] # Nobody}
  <1>1. \A n \in kept : owner'[n] = owner[n] /\ owner'[n] \in Users /\ n \in Names
    BY DEF NameTypes
  <1>2. \A m, n \in kept : owner'[m] = owner'[n] => m = n  BY <1>1 DEF OneDefault
  <1>3. ASSUME NEW n \in Names, owner'[n] \in Users \ orphaned', owner'[n] # u
        PROVE  \E m \in kept : owner'[m] = owner'[n]
    <2>1. owner'[n] = owner[n]  BY <1>3, RepoConstants
    <2>2. PICK m \in defaults : owner[m] = owner[n]  BY <1>3, <2>1 DEF SomeDefault
    <2>3. owner'[m] = owner[m]  BY <1>3, <2>1, <2>2
    <2> QED BY <1>3, <2>1, <2>2, <2>3, RepoConstants
  <1>4. CASE (u = Nobody \/ own = {} \/ kept \cap own # {}) /\ defaults' = kept
    <2>1. \A n \in Names : owner'[n] = u /\ owner'[n] \in Users => kept \cap own # {}
      BY <1>4, RepoConstants
    <2>2. OneDefault'  BY <1>1, <1>2, <1>4 DEF OneDefault
    <2>3. SomeDefault'  BY <1>1, <1>3, <1>4, <2>1 DEF SomeDefault
    <2>4. defaults' \subseteq Names  BY <1>1, <1>4
    <2> QED BY <2>2, <2>3, <2>4
  <1>5. ASSUME u # Nobody, kept \cap own = {}, NEW n \in own, defaults' = kept \cup {n}
        PROVE  OneDefault' /\ SomeDefault' /\ defaults' \subseteq Names
    <2>1. owner'[n] = u /\ u \in Users /\ n \in Names  BY <1>5
    <2>2. \A m \in kept : owner'[m] # u  BY <1>1, <1>5
    <2>3. OneDefault'  BY <1>1, <1>2, <1>5, <2>1, <2>2 DEF OneDefault
    <2>4. SomeDefault'  BY <1>3, <1>5, <2>1 DEF SomeDefault
    <2>5. defaults' \subseteq Names  BY <1>1, <1>5, <2>1
    <2> QED BY <2>3, <2>4, <2>5
  <1>6. \/ (u = Nobody \/ own = {} \/ kept \cap own # {}) /\ defaults' = kept
        \/ u # Nobody /\ kept \cap own = {} /\ \E n \in own : defaults' = kept \cup {n}
    BY DEF Promote
  <1> QED BY <1>4, <1>5, <1>6

LEMMA ReservedKeepsInv ==
  ASSUME RepoInv, NEW u \in Users, NEW n \in Names, owner[n] = Nobody, Reserved(u, n)
  PROVE  RepoInv'
  <1>a. NameTypes /\ CallsFit /\ OneDefault /\ SomeDefault /\ HoldsCapped /\ HintsEnd
    BY DEF RepoInv
  <1>1. /\ owner' = [owner EXCEPT ![n] = u] /\ Hold(n, Nobody)
        /\ defaults' = IF NamesOf(u) = {} THEN defaults \cup {n} ELSE defaults
        /\ UNCHANGED <<deleted, calls, orphaned>>
    BY DEF Reserved
  <1>2. /\ owner' \in [Names -> Users \cup {Nobody}] /\ owner'[n] = u /\ n \notin defaults
        /\ \A m \in Names \ {n} : owner'[m] = owner[m]
    BY <1>a, <1>1, RepoConstants DEF NameTypes, OneDefault
  <1>3. /\ heldFor' \in [Names -> Users \cup {Nobody, Blocked}]
        /\ hint' \in [Names -> Names \cup {NoName}] /\ HoldsCapped' /\ HintsEnd'
    BY <1>a, <1>1, HoldIsSet, RepoConstants
  <1>4. CallsFit'  BY <1>a, <1>1, <1>2, FewerFit, RepoConstants
  <1>5. NameTypes'  BY <1>a, <1>1, <1>2, <1>3 DEF NameTypes
  <1>6. \A m \in defaults : m \in Names /\ m # n  BY <1>a, <1>2 DEF NameTypes
  <1>7. CASE NamesOf(u) = {}
    <2>1. \A m \in Names : owner[m] # u  BY <1>7 DEF NamesOf
    <2>2. defaults' = defaults \cup {n}  BY <1>1, <1>7
    <2>3. OneDefault'  BY <1>a, <1>2, <1>6, <2>1, <2>2 DEF OneDefault
    <2>4. SomeDefault'  BY <1>a, <1>1, <1>2, <1>6, <2>1, <2>2 DEF SomeDefault
    <2> QED BY <1>3, <1>4, <1>5, <2>3, <2>4 DEF RepoInv
  <1>8. CASE NamesOf(u) # {}
    <2>1. PICK o \in Names : owner[o] = u  BY <1>8 DEF NamesOf
    <2>2. defaults' = defaults  BY <1>1, <1>8
    <2>3. OneDefault'  BY <1>a, <1>2, <1>6, <2>2 DEF OneDefault
    <2>4. SomeDefault'
      <3> SUFFICES ASSUME NEW m \in Names, owner'[m] \in Users \ orphaned
                   PROVE  \E d \in defaults : owner'[d] = owner'[m]
        BY <1>1, <2>2 DEF SomeDefault
      <3>1. PICK p \in Names : owner[p] = owner'[m]  BY <1>2, <2>1
      <3>2. PICK d \in defaults : owner[d] = owner[p]  BY <1>a, <3>1 DEF SomeDefault
      <3> QED BY <1>2, <1>6, <3>1, <3>2
    <2> QED BY <1>3, <1>4, <1>5, <2>3, <2>4 DEF RepoInv
  <1> QED BY <1>7, <1>8

\* A step on nothing but calls, and marks that no part speaks of.
LEMMA OnlyCalls ==
  ASSUME RepoInv, UNCHANGED <<owner, defaults, holdVars, deleted, orphaned>>, CallsFit'
  PROVE  RepoInv'
  BY HoldsUnchanged
  DEF RepoInv, NameTypes, OneDefault, SomeDefault, holdVars

LEMMA RenameKeepsInv ==
  ASSUME RepoInv, NEW c \in calls, Rename(c)
  PROVE  RepoInv'
  <1>a. NameTypes /\ CallsFit /\ OneDefault /\ SomeDefault /\ HoldsCapped /\ HintsEnd
    BY DEF RepoInv
  <1> DEFINE u == c.user
             n == c.name
             m == c.to
  <1>1. /\ u \in Users /\ n \in Names /\ m \in Names /\ owner[n] = u /\ n # m
        /\ owner[m] = Nobody
    BY <1>a DEF Rename, CanRename, CallsFit, Call
  <1>2. /\ owner' = [owner EXCEPT ![n] = Nobody, ![m] = u]
        /\ defaults' = IF n \in defaults THEN (defaults \ {n}) \cup {m} ELSE defaults
        /\ heldFor' = [heldFor EXCEPT ![n] = u, ![m] = Nobody]
        /\ hint' = HintMoves(u, n, m)
        /\ calls' = Outdated({n}, calls \ {c})
        /\ UNCHANGED <<deleted, orphaned>> /\ Cardinality(HoldsOf(u) \ {n}) < MAX_HOLDS
    BY DEF Rename, CanRename
  <1> HIDE DEF u, n, m
  <1>3. /\ owner' \in [Names -> Users \cup {Nobody}] /\ owner'[n] = Nobody /\ owner'[m] = u
        /\ \A x \in Names \ {n, m} : owner'[x] = owner[x]
    BY <1>a, <1>1, <1>2 DEF NameTypes
  <1>4. /\ heldFor' \in [Names -> Users \cup {Nobody, Blocked}]
        /\ heldFor'[n] = u /\ heldFor'[m] = Nobody
        /\ \A x \in Names \ {n, m} : heldFor'[x] = heldFor[x]
    BY <1>a, <1>1, <1>2 DEF NameTypes
  <1>5. /\ hint' \in [Names -> Names \cup {NoName}]
        /\ hint'[n] = m /\ hint'[m] = NoName
        /\ \A x \in Names \ {n, m} :
             hint'[x] = IF hint[x] = n /\ heldFor[x] = u THEN m ELSE hint[x]
    BY <1>a, <1>1, <1>2 DEF NameTypes, HintMoves
  <1>6. CallsFit'
    <2>1. \A x \in Names \ {n} : owner[x] \in Users => owner'[x] = owner[x]
      BY <1>1, <1>3, RepoConstants
    <2>2. calls \ {c} \in SUBSET calls  OBVIOUS
    <2> QED BY <1>a, <1>2, <2>1, <2>2, OutdatedFit
  <1>7. HoldsCapped'
    <2>1. \A w \in Users \ deleted' : HoldsOf(w)' \subseteq HoldsOf(w) \/ w = u
      BY <1>4, RepoConstants DEF HoldsOf
    <2>2. HoldsOf(u)' \subseteq HoldsOf(u) \cup {n}
      BY <1>1, <1>4, RepoConstants DEF HoldsOf
    <2>3. deleted \subseteq deleted'  BY <1>2
    <2> QED BY <1>a, <1>2, <2>1, <2>2, <2>3, HoldsStayCapped
  <1>8. HintsEnd'
    <2> SUFFICES ASSUME NEW x \in Names, NEW y \in Names, heldFor'[x] \in Users,
                        heldFor'[y] = heldFor'[x], hint'[x] = y
                 PROVE  hint'[y] = NoName
      BY DEF HintsEnd
    <2>1. x # m /\ y # m  BY <1>4, RepoConstants
    <2>2. x # n /\ hint'[x] = hint[x] /\ ~(hint[x] = n /\ heldFor[x] = u)
      BY <1>1, <1>5, <2>1
    <2>3. y # n  BY <1>4, <2>1, <2>2
    <2>4. hint[y] = NoName  BY <1>a, <1>4, <2>1, <2>2, <2>3 DEF HintsEnd
    <2> QED BY <1>1, <1>5, <2>1, <2>3, <2>4, RepoConstants
  <1>9. m \notin defaults /\ \A d \in defaults : d \in Names
    BY <1>a, <1>1, RepoConstants DEF OneDefault, NameTypes
  <1>10. NameTypes'  BY <1>1, <1>2, <1>3, <1>4, <1>5, <1>9 DEF NameTypes
  <1>11. OneDefault'  BY <1>a, <1>1, <1>2, <1>3, <1>9, RepoConstants DEF OneDefault
  <1>12. SomeDefault'
    <2> SUFFICES ASSUME NEW x \in Names, owner'[x] \in Users \ orphaned
                 PROVE  \E d \in defaults' : owner'[d] = owner'[x]
      BY <1>2 DEF SomeDefault
    <2>1. PICK y \in Names : owner[y] = owner'[x]  BY <1>1, <1>3, RepoConstants
    <2>2. PICK d \in defaults : owner[d] = owner[y]  BY <1>a, <2>1 DEF SomeDefault
    <2>3. CASE d = n  BY <1>1, <1>2, <1>3, <2>1, <2>2, <2>3
    <2>4. CASE d # n  BY <1>2, <1>3, <1>9, <2>1, <2>2, <2>4
    <2> QED BY <2>3, <2>4
  <1> QED BY <1>6, <1>7, <1>8, <1>10, <1>11, <1>12 DEF RepoInv

LEMMA RemoveKeepsInv ==
  ASSUME RepoInv, NEW c \in calls, Remove(c)
  PROVE  RepoInv'
  <1>a. NameTypes /\ CallsFit /\ OneDefault /\ SomeDefault /\ HoldsCapped /\ HintsEnd
    BY DEF RepoInv
  <1>1. /\ c.user \in Users \cup {Nobody} /\ c.name \in Names /\ owner[c.name] = c.user
        /\ owner' = [owner EXCEPT ![c.name] = Nobody] /\ Promote(c.user)
        /\ calls' = Outdated({c.name}, calls \ {c}) /\ UNCHANGED <<deleted, orphaned>>
    BY <1>a DEF Remove, CanRemove, CallsFit, Call
  <1>2. /\ owner' \in [Names -> Users \cup {Nobody}]
        /\ \A n \in Names : owner'[n] \in {owner[n], Nobody}
        /\ \A n \in Names \ {c.name} : owner'[n] = owner[n]
    BY <1>a, <1>1 DEF NameTypes
  <1>3. CallsFit'
    <2>1. calls \ {c} \in SUBSET calls  OBVIOUS
    <2> QED BY <1>a, <1>1, <1>2, <2>1, OutdatedFit
  <1>4. OneDefault' /\ SomeDefault' /\ defaults' \subseteq Names
    <2>1. \A n \in defaults : owner'[n] = owner[n] \/ owner[n] = c.user
      BY <1>a, <1>1, <1>2 DEF NameTypes
    <2> QED BY <1>a, <1>1, <1>2, <2>1, Promotes
  <1>5. /\ heldFor' \in [Names -> Users \cup {Nobody, Blocked}]
        /\ hint' \in [Names -> Names \cup {NoName}] /\ HoldsCapped' /\ HintsEnd'
    <2>1. CASE c.noHold
      <3>1. UNCHANGED holdVars  BY <2>1 DEF Remove
      <3> QED BY <1>a, <1>1, <3>1, HoldsUnchanged DEF NameTypes, holdVars
    <2>2. CASE ~c.noHold
      <3>1. Hold(c.name, c.user) /\ Cardinality(HoldsOf(c.user) \ {c.name}) < MAX_HOLDS
        BY <2>2 DEF Remove, CanRemove
      <3> QED BY <1>a, <1>1, <3>1, HoldIsSet
    <2> QED BY <2>1, <2>2
  <1>6. NameTypes'  BY <1>2, <1>4, <1>5 DEF NameTypes
  <1> QED BY <1>3, <1>4, <1>5, <1>6 DEF RepoInv

LEMMA BlockKeepsInv ==
  ASSUME RepoInv, NEW c \in calls, Block(c)
  PROVE  RepoInv'
  <1>a. NameTypes /\ CallsFit /\ OneDefault /\ SomeDefault /\ HoldsCapped /\ HintsEnd
    BY DEF RepoInv
  <1>1. /\ c.user \in Users \cup {Nobody} /\ c.name \in Names
        /\ owner' = [owner EXCEPT ![c.name] = Nobody] /\ Hold(c.name, Blocked) /\ Promote(c.user)
        /\ orphaned' = IF c.name \in defaults /\ owner[c.name] # c.user
                       THEN orphaned \cup {owner[c.name]} ELSE orphaned
        /\ calls' = Outdated({c.name}, calls \ {c}) /\ deleted' = deleted
    BY <1>a DEF Block, CallsFit, Call
  <1>2. /\ owner' \in [Names -> Users \cup {Nobody}]
        /\ \A n \in Names : owner'[n] \in {owner[n], Nobody}
        /\ \A n \in Names \ {c.name} : owner'[n] = owner[n]
    BY <1>a, <1>1 DEF NameTypes
  <1>3. CallsFit'
    <2>1. calls \ {c} \in SUBSET calls  OBVIOUS
    <2> QED BY <1>a, <1>1, <1>2, <2>1, OutdatedFit
  <1>4. OneDefault' /\ SomeDefault' /\ defaults' \subseteq Names
    <2>1. \A n \in defaults : owner'[n] = owner[n] \/ owner[n] = c.user \/ owner[n] \in orphaned'
      BY <1>a, <1>1, <1>2 DEF NameTypes
    <2>2. orphaned \subseteq orphaned'  BY <1>1
    <2> QED BY <1>a, <1>1, <1>2, <2>1, <2>2, Promotes
  <1>5. /\ heldFor' \in [Names -> Users \cup {Nobody, Blocked}]
        /\ hint' \in [Names -> Names \cup {NoName}] /\ HoldsCapped' /\ HintsEnd'
    BY <1>a, <1>1, HoldIsSet, RepoConstants
  <1>6. NameTypes'  BY <1>2, <1>4, <1>5 DEF NameTypes
  <1> QED BY <1>3, <1>4, <1>5, <1>6 DEF RepoInv

LEMMA DeleteKeepsInv ==
  ASSUME RepoInv, NEW u \in Users, DeleteAccount(u)
  PROVE  RepoInv'
  <1>a. NameTypes /\ CallsFit /\ OneDefault /\ SomeDefault /\ HoldsCapped /\ HintsEnd
    BY DEF RepoInv
  <1>1. /\ owner' \in [Names -> Users \cup {Nobody}]
        /\ \A n \in Names : IF owner[n] = u THEN owner'[n] = Nobody ELSE owner'[n] = owner[n]
        /\ heldFor' \in [Names -> Users \cup {Nobody, Blocked}]
        /\ \A n \in Names : IF owner[n] = u THEN heldFor'[n] \in {u, Blocked}
                                            ELSE heldFor'[n] = heldFor[n]
        /\ hint' \in [Names -> Names \cup {NoName}]
        /\ \A n \in Names : IF owner[n] = u THEN hint'[n] = NoName ELSE hint'[n] = hint[n]
    BY <1>a DEF DeleteAccount, NameTypes
  <1>2. /\ deleted' = deleted \cup {u} /\ defaults' = defaults \ NamesOf(u)
        /\ calls' = Outdated(NamesOf(u), calls) /\ orphaned' = orphaned
    BY DEF DeleteAccount
  <1>3. CallsFit'
    <2>1. \A n \in Names \ NamesOf(u) : owner'[n] = owner[n]  BY <1>1 DEF NamesOf
    <2>2. calls \in SUBSET calls  OBVIOUS
    <2> QED BY <1>a, <1>2, <2>1, <2>2, OutdatedFit
  <1>4. \A d \in defaults' : d \in defaults /\ d \in Names /\ owner'[d] = owner[d] /\ owner[d] # u
    BY <1>a, <1>1, <1>2 DEF NameTypes, NamesOf
  <1>5. OneDefault'  BY <1>a, <1>4 DEF OneDefault
  <1>6. SomeDefault'
    <2> SUFFICES ASSUME NEW x \in Names, owner'[x] \in Users \ orphaned
                 PROVE  \E d \in defaults' : owner'[d] = owner'[x]
      BY <1>2 DEF SomeDefault
    <2>1. owner'[x] = owner[x] /\ owner[x] # u  BY <1>1, RepoConstants
    <2>2. PICK d \in defaults : owner[d] = owner[x]  BY <1>a, <2>1 DEF SomeDefault
    <2>3. d \in defaults'  BY <1>2, <2>1, <2>2 DEF NamesOf
    <2> QED BY <1>4, <2>1, <2>2, <2>3
  <1>7. HoldsCapped'
    <2>1. \A w \in Users \ deleted' : HoldsOf(w)' \subseteq HoldsOf(w)
      BY <1>1, <1>2, RepoConstants DEF HoldsOf
    <2>2. u \notin Users \ deleted' /\ deleted \subseteq deleted'  BY <1>2
    <2> QED BY <1>a, <2>1, <2>2, HoldsStayCapped
  <1>8. HintsEnd'
    <2> SUFFICES ASSUME NEW x \in Names, NEW y \in Names, heldFor'[x] \in Users,
                        heldFor'[y] = heldFor'[x], hint'[x] = y
                 PROVE  hint'[y] = NoName
      BY DEF HintsEnd
    <2>1. CASE owner[y] = u  BY <1>1, <2>1
    <2>2. CASE owner[y] # u
      <3>1. owner[x] # u  BY <1>1, RepoConstants
      <3>2. heldFor[x] = heldFor'[x] /\ heldFor[y] = heldFor'[y] /\ hint[x] = y /\ hint'[y] = hint[y]
        BY <1>1, <2>2, <3>1
      <3> QED BY <1>a, <3>2 DEF HintsEnd
    <2> QED BY <2>1, <2>2
  <1>9. NameTypes'  BY <1>1, <1>4 DEF NameTypes
  <1> QED BY <1>3, <1>5, <1>6, <1>7, <1>8, <1>9 DEF RepoInv

LEMMA RepoStep ==
  ASSUME RepoInv, [RepoNext]_repoVars
  PROVE  RepoInv'
  <1>a. NameTypes /\ CallsFit /\ OneDefault /\ SomeDefault /\ HoldsCapped /\ HintsEnd
    BY DEF RepoInv
  <1>1. ASSUME NEW u \in Users, NEW n \in Names, Reserve(u, n) \/ ReserveForUser(u, n)
        PROVE  RepoInv'
    BY <1>1, ReservedKeepsInv DEF Reserve, ReserveForUser
  <1>2. ASSUME NEW u \in Users, NEW n \in Names, RemoveRead(u, n) PROVE RepoInv'
    <2> DEFINE noHold == Cardinality(HoldsOf(u) \ {n}) >= MAX_HOLDS
    <2>1. StartCall("remove", u, n, n, noHold)  BY <1>2 DEF RemoveRead
    <2>b. noHold \in BOOLEAN  OBVIOUS
    <2> HIDE DEF noHold
    <2>2. CallsFit'  BY <1>a, <2>1, <2>b, CallStarts
    <2> QED BY <2>1, <2>2, OnlyCalls DEF StartCall
  <1>3. ASSUME NEW u \in Users, NEW n \in Names, NEW m \in Names, RenameRead(u, n, m)
        PROVE  RepoInv'
    <2>1. StartCall("rename", u, n, m, FALSE) /\ owner[n] = u /\ n # m
      BY <1>3 DEF RenameRead
    <2>2. CallsFit'  BY <1>a, <2>1, CallStarts
    <2> QED BY <2>1, <2>2, OnlyCalls DEF StartCall
  <1>4. ASSUME NEW n \in Names, BlockRead(n) PROVE RepoInv'
    <2>1. StartCall("block", owner[n], n, n, FALSE) /\ owner[n] \in Users \cup {Nobody}
      BY <1>a, <1>4 DEF BlockRead, NameTypes
    <2>2. CallsFit'  BY <1>a, <2>1, CallStarts
    <2> QED BY <2>1, <2>2, OnlyCalls DEF StartCall
  <1>5. ASSUME NEW u \in Users, NEW n \in Names, SetDefault(u, n) PROVE RepoInv'
    <2>1. /\ owner[n] = u /\ defaults' = (defaults \ NamesOf(u)) \cup {n}
          /\ UNCHANGED <<owner, holdVars, deleted, calls, orphaned>>
      BY <1>5 DEF SetDefault
    <2>2. OneDefault'  BY <1>a, <2>1 DEF OneDefault, NamesOf, NameTypes
    <2>3. SomeDefault'
      <3> SUFFICES ASSUME NEW x \in Names, owner[x] \in Users \ orphaned
                   PROVE  \E d \in defaults' : owner[d] = owner[x]
        BY <2>1 DEF SomeDefault
      <3>1. PICK d \in defaults : owner[d] = owner[x]  BY <1>a DEF SomeDefault
      <3> QED BY <2>1, <3>1 DEF NamesOf
    <2>4. CallsFit'  BY <1>a, <2>1, FewerFit
    <2>5. HoldsCapped' /\ HintsEnd'  BY <1>a, <2>1, HoldsUnchanged
    <2>6. NameTypes'  BY <1>a, <2>1 DEF NameTypes, holdVars
    <2> QED BY <2>2, <2>3, <2>4, <2>5, <2>6 DEF RepoInv
  <1>6. ASSUME NEW n \in Names, SetNameSuspended(n) PROVE RepoInv'
    <2>1. UNCHANGED <<owner, defaults, holdVars, deleted, calls, orphaned>>
      BY <1>6 DEF SetNameSuspended
    <2>2. CallsFit'  BY <1>a, <2>1, FewerFit
    <2> QED BY <2>1, <2>2, OnlyCalls
  <1>7. ASSUME NEW n \in Names, ReleaseName(n) PROVE RepoInv'
    <2>1. Hold(n, Nobody) /\ UNCHANGED <<owner, defaults, deleted, calls, orphaned>>
      BY <1>7 DEF ReleaseName
    <2>2. CallsFit'  BY <1>a, <2>1, FewerFit
    <2>3. /\ heldFor' \in [Names -> Users \cup {Nobody, Blocked}]
          /\ hint' \in [Names -> Names \cup {NoName}] /\ HoldsCapped' /\ HintsEnd'
      BY <1>a, <2>1, HoldIsSet, RepoConstants
    <2>4. NameTypes' /\ OneDefault' /\ SomeDefault'
      BY <1>a, <2>1, <2>3 DEF NameTypes, OneDefault, SomeDefault
    <2> QED BY <2>2, <2>3, <2>4 DEF RepoInv
  <1>8. ASSUME NEW c \in calls, RenameRefused(c) PROVE RepoInv'
    <2>1. calls' \subseteq calls /\ UNCHANGED <<owner, defaults, holdVars, deleted, orphaned>>
      BY <1>8 DEF RenameRefused
    <2>2. CallsFit'  BY <1>a, <2>1, FewerFit
    <2> QED BY <2>1, <2>2, OnlyCalls
  <1>9. ASSUME NEW c \in calls, RemoveRefused(c) PROVE RepoInv'
    <2>1. /\ calls' \subseteq calls /\ UNCHANGED <<owner, holdVars, deleted, orphaned>>
          /\ Promote(c.user) /\ c.user \in Users \cup {Nobody}
      BY <1>a, <1>9 DEF RemoveRefused, CallsFit, Call
    <2>2. CallsFit'  BY <1>a, <2>1, FewerFit
    <2>3. HoldsCapped' /\ HintsEnd'  BY <1>a, <2>1, HoldsUnchanged
    <2>4. owner' \in [Names -> Users \cup {Nobody}]  BY <1>a, <2>1 DEF NameTypes
    <2>5. OneDefault' /\ SomeDefault' /\ defaults' \subseteq Names
      BY <1>a, <2>1, <2>4, Promotes
    <2>6. NameTypes'  BY <1>a, <2>1, <2>5 DEF NameTypes, holdVars
    <2> QED BY <2>2, <2>3, <2>5, <2>6 DEF RepoInv
  <1>10. CASE UNCHANGED repoVars
    <2>1. CallsFit'  BY <1>a, <1>10, FewerFit DEF repoVars
    <2> QED BY <1>10, <2>1, OnlyCalls DEF repoVars, holdVars
  <1> QED BY <1>1, <1>2, <1>3, <1>4, <1>5, <1>6, <1>7, <1>8, <1>9, <1>10,
             RenameKeepsInv, RemoveKeepsInv, BlockKeepsInv, DeleteKeepsInv
          DEF RepoNext, HoldRunsOut

LEMMA RepoStart == RepoInit => RepoInv
  <1> SUFFICES ASSUME RepoInit PROVE RepoInv
    OBVIOUS
  <1>1. NameTypes  BY DEF RepoInit, NameTypes
  <1>2. CallsFit /\ OneDefault /\ HintsEnd
    BY RepoConstants DEF RepoInit, CallsFit, OneDefault, HintsEnd
  <1>3. SomeDefault  BY RepoConstants DEF RepoInit, SomeDefault
  <1>4. \A u \in Users : HoldsOf(u) = {}  BY RepoConstants DEF RepoInit, HoldsOf
  <1>5. HoldsCapped  BY <1>4, FS_EmptySet, RepoConstants DEF HoldsCapped
  <1> QED BY <1>1, <1>2, <1>3, <1>5 DEF RepoInv

\* Whatever batches and administrators get between a call's read and its batch:
\* each user with names has one default, holds stay within the cap, and a rename's
\* hint leads to no other hint.
THEOREM NamesStaySettled == RepoSpec => []NamesSettled
  <1>1. RepoInv => NamesSettled
    <2> SUFFICES ASSUME RepoInv PROVE NamesSettled
      OBVIOUS
    <2>a. NameTypes /\ OneDefault /\ SomeDefault /\ HoldsCapped /\ HintsEnd
      BY DEF RepoInv
    <2>1. ASSUME NEW u \in Users PROVE Cardinality(NamesOf(u) \cap defaults) <= 1
      <3>1. CASE NamesOf(u) \cap defaults = {}
        BY <3>1, FS_EmptySet
      <3>2. CASE NamesOf(u) \cap defaults # {}
        <4>1. PICK n : NamesOf(u) \cap defaults = {n}
          BY <2>a, <3>2 DEF OneDefault, NamesOf
        <4>2. Cardinality({n}) = 1  BY FS_Singleton
        <4> QED BY <4>1, <4>2
      <3> QED BY <3>1, <3>2
    <2>2. ASSUME NEW u \in Users, NamesOf(u) # {}, u \notin orphaned
          PROVE  NamesOf(u) \cap defaults # {}
      <3>1. PICK n \in Names : owner[n] = u  BY <2>2 DEF NamesOf
      <3>2. PICK m \in defaults : owner[m] = u  BY <2>a, <2>2, <3>1 DEF SomeDefault
      <3> QED BY <2>a, <3>2 DEF NamesOf, NameTypes
    <2>3. ASSUME NEW u \in Users, NEW n \in Names, ConnectAuthz(u, n) = "renamed"
          PROVE  ConnectAuthz(u, hint[n]) # "renamed"
      <3>1. heldFor[n] = u /\ hint[n] # NoName  BY <2>3 DEF ConnectAuthz
      <3>2. hint[n] \in Names  BY <2>a, <3>1 DEF NameTypes
      <3>3. heldFor[hint[n]] = u => hint[hint[n]] = NoName
        BY <2>a, <3>1, <3>2 DEF HintsEnd
      <3> QED BY <3>3 DEF ConnectAuthz
    <2> QED BY <2>a, <2>1, <2>2, <2>3 DEF NamesSettled, HoldsCapped
  <1> QED BY <1>1, RepoStart, RepoStep, PTL DEF RepoSpec

\* The fields beside the tables: only users are orphaned or deleted.
RepoRest == suspended \subseteq Names /\ deleted \subseteq Users /\ orphaned \subseteq Users

LEMMA RepoStaysTyped ==
  /\ RepoInit => RepoRest
  /\ RepoInv /\ RepoRest /\ [RepoNext]_repoVars => RepoRest'
  <1>1. RepoInit => RepoRest  BY DEF RepoInit, RepoRest
  <1>2. RepoInv /\ RepoRest /\ [RepoNext]_repoVars => RepoRest'
    <2> SUFFICES ASSUME RepoInv, RepoRest, [RepoNext]_repoVars PROVE RepoRest'
      OBVIOUS
    <2>1. ASSUME NEW u \in Users, NEW n \in Names,
                 \/ Reserve(u, n) \/ ReserveForUser(u, n) \/ RemoveRead(u, n) \/ SetDefault(u, n)
                 \/ \E m \in Names : RenameRead(u, n, m)
          PROVE  RepoRest'
      BY <2>1
         DEF Reserve, ReserveForUser, Reserved, RemoveRead, SetDefault, RenameRead, StartCall,
             RepoRest
    <2>2. ASSUME NEW u \in Users, DeleteAccount(u) PROVE RepoRest'
      BY <2>2 DEF DeleteAccount, RepoRest
    <2>3. ASSUME NEW n \in Names, BlockRead(n) \/ SetNameSuspended(n) \/ ReleaseName(n)
          PROVE  RepoRest'
      BY <2>3 DEF BlockRead, StartCall, SetNameSuspended, ReleaseName, RepoRest
    <2>4. ASSUME NEW c \in calls, Block(c) PROVE RepoRest'
      <3>1. c.name \in defaults => owner[c.name] \in Users
        BY DEF RepoInv, OneDefault
      <3> QED BY <2>4, <3>1 DEF Block, RepoRest
    <2>5. ASSUME NEW c \in calls, Rename(c) \/ Remove(c) \/ RenameRefused(c) \/ RemoveRefused(c)
          PROVE  RepoRest'
      BY <2>5 DEF Rename, Remove, RenameRefused, RemoveRefused, RepoRest
    <2>6. CASE UNCHANGED repoVars  BY <2>6 DEF repoVars, RepoRest
    <2> QED BY <2>1, <2>2, <2>3, <2>4, <2>5, <2>6 DEF RepoNext, HoldRunsOut
  <1> QED BY <1>1, <1>2

LEMMA RepoTypes == RepoInv /\ RepoRest => RepoTypeOK
  BY DEF RepoInv, NameTypes, CallsFit, RepoRest, RepoTypeOK

---------------------------------------------------------------------------
(* The long-stream budget.                                                 *)

FlushCalls == [for : {"release", "alarm", "refresh"}, at : {"none", "sent", "written", "flushed"},
               seconds : Nat, total : Nat]

UsageTypes ==
  /\ usageRow \in Nat
  /\ unaccrued \in [Objects -> [LongSlots -> 0 .. Absent]]
  /\ pending \in [Objects -> Nat]
  /\ known \in [Objects -> Nat]
  /\ alarm \in [Objects -> BOOLEAN]
  /\ flush \in [Objects -> [FlushSlots -> FlushCalls]]

Counted ==
  /\ due \in Nat
  /\ SECOND * usageRow + SumFunction([o \in Objects |-> Unflushed(o)]) = due

\* What wakes the object to count its long streams.
Waking(o) == alarm[o] \/ \E i \in Flushing(o) : flush[o][i].for = "alarm"

Woken == \A o \in Objects : Long(o) # {} => Waking(o)

UsageInv == UsageTypes /\ Counted /\ Woken

Ticks(o) == [s \in LongSlots |-> IF s \in Long(o) THEN unaccrued[o][s] ELSE 0]
SentSeconds(o, is) == [i \in FlushSlots |-> IF i \in is THEN flush[o][i].seconds ELSE 0]

LEMMA UsageConstants ==
  /\ SECOND \in Nat /\ SECOND > 0 /\ MAX_TICKS \in Nat /\ Absent = MAX_TICKS + 1
  /\ IsFiniteSet(Objects) /\ IsFiniteSet(LongSlots) /\ IsFiniteSet(FlushSlots)
  <1>1. IsFiniteSet(LongSlots) /\ IsFiniteSet(FlushSlots)
    BY UsageAssumption, FS_Interval DEF LongSlots, FlushSlots
  <1> QED BY <1>1, UsageAssumption DEF Absent

LEMMA TimesNat == \A a, b \in Nat : a * b \in Nat
  OBVIOUS

LEMMA TimesSum == \A a, b, c \in Nat : a * (b + c) = a * b + a * c
  OBVIOUS

ObjectSums ==
  \A o \in Objects :
    /\ Ticks(o) \in [LongSlots -> Nat] /\ Accrued(o) = SumFunction(Ticks(o)) /\ Accrued(o) \in Nat
    /\ \A is : /\ SentSeconds(o, is) \in [FlushSlots -> Nat]
               /\ Seconds(o, is) = SumFunction(SentSeconds(o, is)) /\ Seconds(o, is) \in Nat
    /\ Unflushed(o) \in Nat

LEMMA SumsOfObject == UsageTypes => ObjectSums
  <1> SUFFICES ASSUME UsageTypes, NEW o \in Objects
               PROVE  /\ Ticks(o) \in [LongSlots -> Nat]
                      /\ Accrued(o) = SumFunction(Ticks(o)) /\ Accrued(o) \in Nat
                      /\ \A is : /\ SentSeconds(o, is) \in [FlushSlots -> Nat]
                                 /\ Seconds(o, is) = SumFunction(SentSeconds(o, is))
                                 /\ Seconds(o, is) \in Nat
                      /\ Unflushed(o) \in Nat
    BY Zenon DEF ObjectSums
  <1>1. Ticks(o) \in [LongSlots -> Nat]
    <2>1. unaccrued[o] \in [LongSlots -> 0 .. Absent]  BY DEF UsageTypes
    <2>2. \A s \in LongSlots : unaccrued[o][s] \in Nat  BY <2>1, UsageConstants
    <2> QED BY <2>2 DEF Ticks
  <1>2. Accrued(o) = SumFunction(Ticks(o))  BY Zenon DEF Accrued, Ticks
  <1>3. Accrued(o) \in Nat  BY <1>1, <1>2, SumIsNat, UsageConstants
  <1>4. ASSUME NEW is
        PROVE  /\ SentSeconds(o, is) \in [FlushSlots -> Nat]
               /\ Seconds(o, is) = SumFunction(SentSeconds(o, is)) /\ Seconds(o, is) \in Nat
    <2>1. flush[o] \in [FlushSlots -> FlushCalls]  BY DEF UsageTypes
    <2>2. \A i \in FlushSlots : flush[o][i].seconds \in Nat  BY <2>1 DEF FlushCalls
    <2>3. SentSeconds(o, is) \in [FlushSlots -> Nat]  BY <2>2 DEF SentSeconds
    <2>4. Seconds(o, is) = SumFunction(SentSeconds(o, is))
      BY Zenon DEF Seconds, SentSeconds
    <2> QED BY <2>3, <2>4, SumIsNat, UsageConstants
  <1>5. Unflushed(o) \in Nat
    <2>1. pending[o] \in Nat /\ Seconds(o, Sent(o)) \in Nat  BY <1>4 DEF UsageTypes
    <2>2. SECOND * Seconds(o, Sent(o)) \in Nat  BY <2>1, TimesNat, UsageConstants
    <2> QED BY <1>3, <2>1, <2>2 DEF Unflushed
  <1> QED BY <1>1, <1>2, <1>3, <1>4, <1>5

\* The account is right after a step of one object if what the step takes from
\* the object, or brings to it, is in the row or is due.
Apart(o) ==
  \A p \in Objects \ {o} : /\ unaccrued'[p] = unaccrued[p] /\ pending'[p] = pending[p]
                          /\ flush'[p] = flush[p] /\ alarm'[p] = alarm[p]

LEMMA ObjectCounts ==
  ASSUME UsageTypes, UsageTypes', Counted, NEW o \in Objects, Apart(o),
         due' \in Int,
         SECOND * usageRow' + Unflushed(o)' + due = SECOND * usageRow + Unflushed(o) + due'
  PROVE  Counted'
  <1> DEFINE f == [p \in Objects |-> Unflushed(p)]
             h == [p \in Objects |-> Unflushed(p)']
  <1>1. f \in [Objects -> Nat]
    <2>1. \A p \in Objects : Unflushed(p) \in Nat  BY SumsOfObject DEF ObjectSums
    <2> QED BY <2>1
  <1>2. h \in [Objects -> Nat]
    <2>1. UsageTypes' => ObjectSums'  BY SumsOfObject, PTL
    <2>2. \A p \in Objects : Unflushed(p)' \in Nat  BY <2>1 DEF ObjectSums
    <2> QED BY <2>2
  <1>3. \A p \in Objects \ {o} : h[p] = f[p]
    BY DEF Apart, Unflushed, Accrued, Seconds, Sent, Long
  <1>4. f[o] = Unflushed(o) /\ h[o] = Unflushed(o)'  OBVIOUS
  <1>5. SECOND * usageRow + SumFunction(f) = due /\ due \in Nat  BY DEF Counted
  <1>6. Counted' <=> due' \in Nat /\ SECOND * usageRow' + SumFunction(h) = due'
    BY Zenon DEF Counted
  <1> HIDE DEF f, h
  <1>7. SumFunction(h) + f[o] = SumFunction(f) + h[o]
    BY <1>1, <1>2, <1>3, UsageConstants, SumChange
  <1>8. SumFunction(h) \in Nat /\ SumFunction(f) \in Nat /\ f[o] \in Nat /\ h[o] \in Nat
    BY <1>1, <1>2, UsageConstants, SumIsNat
  <1>9. SECOND * usageRow' \in Nat /\ SECOND * usageRow \in Nat
    <2>1. usageRow' \in Nat /\ usageRow \in Nat /\ SECOND \in Nat
      BY UsageConstants DEF UsageTypes
    <2> QED BY <2>1, TimesNat
  <1>10. SECOND * usageRow' + h[o] + due = SECOND * usageRow + f[o] + due'  BY <1>4
  <1>11. SECOND * usageRow' + SumFunction(h) = due'
    BY <1>5, <1>7, <1>8, <1>9, <1>10
  <1> QED BY <1>6, <1>8, <1>9, <1>11

LEMMA WholeSeconds ==
  ASSUME NEW ticks \in Nat
  PROVE  /\ ticks \div SECOND \in Nat /\ ticks % SECOND \in Nat
         /\ SECOND * (ticks \div SECOND) + (ticks % SECOND) = ticks
         /\ ticks < SECOND => ticks % SECOND = ticks /\ ticks \div SECOND = 0
  <1>1. \A a, b \in Nat : b > 0 =>
          /\ a \div b \in Nat /\ a % b \in Nat /\ b * (a \div b) + (a % b) = a
          /\ a < b => a % b = a /\ a \div b = 0
    OBVIOUS
  <1> QED BY <1>1, UsageConstants

\* One call more, or less, among those that D1 has not answered.
LEMMA SentChanges ==
  ASSUME UsageTypes, UsageTypes', NEW o \in Objects, NEW i \in FlushSlots,
         \A j \in FlushSlots \ {i} : flush'[o][j] = flush[o][j]
  PROVE  Seconds(o, Sent(o))' + (IF flush[o][i].at = "sent" THEN flush[o][i].seconds ELSE 0)
         = Seconds(o, Sent(o)) + (IF flush'[o][i].at = "sent" THEN flush'[o][i].seconds ELSE 0)
  <1> DEFINE f == SentSeconds(o, Sent(o))
             h == SentSeconds(o, Sent(o))'
  <1>1. f \in [FlushSlots -> Nat] /\ Seconds(o, Sent(o)) = SumFunction(f)
    BY SumsOfObject DEF ObjectSums
  <1>2. h \in [FlushSlots -> Nat] /\ Seconds(o, Sent(o))' = SumFunction(h)
    <2>1. UsageTypes' => ObjectSums'  BY SumsOfObject, PTL
    <2> QED BY <2>1 DEF ObjectSums
  <1>3. /\ f[i] = (IF flush[o][i].at = "sent" THEN flush[o][i].seconds ELSE 0)
        /\ h[i] = (IF flush'[o][i].at = "sent" THEN flush'[o][i].seconds ELSE 0)
        /\ \A j \in FlushSlots \ {i} : h[j] = f[j]
    BY DEF SentSeconds, Sent
  <1> HIDE DEF f, h
  <1>4. SumFunction(h) + f[i] = SumFunction(f) + h[i]
    BY <1>1, <1>2, <1>3, SumChange, UsageConstants
  <1> QED BY <1>1, <1>2, <1>3, <1>4

\* One stream's ticks more, or less.
LEMMA AccruedChanges ==
  ASSUME UsageTypes, UsageTypes', NEW o \in Objects, NEW s \in LongSlots,
         \A t \in LongSlots \ {s} : unaccrued'[o][t] = unaccrued[o][t]
  PROVE  Accrued(o)' + (IF unaccrued[o][s] # Absent THEN unaccrued[o][s] ELSE 0)
         = Accrued(o) + (IF unaccrued'[o][s] # Absent THEN unaccrued'[o][s] ELSE 0)
  <1> DEFINE f == Ticks(o)
             h == Ticks(o)'
  <1>1. f \in [LongSlots -> Nat] /\ Accrued(o) = SumFunction(f)
    BY SumsOfObject DEF ObjectSums
  <1>2. h \in [LongSlots -> Nat] /\ Accrued(o)' = SumFunction(h)
    <2>1. UsageTypes' => ObjectSums'  BY SumsOfObject, PTL
    <2> QED BY <2>1 DEF ObjectSums
  <1>3. /\ f[s] = (IF unaccrued[o][s] # Absent THEN unaccrued[o][s] ELSE 0)
        /\ h[s] = (IF unaccrued'[o][s] # Absent THEN unaccrued'[o][s] ELSE 0)
        /\ \A t \in LongSlots \ {s} : h[t] = f[t]
    BY DEF Ticks, Long, Absent
  <1> HIDE DEF f, h
  <1>4. SumFunction(h) + f[s] = SumFunction(f) + h[s]
    BY <1>1, <1>2, <1>3, SumChange, UsageConstants
  <1> QED BY <1>1, <1>2, <1>3, <1>4

\* After accrue, or a reset, no tick is left in memory.
LEMMA NoneAccrued ==
  ASSUME UsageTypes', NEW o \in Objects, \A s \in LongSlots : unaccrued'[o][s] \in {0, Absent}
  PROVE  Accrued(o)' = 0
  <1> DEFINE h == Ticks(o)'
  <1>1. h \in [LongSlots -> Nat] /\ Accrued(o)' = SumFunction(h)
    <2>1. UsageTypes' => ObjectSums'  BY SumsOfObject, PTL
    <2> QED BY <2>1 DEF ObjectSums
  <1>2. \A s \in LongSlots : h[s] = 0  BY DEF Ticks, Long, Absent
  <1> HIDE DEF h
  <1> QED BY <1>1, <1>2, SumOfZeros, UsageConstants

LEMMA NoneSent ==
  ASSUME UsageTypes', NEW o \in Objects, Sent(o)' = {}
  PROVE  Seconds(o, Sent(o))' = 0
  <1> DEFINE h == SentSeconds(o, Sent(o))'
  <1>1. h \in [FlushSlots -> Nat] /\ Seconds(o, Sent(o))' = SumFunction(h)
    <2>1. UsageTypes' => ObjectSums'  BY SumsOfObject, PTL
    <2> QED BY <2>1 DEF ObjectSums
  <1>2. \A i \in FlushSlots : h[i] = 0  BY DEF SentSeconds
  <1> HIDE DEF h
  <1> QED BY <1>1, <1>2, SumOfZeros, UsageConstants

\* What the calls of an object carry is carried by these and by the others.
LEMMA SecondsSplit ==
  ASSUME UsageTypes, NEW o \in Objects, NEW is \in SUBSET Sent(o)
  PROVE  Seconds(o, Sent(o)) = Seconds(o, is) + Seconds(o, Sent(o) \ is)
  <1> DEFINE e == SentSeconds(o, Sent(o))
             f == SentSeconds(o, is)
             h == SentSeconds(o, Sent(o) \ is)
  <1>1. /\ e \in [FlushSlots -> Nat] /\ Seconds(o, Sent(o)) = SumFunction(e)
        /\ f \in [FlushSlots -> Nat] /\ Seconds(o, is) = SumFunction(f)
        /\ h \in [FlushSlots -> Nat] /\ Seconds(o, Sent(o) \ is) = SumFunction(h)
    BY SumsOfObject DEF ObjectSums
  <1>2. AddsUp(e, f, h, FlushSlots)
    <2>1. \A i \in FlushSlots : flush[o][i].seconds \in Nat
      BY DEF UsageTypes, FlushCalls
    <2> QED BY <2>1 DEF AddsUp, SentSeconds
  <1> HIDE DEF e, f, h
  <1> QED BY <1>1, <1>2, SumAdds, UsageConstants

LEMMA FlushFrames ==
  ASSUME UsageTypes, NEW o \in Objects, NEW for \in {"release", "alarm", "refresh"},
         NEW ticks \in Nat, StartFlush(o, for, ticks)
  PROVE  /\ pending' \in [Objects -> Nat] /\ flush' \in [Objects -> [FlushSlots -> FlushCalls]]
         /\ \A p \in Objects \ {o} : pending'[p] = pending[p] /\ flush'[p] = flush[p]
         /\ pending'[o] = ticks % SECOND
         /\ \E i \in FlushSlots :
              /\ flush[o][i].at = "none" /\ flush'[o][i].for = for
              /\ flush'[o][i].at = (IF ticks < SECOND THEN "flushed" ELSE "sent")
              /\ flush'[o][i].seconds = ticks \div SECOND
              /\ \A j \in FlushSlots \ {i} : flush'[o][j] = flush[o][j]
  <1>1. PICK i \in FlushSlots \ Flushing(o) :
          /\ pending' = [pending EXCEPT ![o] = ticks % SECOND]
          /\ flush' = [flush EXCEPT ![o][i] =
               [for |-> for, at |-> IF ticks < SECOND THEN "flushed" ELSE "sent",
                seconds |-> ticks \div SECOND, total |-> 0]]
    BY DEF StartFlush
  <1> DEFINE call == [for |-> for, at |-> IF ticks < SECOND THEN "flushed" ELSE "sent",
                      seconds |-> ticks \div SECOND, total |-> 0]
  <1>2. ticks % SECOND \in Nat /\ ticks \div SECOND \in Nat  BY WholeSeconds
  <1>3. call \in FlushCalls  BY <1>2 DEF FlushCalls
  <1>4. /\ call.for = for /\ call.at = (IF ticks < SECOND THEN "flushed" ELSE "sent")
        /\ call.seconds = ticks \div SECOND
    OBVIOUS
  <1>5. flush' = [flush EXCEPT ![o] = [flush[o] EXCEPT ![i] = call]]  BY <1>1
  <1> HIDE DEF call
  <1>6. flush[o] \in [FlushSlots -> FlushCalls]  BY DEF UsageTypes
  <1>7. /\ flush' \in [Objects -> [FlushSlots -> FlushCalls]]
        /\ \A p \in Objects \ {o} : flush'[p] = flush[p]
        /\ flush'[o] = [flush[o] EXCEPT ![i] = call]
    BY <1>3, <1>5, <1>6 DEF UsageTypes
  <1>8. flush'[o][i] = call /\ \A j \in FlushSlots \ {i} : flush'[o][j] = flush[o][j]
    BY <1>6, <1>7
  <1>9. pending' \in [Objects -> Nat] /\ pending'[o] = ticks % SECOND
        /\ \A p \in Objects \ {o} : pending'[p] = pending[p]
    BY <1>1, <1>2 DEF UsageTypes
  <1>10. flush[o][i].at = "none"  BY <1>1 DEF Flushing
  <1> QED BY <1>4, <1>7, <1>8, <1>9, <1>10

\* A flush takes the ticks it is given: whole seconds go with it, the rest stays.
LEMMA FlushCounts ==
  ASSUME UsageTypes, UsageTypes', NEW o \in Objects, NEW for \in {"release", "alarm", "refresh"},
         NEW ticks \in Nat, StartFlush(o, for, ticks)
  PROVE  /\ pending'[o] + SECOND * Seconds(o, Sent(o))' = ticks + SECOND * Seconds(o, Sent(o))
         /\ for = "alarm" => \E i \in Flushing(o)' : flush'[o][i].for = "alarm"
         /\ \A i \in Flushing(o) : i \in Flushing(o)' /\ flush'[o][i] = flush[o][i]
  <1>1. pending'[o] = ticks % SECOND  BY FlushFrames
  <1>2. PICK i \in FlushSlots :
              /\ flush[o][i].at = "none" /\ flush'[o][i].for = for
              /\ flush'[o][i].at = (IF ticks < SECOND THEN "flushed" ELSE "sent")
              /\ flush'[o][i].seconds = ticks \div SECOND
              /\ \A j \in FlushSlots \ {i} : flush'[o][j] = flush[o][j]
    BY FlushFrames
  <1> DEFINE a == Seconds(o, Sent(o))
             b == Seconds(o, Sent(o))'
             n == IF flush'[o][i].at = "sent" THEN flush'[o][i].seconds ELSE 0
  <1>3. b + (IF flush[o][i].at = "sent" THEN flush[o][i].seconds ELSE 0) = a + n
    BY <1>2, SentChanges
  <1>4. a \in Nat /\ b \in Nat
    <2>1. UsageTypes' => ObjectSums'  BY SumsOfObject, PTL
    <2> QED BY <2>1, SumsOfObject DEF ObjectSums
  <1>5. n = ticks \div SECOND /\ n \in Nat
    BY <1>2, WholeSeconds
  <1> HIDE DEF a, b, n
  <1>6. b = a + n  BY <1>2, <1>3, <1>4, <1>5
  <1>7. SECOND * b = SECOND * a + SECOND * n /\ SECOND * a \in Nat
    BY <1>4, <1>5, <1>6, TimesNat, UsageConstants
  <1>8. SECOND * n + pending'[o] = ticks /\ SECOND * n \in Nat /\ pending'[o] \in Nat
    BY <1>1, <1>5, WholeSeconds, TimesNat, UsageConstants
  <1>9. pending'[o] + SECOND * b = ticks + SECOND * a  BY <1>7, <1>8
  <1>10. i \in Flushing(o)' /\ flush'[o][i].for = for  BY <1>2 DEF Flushing
  <1>11. \A j \in Flushing(o) : j \in Flushing(o)' /\ flush'[o][j] = flush[o][j]
    BY <1>2 DEF Flushing
  <1> QED BY <1>9, <1>10, <1>11 DEF a, b

LEMMA WokenStays ==
  ASSUME Woken, NEW o \in Objects, Apart(o), Long(o)' # {} => Waking(o)'
  PROVE  Woken'
  BY DEF Woken, Waking, Apart, Long, Flushing

LEMMA ObjectTyped ==
  ASSUME UsageTypes, NEW o \in Objects
  PROVE  /\ pending[o] \in Nat /\ Accrued(o) \in Nat /\ Seconds(o, Sent(o)) \in Nat
         /\ SECOND * Seconds(o, Sent(o)) \in Nat
         /\ unaccrued[o] \in [LongSlots -> 0 .. Absent] /\ flush[o] \in [FlushSlots -> FlushCalls]
         /\ \A s \in LongSlots : unaccrued[o][s] \in Nat
         /\ \A i \in FlushSlots : flush[o][i] \in FlushCalls /\ flush[o][i].seconds \in Nat
                                   /\ SECOND * flush[o][i].seconds \in Nat
  <1>1. pending[o] \in Nat /\ Accrued(o) \in Nat /\ Seconds(o, Sent(o)) \in Nat
    BY SumsOfObject DEF ObjectSums, UsageTypes
  <1>2. SECOND * Seconds(o, Sent(o)) \in Nat  BY <1>1, TimesNat, UsageConstants
  <1>3. unaccrued[o] \in [LongSlots -> 0 .. Absent] /\ flush[o] \in [FlushSlots -> FlushCalls]
    BY DEF UsageTypes
  <1>4. \A s \in LongSlots : unaccrued[o][s] \in Nat  BY <1>3, UsageConstants
  <1>5. \A i \in FlushSlots : flush[o][i] \in FlushCalls /\ flush[o][i].seconds \in Nat
    BY <1>3 DEF FlushCalls
  <1>6. \A i \in FlushSlots : SECOND * flush[o][i].seconds \in Nat
    BY <1>5, TimesNat, UsageConstants
  <1> QED BY <1>1, <1>2, <1>3, <1>4, <1>5, <1>6

LEMMA ObjectTypedNext ==
  ASSUME UsageTypes', NEW o \in Objects
  PROVE  /\ pending'[o] \in Nat /\ Accrued(o)' \in Nat /\ Seconds(o, Sent(o))' \in Nat
         /\ SECOND * Seconds(o, Sent(o))' \in Nat
  <1>1. UsageTypes' => ObjectSums'  BY SumsOfObject, PTL
  <1>2. pending'[o] \in Nat /\ Accrued(o)' \in Nat /\ Seconds(o, Sent(o))' \in Nat
    BY <1>1 DEF ObjectSums, UsageTypes
  <1> QED BY <1>2, TimesNat, UsageConstants

\* Of a call, the place changes, and perhaps the total.
LEMMA CallMoves ==
  ASSUME UsageTypes, NEW o \in Objects, NEW i \in FlushSlots, NEW call \in FlushCalls,
         flush' = [flush EXCEPT ![o][i] = call]
  PROVE  /\ flush' \in [Objects -> [FlushSlots -> FlushCalls]]
         /\ flush'[o][i] = call /\ \A j \in FlushSlots \ {i} : flush'[o][j] = flush[o][j]
         /\ \A p \in Objects \ {o} : flush'[p] = flush[p]
  <1>1. flush' = [flush EXCEPT ![o] = [flush[o] EXCEPT ![i] = call]]  OBVIOUS
  <1>2. flush[o] \in [FlushSlots -> FlushCalls]  BY DEF UsageTypes
  <1> QED BY <1>1, <1>2 DEF UsageTypes

\* A stream has lasted no longer than what is due.
LEMMA TicksAreDue ==
  ASSUME UsageTypes, Counted, NEW o \in Objects, NEW s \in Long(o)
  PROVE  unaccrued[o][s] <= due
  <1> DEFINE f == [p \in Objects |-> Unflushed(p)]
  <1>1. f \in [Objects -> Nat]
    <2>1. \A p \in Objects : Unflushed(p) \in Nat  BY SumsOfObject DEF ObjectSums
    <2> QED BY <2>1
  <1>2. f[o] = Unflushed(o) /\ SECOND * usageRow + SumFunction(f) = due  BY DEF Counted
  <1> HIDE DEF f
  <1>3. f[o] <= SumFunction(f) /\ SumFunction(f) \in Nat /\ f[o] \in Nat
    BY <1>1, SumAtLeast, SumIsNat, UsageConstants
  <1>4. SECOND * usageRow \in Nat  BY TimesNat, UsageConstants DEF UsageTypes
  <1>5. Unflushed(o) <= due  BY <1>2, <1>3, <1>4 DEF Counted
  <1>6. s \in LongSlots /\ Ticks(o)[s] = unaccrued[o][s]  BY DEF Ticks, Long
  <1>7. Ticks(o)[s] <= Accrued(o)
    <2>1. Ticks(o) \in [LongSlots -> Nat] /\ Accrued(o) = SumFunction(Ticks(o))
      BY SumsOfObject DEF ObjectSums
    <2> QED BY <1>6, <2>1, SumAtLeast, UsageConstants
  <1>8. Accrued(o) <= Unflushed(o) /\ Unflushed(o) \in Nat /\ Accrued(o) \in Nat
    BY ObjectTyped DEF Unflushed
  <1>9. unaccrued[o][s] \in Nat /\ due \in Nat  BY <1>6, ObjectTyped DEF Counted
  <1> QED BY <1>5, <1>6, <1>7, <1>8, <1>9

LEMMA AdmitCounts ==
  ASSUME UsageInv, NEW o \in Objects, NEW s \in LongSlots, AdmitLong(o, s)
  PROVE  UsageInv'
  <1>a. UsageTypes /\ Counted /\ Woken  BY DEF UsageInv
  <1>1. /\ unaccrued[o][s] = Absent /\ unaccrued' = [unaccrued EXCEPT ![o][s] = 0]
        /\ alarm' = [alarm EXCEPT ![o] = TRUE] /\ UNCHANGED <<usageRow, known, due>>
    BY DEF AdmitLong, Long
  <1>2. /\ unaccrued' \in [Objects -> [LongSlots -> 0 .. Absent]]
        /\ unaccrued'[o][s] = 0 /\ \A t \in LongSlots \ {s} : unaccrued'[o][t] = unaccrued[o][t]
        /\ \A p \in Objects \ {o} : unaccrued'[p] = unaccrued[p]
    <2>1. unaccrued' = [unaccrued EXCEPT ![o] = [unaccrued[o] EXCEPT ![s] = 0]]  BY <1>1
    <2>2. 0 \in 0 .. Absent  BY UsageConstants
    <2> QED BY <1>a, <2>1, <2>2, ObjectTyped DEF UsageTypes
  <1>3. alarm' \in [Objects -> BOOLEAN] /\ alarm'[o] /\ \A p \in Objects \ {o} : alarm'[p] = alarm[p]
    BY <1>a, <1>1 DEF UsageTypes
  <1>4. pending[o] \in Nat  BY <1>a, ObjectTyped
  <1>5. StartFlush(o, "refresh", pending[o]) \/ UNCHANGED <<pending, flush>>
    BY DEF AdmitLong
  <1>6. /\ pending' \in [Objects -> Nat] /\ flush' \in [Objects -> [FlushSlots -> FlushCalls]]
        /\ \A p \in Objects \ {o} : pending'[p] = pending[p] /\ flush'[p] = flush[p]
    BY <1>a, <1>4, <1>5, FlushFrames DEF UsageTypes
  <1>7. UsageTypes'  BY <1>a, <1>1, <1>2, <1>3, <1>6 DEF UsageTypes
  <1>8. Apart(o)  BY <1>2, <1>3, <1>6 DEF Apart
  <1>9. Accrued(o)' = Accrued(o)
    <2>1. Accrued(o)' + (IF unaccrued[o][s] # Absent THEN unaccrued[o][s] ELSE 0)
            = Accrued(o) + (IF unaccrued'[o][s] # Absent THEN unaccrued'[o][s] ELSE 0)
      BY <1>a, <1>2, <1>7, AccruedChanges
    <2>2. Accrued(o)' \in Nat  BY <1>7, ObjectTypedNext
    <2>3. Accrued(o)' + 0 = Accrued(o) + 0  BY <1>1, <1>2, <2>1
    <2> QED BY <1>a, <2>2, <2>3, ObjectTyped
  <1>10. pending'[o] + SECOND * Seconds(o, Sent(o))' = pending[o] + SECOND * Seconds(o, Sent(o))
    <2>1. CASE StartFlush(o, "refresh", pending[o])
      BY <1>a, <1>4, <1>7, <2>1, FlushCounts
    <2>2. CASE UNCHANGED <<pending, flush>>
      BY <2>2 DEF Seconds, Sent
    <2> QED BY <1>5, <2>1, <2>2
  <1>11. Unflushed(o)' = Unflushed(o)
    BY <1>a, <1>7, <1>9, <1>10, ObjectTyped, ObjectTypedNext DEF Unflushed
  <1>12. Counted'
    BY <1>a, <1>1, <1>7, <1>8, <1>11, ObjectCounts DEF Counted
  <1>13. Woken'  BY <1>a, <1>3, <1>8, WokenStays DEF Waking
  <1> QED BY <1>7, <1>12, <1>13 DEF UsageInv

LEMMA LastsCounts ==
  ASSUME UsageInv, NEW o \in Objects, NEW s \in LongSlots, StreamLasts(o, s)
  PROVE  UsageInv'
  <1>a. UsageTypes /\ Counted /\ Woken  BY DEF UsageInv
  <1>1. /\ s \in Long(o) /\ unaccrued[o][s] # Absent /\ due < MAX_TICKS /\ due' = due + 1
        /\ unaccrued' = [unaccrued EXCEPT ![o][s] = @ + 1]
        /\ UNCHANGED <<usageRow, pending, known, alarm, flush>>
    BY DEF StreamLasts, Long
  <1> DEFINE n == unaccrued[o][s]
  <1>2. n \in Nat /\ n <= due /\ due \in Nat
    BY <1>a, <1>1, TicksAreDue, ObjectTyped DEF Counted
  <1>3. n + 1 \in 0 .. Absent /\ n + 1 # Absent  BY <1>1, <1>2, UsageConstants
  <1>4. /\ unaccrued' \in [Objects -> [LongSlots -> 0 .. Absent]]
        /\ unaccrued'[o][s] = n + 1 /\ \A t \in LongSlots \ {s} : unaccrued'[o][t] = unaccrued[o][t]
        /\ \A p \in Objects \ {o} : unaccrued'[p] = unaccrued[p]
    <2>1. unaccrued' = [unaccrued EXCEPT ![o] = [unaccrued[o] EXCEPT ![s] = n + 1]]
      BY <1>1
    <2> HIDE DEF n
    <2> QED BY <1>a, <1>3, <2>1, ObjectTyped DEF UsageTypes
  <1>5. UsageTypes'  BY <1>a, <1>1, <1>4 DEF UsageTypes
  <1>6. Apart(o)  BY <1>1, <1>4 DEF Apart
  <1>7. Accrued(o)' = Accrued(o) + 1
    <2>1. Accrued(o)' + (IF unaccrued[o][s] # Absent THEN unaccrued[o][s] ELSE 0)
            = Accrued(o) + (IF unaccrued'[o][s] # Absent THEN unaccrued'[o][s] ELSE 0)
      BY <1>a, <1>4, <1>5, AccruedChanges
    <2>2. Accrued(o)' + n = Accrued(o) + (n + 1)  BY <1>1, <1>3, <1>4, <2>1
    <2> HIDE DEF n
    <2> QED BY <1>a, <1>2, <1>5, <2>2, ObjectTyped, ObjectTypedNext
  <1>8. Seconds(o, Sent(o))' = Seconds(o, Sent(o))  BY <1>1 DEF Seconds, Sent
  <1>9. Unflushed(o)' = Unflushed(o) + 1 /\ Unflushed(o) \in Nat
    <2>1. /\ Unflushed(o)' = pending[o] + (Accrued(o) + 1) + SECOND * Seconds(o, Sent(o))
          /\ Unflushed(o) = pending[o] + Accrued(o) + SECOND * Seconds(o, Sent(o))
      BY <1>1, <1>7, <1>8 DEF Unflushed
    <2> QED BY <1>a, <2>1, ObjectTyped
  <1>10. SECOND * usageRow \in Nat  BY <1>a, TimesNat, UsageConstants DEF UsageTypes
  <1>11. Counted'  BY <1>a, <1>1, <1>2, <1>5, <1>6, <1>9, <1>10, ObjectCounts
  <1>12. Woken'
    <2>1. Waking(o)  BY <1>a, <1>1 DEF Woken
    <2>2. Waking(o)'  BY <1>1, <2>1 DEF Waking, Flushing
    <2> QED BY <1>a, <1>6, <2>2, WokenStays
  <1> QED BY <1>5, <1>11, <1>12 DEF UsageInv

LEMMA ReleaseCounts ==
  ASSUME UsageInv, NEW o \in Objects, NEW s \in LongSlots, ReleaseLong(o, s)
  PROVE  UsageInv'
  <1>a. UsageTypes /\ Counted /\ Woken  BY DEF UsageInv
  <1> DEFINE n == unaccrued[o][s]
  <1>1. /\ s \in Long(o) /\ n # Absent /\ unaccrued' = [unaccrued EXCEPT ![o][s] = Absent]
        /\ StartFlush(o, "release", pending[o] + n) /\ UNCHANGED <<usageRow, known, alarm, due>>
    BY DEF ReleaseLong, Long
  <1>2. n \in Nat /\ pending[o] \in Nat /\ pending[o] + n \in Nat  BY <1>a, ObjectTyped
  <1>3. /\ unaccrued' \in [Objects -> [LongSlots -> 0 .. Absent]]
        /\ unaccrued'[o][s] = Absent
        /\ \A t \in LongSlots \ {s} : unaccrued'[o][t] = unaccrued[o][t]
        /\ \A p \in Objects \ {o} : unaccrued'[p] = unaccrued[p]
    <2>1. unaccrued' = [unaccrued EXCEPT ![o] = [unaccrued[o] EXCEPT ![s] = Absent]]
      BY <1>1
    <2>2. Absent \in 0 .. Absent  BY UsageConstants
    <2> QED BY <1>a, <2>1, <2>2, ObjectTyped DEF UsageTypes
  <1>4. /\ pending' \in [Objects -> Nat] /\ flush' \in [Objects -> [FlushSlots -> FlushCalls]]
        /\ \A p \in Objects \ {o} : pending'[p] = pending[p] /\ flush'[p] = flush[p]
    BY <1>a, <1>1, <1>2, FlushFrames
  <1>5. UsageTypes'  BY <1>a, <1>1, <1>3, <1>4 DEF UsageTypes
  <1>6. Apart(o)  BY <1>1, <1>3, <1>4 DEF Apart
  <1>7. Accrued(o)' + n = Accrued(o)
    <2>1. Accrued(o)' + (IF unaccrued[o][s] # Absent THEN unaccrued[o][s] ELSE 0)
            = Accrued(o) + (IF unaccrued'[o][s] # Absent THEN unaccrued'[o][s] ELSE 0)
      BY <1>a, <1>3, <1>5, AccruedChanges
    <2>2. Accrued(o)' + n = Accrued(o) + 0  BY <1>1, <1>3, <2>1
    <2> HIDE DEF n
    <2> QED BY <1>a, <2>2, ObjectTyped
  <1>8. /\ pending'[o] + SECOND * Seconds(o, Sent(o))' = pending[o] + n + SECOND * Seconds(o, Sent(o))
        /\ \A i \in Flushing(o) : i \in Flushing(o)' /\ flush'[o][i] = flush[o][i]
    BY <1>a, <1>1, <1>2, <1>5, FlushCounts
  <1> HIDE DEF n
  <1>9. Unflushed(o)' = Unflushed(o) /\ Unflushed(o) \in Nat
    BY <1>a, <1>2, <1>5, <1>7, <1>8, ObjectTyped, ObjectTypedNext DEF Unflushed
  <1>10. Counted'  BY <1>a, <1>1, <1>5, <1>6, <1>9, ObjectCounts DEF Counted
  <1>11. Woken'
    <2>1. Waking(o)  BY <1>a, <1>1 DEF Woken
    <2>2. Waking(o)'  BY <1>1, <1>8, <2>1 DEF Waking
    <2> QED BY <1>a, <1>6, <2>2, WokenStays
  <1> QED BY <1>5, <1>10, <1>11 DEF UsageInv

LEMMA AlarmCounts ==
  ASSUME UsageInv, NEW o \in Objects, Alarm(o)
  PROVE  UsageInv'
  <1>a. UsageTypes /\ Counted /\ Woken  BY DEF UsageInv
  <1> DEFINE n == Accrued(o)
  <1>1. /\ alarm' = [alarm EXCEPT ![o] = FALSE] /\ unaccrued' = [unaccrued EXCEPT ![o] = Anew(o)]
        /\ StartFlush(o, "alarm", pending[o] + n) /\ UNCHANGED <<usageRow, known, due>>
    BY DEF Alarm
  <1>2. n \in Nat /\ pending[o] \in Nat /\ pending[o] + n \in Nat  BY <1>a, ObjectTyped
  <1>3. /\ unaccrued' \in [Objects -> [LongSlots -> 0 .. Absent]]
        /\ \A s \in LongSlots : unaccrued'[o][s] \in {0, Absent}
        /\ \A p \in Objects \ {o} : unaccrued'[p] = unaccrued[p]
    <2>1. Anew(o) \in [LongSlots -> {0, Absent}] /\ {0, Absent} \subseteq 0 .. Absent
      BY UsageConstants DEF Anew
    <2> QED BY <1>a, <1>1, <2>1 DEF UsageTypes
  <1>4. /\ pending' \in [Objects -> Nat] /\ flush' \in [Objects -> [FlushSlots -> FlushCalls]]
        /\ \A p \in Objects \ {o} : pending'[p] = pending[p] /\ flush'[p] = flush[p]
    BY <1>a, <1>1, <1>2, FlushFrames
  <1>5. alarm' \in [Objects -> BOOLEAN] /\ \A p \in Objects \ {o} : alarm'[p] = alarm[p]
    BY <1>a, <1>1 DEF UsageTypes
  <1>6. UsageTypes'  BY <1>a, <1>1, <1>3, <1>4, <1>5 DEF UsageTypes
  <1>7. Apart(o)  BY <1>3, <1>4, <1>5 DEF Apart
  <1>8. Accrued(o)' = 0  BY <1>3, <1>6, NoneAccrued
  <1>9. /\ pending'[o] + SECOND * Seconds(o, Sent(o))' = pending[o] + n + SECOND * Seconds(o, Sent(o))
        /\ \E i \in Flushing(o)' : flush'[o][i].for = "alarm"
    BY <1>a, <1>1, <1>2, <1>6, FlushCounts
  <1>10. Unflushed(o)' = Unflushed(o) /\ Unflushed(o) \in Nat
    BY <1>a, <1>2, <1>6, <1>8, <1>9, ObjectTyped, ObjectTypedNext DEF Unflushed
  <1>11. Counted'  BY <1>a, <1>1, <1>6, <1>7, <1>10, ObjectCounts DEF Counted
  <1>12. Woken'  BY <1>a, <1>7, <1>9, WokenStays DEF Waking
  <1> QED BY <1>6, <1>11, <1>12 DEF UsageInv

\* A step of one call, which leaves the streams alone: what the call no longer
\* carries is in pending, in the row, or is due again.
Carried(call) == SECOND * (IF call.at = "sent" THEN call.seconds ELSE 0)

LEMMA CallCounts ==
  ASSUME UsageInv, NEW o \in Objects, NEW i \in FlushSlots, NEW call \in FlushCalls,
         flush' = [flush EXCEPT ![o][i] = call], UNCHANGED unaccrued,
         usageRow' \in Nat, known' \in [Objects -> Nat],
         pending' \in [Objects -> Nat], alarm' \in [Objects -> BOOLEAN],
         \A p \in Objects \ {o} : pending'[p] = pending[p] /\ alarm'[p] = alarm[p],
         due' \in Int,
         SECOND * usageRow' + pending'[o] + Carried(call) + due
           = SECOND * usageRow + pending[o] + Carried(flush[o][i]) + due',
         Long(o) # {} /\ Waking(o) => Waking(o)'
  PROVE  UsageInv'
  <1>a. UsageTypes /\ Counted /\ Woken  BY DEF UsageInv
  <1>1. /\ flush' \in [Objects -> [FlushSlots -> FlushCalls]]
        /\ flush'[o][i] = call /\ \A j \in FlushSlots \ {i} : flush'[o][j] = flush[o][j]
        /\ \A p \in Objects \ {o} : flush'[p] = flush[p]
    BY <1>a, CallMoves
  <1>2. UsageTypes'  BY <1>a, <1>1 DEF UsageTypes
  <1>3. Apart(o)  BY <1>1 DEF Apart
  <1> DEFINE a == Seconds(o, Sent(o))
             b == Seconds(o, Sent(o))'
             x == IF flush[o][i].at = "sent" THEN flush[o][i].seconds ELSE 0
             y == IF call.at = "sent" THEN call.seconds ELSE 0
             n == Carried(flush[o][i])
             m == Carried(call)
  <1>4. b + x = a + y  BY <1>a, <1>1, <1>2, SentChanges
  <1>5. x \in Nat /\ y \in Nat /\ a \in Nat /\ b \in Nat
    BY <1>a, <1>2, ObjectTyped, ObjectTypedNext DEF FlushCalls
  <1>6. n = SECOND * x /\ m = SECOND * y  BY DEF Carried
  <1>7. Accrued(o)' = Accrued(o)  BY DEF Accrued, Long
  <1>8. /\ Unflushed(o) = pending[o] + Accrued(o) + SECOND * a
        /\ Unflushed(o)' = pending'[o] + Accrued(o) + SECOND * b
    BY <1>7 DEF Unflushed
  <1>c. SECOND * usageRow' + pending'[o] + m + due = SECOND * usageRow + pending[o] + n + due'
    OBVIOUS
  <1> HIDE DEF a, b, x, y, n, m
  <1>9. SECOND * b + n = SECOND * a + m
    <2>1. SECOND * (b + x) = SECOND * (a + y)  BY <1>4
    <2>2. /\ SECOND * (b + x) = SECOND * b + SECOND * x
          /\ SECOND * (a + y) = SECOND * a + SECOND * y
      BY <1>5, TimesSum, UsageConstants
    <2> QED BY <1>6, <2>1, <2>2
  <1>10. /\ SECOND * a \in Nat /\ SECOND * b \in Nat
         /\ SECOND * usageRow \in Nat /\ SECOND * usageRow' \in Nat
    BY <1>a, <1>5, TimesNat, UsageConstants DEF UsageTypes
  <1>11. pending[o] \in Nat /\ pending'[o] \in Nat /\ Accrued(o) \in Nat /\ due \in Nat
    BY <1>a, ObjectTyped DEF Counted
  <1>12. SECOND * usageRow' + Unflushed(o)' + due = SECOND * usageRow + Unflushed(o) + due'
    <2>1. n \in Nat /\ m \in Nat  BY <1>5, <1>6, TimesNat, UsageConstants
    <2>2. due' \in Int  OBVIOUS
    <2> QED BY <1>8, <1>9, <1>10, <1>11, <1>c, <2>1, <2>2
  <1>13. Counted'  BY <1>a, <1>2, <1>3, <1>12, ObjectCounts
  <1>14. Woken'
    <2>1. Long(o)' = Long(o)  BY DEF Long
    <2>2. Long(o) # {} => Waking(o)  BY <1>a DEF Woken
    <2> QED BY <1>a, <1>3, <2>1, <2>2, WokenStays
  <1> QED BY <1>2, <1>13, <1>14 DEF UsageInv

LEMMA UsageStep ==
  ASSUME UsageInv, [UsageNext]_usageVars
  PROVE  UsageInv'
  <1>a. UsageTypes /\ Counted /\ Woken  BY DEF UsageInv
  <1>b. 0 \in Nat /\ SECOND * 0 = 0  BY UsageConstants
  <1>1. ASSUME NEW o \in Objects, NEW i \in FlushSlots, AddUsage(o, i) PROVE UsageInv'
    <2> DEFINE f == flush[o][i]
               call == [f EXCEPT !.at = "written", !.total = usageRow']
               n == SECOND * f.seconds
    <2>1. /\ f.at = "sent" /\ usageRow' = usageRow + f.seconds /\ flush' = [flush EXCEPT ![o][i] = call]
          /\ UNCHANGED <<unaccrued, pending, known, alarm, due>>
      BY <1>1 DEF AddUsage
    <2>2. f \in FlushCalls /\ f.seconds \in Nat /\ n \in Nat  BY <1>a, ObjectTyped
    <2>3. usageRow' \in Nat /\ usageRow \in Nat  BY <1>a, <2>1, <2>2 DEF UsageTypes
    <2>4. call \in FlushCalls /\ call.at = "written" /\ call.for = f.for
      BY <2>2, <2>3 DEF FlushCalls
    <2>5. SECOND * usageRow' = SECOND * usageRow + n
      BY <2>1, <2>2, <2>3, TimesSum, UsageConstants
    <2>6. Waking(o) => Waking(o)'
      <3>1. /\ flush'[o][i] = call /\ \A j \in FlushSlots \ {i} : flush'[o][j] = flush[o][j]
        BY <1>a, <2>1, <2>4, CallMoves
      <3> QED BY <2>1, <2>4, <3>1 DEF Waking, Flushing
    <2>7. SECOND * usageRow \in Nat /\ pending[o] \in Nat /\ due \in Nat
      BY <1>a, <2>3, TimesNat, UsageConstants DEF UsageTypes, Counted
    <2>8. Carried(flush[o][i]) = n  BY <2>1 DEF Carried
    <2>9. Carried(call) = 0  BY <1>b, <2>4 DEF Carried
    <2> HIDE DEF f, call, n
    <2>10. SECOND * usageRow' + pending'[o] + Carried(call) + due
             = SECOND * usageRow + pending[o] + Carried(flush[o][i]) + due'
      BY <2>1, <2>2, <2>5, <2>7, <2>8, <2>9
    <2>11. /\ known' \in [Objects -> Nat] /\ pending' \in [Objects -> Nat]
           /\ alarm' \in [Objects -> BOOLEAN] /\ due' \in Int
           /\ \A p \in Objects \ {o} : pending'[p] = pending[p] /\ alarm'[p] = alarm[p]
      BY <1>a, <2>1, <2>7 DEF UsageTypes
    <2> QED BY <1>b, <2>1, <2>2, <2>3, <2>4, <2>6, <2>8, <2>9, <2>10, <2>11, CallCounts
  <1>2. ASSUME NEW o \in Objects, NEW i \in FlushSlots, Added(o, i) PROVE UsageInv'
    <2> DEFINE f == flush[o][i]
               call == [f EXCEPT !.at = "flushed"]
    <2>1. /\ f.at = "written" /\ known' = [known EXCEPT ![o] = f.total]
          /\ flush' = [flush EXCEPT ![o][i].at = "flushed"]
          /\ UNCHANGED <<usageRow, unaccrued, pending, alarm, due>>
      BY <1>2 DEF Added
    <2>2. flush' = [flush EXCEPT ![o][i] = call]  BY <2>1
    <2>3. f \in FlushCalls /\ f.total \in Nat  BY <1>a, ObjectTyped DEF FlushCalls
    <2>4. call \in FlushCalls /\ call.at = "flushed" /\ call.for = f.for
      BY <2>3 DEF FlushCalls
    <2>5. Waking(o) => Waking(o)'
      <3>1. /\ flush'[o][i] = call /\ \A j \in FlushSlots \ {i} : flush'[o][j] = flush[o][j]
        BY <1>a, <2>2, <2>4, CallMoves
      <3> QED BY <2>1, <2>4, <3>1 DEF Waking, Flushing
    <2>6. Carried(flush[o][i]) = 0  BY <1>b, <2>1 DEF Carried
    <2>7. Carried(call) = 0  BY <1>b, <2>4 DEF Carried
    <2>8. /\ known' \in [Objects -> Nat] /\ pending' \in [Objects -> Nat] /\ usageRow' \in Nat
          /\ alarm' \in [Objects -> BOOLEAN] /\ due' \in Int
          /\ \A p \in Objects \ {o} : pending'[p] = pending[p] /\ alarm'[p] = alarm[p]
      BY <1>a, <2>1, <2>3 DEF UsageTypes, Counted
    <2>9. SECOND * usageRow' + pending'[o] + Carried(call) + due
            = SECOND * usageRow + pending[o] + Carried(flush[o][i]) + due'
      BY <2>1, <2>6, <2>7
    <2> HIDE DEF f, call
    <2> QED BY <1>b, <2>1, <2>2, <2>4, <2>5, <2>6, <2>7, <2>8, <2>9, CallCounts
  <1>3. ASSUME NEW o \in Objects, NEW i \in FlushSlots, FlushFails(o, i) PROVE UsageInv'
    <2> DEFINE f == flush[o][i]
               call == [f EXCEPT !.at = "flushed"]
               n == SECOND * f.seconds
    <2>1. /\ f.at \in {"sent", "written"} /\ pending' = [pending EXCEPT ![o] = @ + n]
          /\ due' = (IF f.at = "written" THEN due + n ELSE due)
          /\ flush' = [flush EXCEPT ![o][i].at = "flushed"]
          /\ UNCHANGED <<usageRow, unaccrued, known, alarm>>
      BY <1>3 DEF FlushFails
    <2>2. flush' = [flush EXCEPT ![o][i] = call]  BY <2>1
    <2>3. f \in FlushCalls /\ n \in Nat  BY <1>a, ObjectTyped
    <2>4. call \in FlushCalls /\ call.at = "flushed" /\ call.for = f.for
      BY <2>3 DEF FlushCalls
    <2>5. Waking(o) => Waking(o)'
      <3>1. /\ flush'[o][i] = call /\ \A j \in FlushSlots \ {i} : flush'[o][j] = flush[o][j]
        BY <1>a, <2>2, <2>4, CallMoves
      <3> QED BY <2>1, <2>4, <3>1 DEF Waking, Flushing
    <2> DEFINE k == IF f.at = "sent" THEN n ELSE 0
    <2>6. Carried(flush[o][i]) = k /\ k \in Nat  BY <1>b, <2>3 DEF Carried
    <2>7. Carried(call) = 0  BY <1>b, <2>4 DEF Carried
    <2>8. due' = due + (n - k)  BY <1>a, <2>1, <2>3 DEF Counted
    <2> HIDE DEF f, call, n, k
    <2>9. /\ known' \in [Objects -> Nat] /\ pending' \in [Objects -> Nat] /\ usageRow' \in Nat
          /\ alarm' \in [Objects -> BOOLEAN] /\ due' \in Int /\ pending[o] \in Nat /\ due \in Nat
          /\ pending'[o] = pending[o] + n
          /\ \A p \in Objects \ {o} : pending'[p] = pending[p] /\ alarm'[p] = alarm[p]
      BY <1>a, <2>1, <2>3, <2>6, <2>8 DEF UsageTypes, Counted
    <2>10. SECOND * usageRow \in Nat  BY <1>a, TimesNat, UsageConstants DEF UsageTypes
    <2>11. SECOND * usageRow' + pending'[o] + Carried(call) + due
             = SECOND * usageRow + pending[o] + Carried(flush[o][i]) + due'
      BY <2>1, <2>3, <2>6, <2>7, <2>8, <2>9, <2>10
    <2>12. UNCHANGED unaccrued  BY <2>1
    <2> QED BY <2>2, <2>4, <2>5, <2>9, <2>11, <2>12, CallCounts
  <1>4. ASSUME NEW o \in Objects, NEW i \in FlushSlots, Flushed(o, i) PROVE UsageInv'
    <2>1. /\ flush[o][i].at = "flushed" /\ flush' = [flush EXCEPT ![o][i] = NoFlush]
          /\ alarm' = (IF flush[o][i].for = "alarm" /\ Rearm(o) THEN [alarm EXCEPT ![o] = TRUE] ELSE alarm)
          /\ known' \in {known, [known EXCEPT ![o] = usageRow]}
          /\ UNCHANGED <<usageRow, unaccrued, pending, due>>
      BY <1>4 DEF Flushed
    <2>2. NoFlush \in FlushCalls /\ NoFlush.at = "none"  BY DEF NoFlush, FlushCalls
    <2>3. /\ alarm' \in [Objects -> BOOLEAN] /\ \A p \in Objects \ {o} : alarm'[p] = alarm[p]
          /\ alarm[o] => alarm'[o]
          /\ flush[o][i].for = "alarm" /\ Long(o) # {} => alarm'[o]
      BY <1>a, <2>1 DEF UsageTypes, Rearm
    <2>4. Long(o) # {} /\ Waking(o) => Waking(o)'
      <3>1. \A j \in FlushSlots \ {i} : flush'[o][j] = flush[o][j]
        BY <1>a, <2>1, <2>2, CallMoves
      <3> QED BY <2>3, <3>1 DEF Waking, Flushing
    <2>5. Carried(flush[o][i]) = 0  BY <1>b, <2>1 DEF Carried
    <2>6. Carried(NoFlush) = 0  BY <1>b, <2>2 DEF Carried
    <2>7. /\ known' \in [Objects -> Nat] /\ pending' \in [Objects -> Nat] /\ usageRow' \in Nat
          /\ due' \in Int /\ \A p \in Objects \ {o} : pending'[p] = pending[p]
      BY <1>a, <2>1 DEF UsageTypes, Counted
    <2>8. SECOND * usageRow' + pending'[o] + Carried(NoFlush) + due
            = SECOND * usageRow + pending[o] + Carried(flush[o][i]) + due'
      BY <2>1, <2>5, <2>6
    <2> QED BY <1>b, <2>1, <2>2, <2>3, <2>4, <2>5, <2>6, <2>7, <2>8, CallCounts
  <1>5. ASSUME NEW o \in Objects, ReadsUsage(o) PROVE UsageInv'
    <2>1. /\ known' \in [Objects -> Nat] /\ UNCHANGED <<usageRow, unaccrued, pending, alarm, flush, due>>
      BY <1>5, <1>a DEF ReadsUsage, UsageTypes
    <2>2. UsageTypes' /\ Woken'
      BY <1>a, <2>1 DEF UsageTypes, Woken, Waking, Long, Flushing
    <2>3. Apart(o)  BY <2>1 DEF Apart
    <2>4. Unflushed(o)' = Unflushed(o)
      BY <2>1 DEF Unflushed, Accrued, Seconds, Sent, Long
    <2>5. Counted'  BY <1>a, <2>1, <2>2, <2>3, <2>4, ObjectCounts DEF Counted
    <2> QED BY <2>2, <2>5 DEF UsageInv
  <1>6. ASSUME NEW o \in Objects, ObjectReset(o) PROVE UsageInv'
    <2>1. PICK written \in SUBSET Sent(o) :
            /\ usageRow' = usageRow + Seconds(o, written)
            /\ due' = due - pending[o] - Accrued(o) - SECOND * Seconds(o, Sent(o) \ written)
            /\ unaccrued' = [unaccrued EXCEPT ![o] = [s \in LongSlots |-> Absent]]
            /\ pending' = [pending EXCEPT ![o] = 0]
            /\ flush' = [flush EXCEPT ![o] = [i \in FlushSlots |-> NoFlush]]
            /\ UNCHANGED <<known, alarm>>
      BY <1>6 DEF ObjectReset
    <2> DEFINE x == Seconds(o, written)
               y == Seconds(o, Sent(o) \ written)
               z == Seconds(o, Sent(o))
    <2>2. x \in Nat /\ y \in Nat /\ z \in Nat /\ z = x + y
      BY <1>a, SecondsSplit, SumsOfObject DEF ObjectSums
    <2>3. SECOND * z = SECOND * x + SECOND * y /\ SECOND * x \in Nat /\ SECOND * y \in Nat
      BY <2>2, TimesSum, TimesNat, UsageConstants
    <2>4. usageRow \in Nat /\ usageRow' \in Nat /\ SECOND * usageRow \in Nat
          /\ SECOND * usageRow' = SECOND * usageRow + SECOND * x
      BY <1>a, <2>1, <2>2, TimesSum, TimesNat, UsageConstants DEF UsageTypes
    <2>5. /\ unaccrued' \in [Objects -> [LongSlots -> 0 .. Absent]]
          /\ pending' \in [Objects -> Nat] /\ pending'[o] = 0
          /\ flush' \in [Objects -> [FlushSlots -> FlushCalls]]
      <3>1. NoFlush \in FlushCalls /\ Absent \in 0 .. Absent
        BY UsageConstants DEF NoFlush, FlushCalls
      <3>2. /\ [s \in LongSlots |-> Absent] \in [LongSlots -> 0 .. Absent]
            /\ [i \in FlushSlots |-> NoFlush] \in [FlushSlots -> FlushCalls]
        BY <3>1
      <3> QED BY <1>a, <2>1, <3>2 DEF UsageTypes
    <2>6. UsageTypes'  BY <1>a, <2>1, <2>4, <2>5 DEF UsageTypes
    <2>7. Apart(o)  BY <1>a, <2>1 DEF Apart, UsageTypes
    <2>8. unaccrued'[o] = [s \in LongSlots |-> Absent] /\ flush'[o] = [i \in FlushSlots |-> NoFlush]
      BY <1>a, <2>1 DEF UsageTypes
    <2>9. Accrued(o)' = 0  BY <2>6, <2>8, NoneAccrued
    <2>10. Long(o)' = {} /\ Sent(o)' = {}  BY <2>8 DEF Long, Sent, NoFlush
    <2>11. SECOND * Seconds(o, Sent(o))' = 0  BY <1>b, <2>6, <2>10, NoneSent
    <2>12. Unflushed(o)' = 0  BY <2>5, <2>9, <2>11 DEF Unflushed
    <2>13. Unflushed(o) = pending[o] + Accrued(o) + SECOND * z  BY DEF Unflushed
    <2>14. pending[o] \in Nat /\ Accrued(o) \in Nat /\ due \in Nat
      BY <1>a, ObjectTyped DEF Counted
    <2>15. due' = due - pending[o] - Accrued(o) - SECOND * y  BY <2>1
    <2> HIDE DEF x, y, z
    <2>16. due' \in Int  BY <2>3, <2>14, <2>15
    <2>17. SECOND * usageRow' + Unflushed(o)' + due = SECOND * usageRow + Unflushed(o) + due'
      BY <2>3, <2>4, <2>12, <2>13, <2>14, <2>15
    <2>18. Counted'  BY <1>a, <2>6, <2>7, <2>16, <2>17, ObjectCounts
    <2>19. Woken'  BY <1>a, <2>7, <2>10, WokenStays
    <2> QED BY <2>6, <2>18, <2>19 DEF UsageInv
  <1>7. CASE UNCHANGED usageVars
    <2>1. UsageTypes' /\ Woken'
      BY <1>a, <1>7 DEF usageVars, UsageTypes, Woken, Waking, Long, Flushing
    <2>2. Counted'
      BY <1>a, <1>7 DEF usageVars, Counted, Unflushed, Accrued, Seconds, Sent, Long
    <2> QED BY <2>1, <2>2 DEF UsageInv
  <1> QED BY <1>1, <1>2, <1>3, <1>4, <1>5, <1>6, <1>7,
             AdmitCounts, LastsCounts, ReleaseCounts, AlarmCounts DEF UsageNext

LEMMA UsageStart == UsageInit => UsageInv
  <1> SUFFICES ASSUME UsageInit PROVE UsageInv
    OBVIOUS
  <1>1. NoFlush \in FlushCalls /\ Absent \in 0 .. Absent
    BY UsageConstants DEF NoFlush, FlushCalls
  <1>2. UsageTypes  BY <1>1 DEF UsageInit, UsageTypes
  <1>3. \A o \in Objects : Long(o) = {} /\ Sent(o) = {}
    BY DEF UsageInit, Long, Sent, NoFlush
  <1>4. Woken  BY <1>3 DEF Woken
  <1> DEFINE f == [o \in Objects |-> Unflushed(o)]
  <1>5. \A o \in Objects : Unflushed(o) = 0
    <2> SUFFICES ASSUME NEW o \in Objects PROVE Unflushed(o) = 0
      OBVIOUS
    <2>1. /\ Ticks(o) \in [LongSlots -> Nat] /\ Accrued(o) = SumFunction(Ticks(o))
          /\ SentSeconds(o, Sent(o)) \in [FlushSlots -> Nat]
          /\ Seconds(o, Sent(o)) = SumFunction(SentSeconds(o, Sent(o)))
      BY <1>2, SumsOfObject DEF ObjectSums
    <2>2. /\ \A s \in LongSlots : Ticks(o)[s] = 0
          /\ \A i \in FlushSlots : SentSeconds(o, Sent(o))[i] = 0
      BY <1>3 DEF Ticks, SentSeconds
    <2>3. Accrued(o) = 0 /\ Seconds(o, Sent(o)) = 0
      BY <2>1, <2>2, SumOfZeros, UsageConstants
    <2>4. pending[o] = 0  BY DEF UsageInit
    <2> QED BY <2>3, <2>4, UsageConstants DEF Unflushed
  <1>6. f \in [Objects -> Nat] /\ \A o \in Objects : f[o] = 0  BY <1>5
  <1>7. Counted <=> due \in Nat /\ SECOND * usageRow + SumFunction(f) = due
    BY Zenon DEF Counted
  <1> HIDE DEF f
  <1>8. SumFunction(f) = 0  BY <1>6, SumOfZeros, UsageConstants
  <1>9. usageRow = 0 /\ due = 0  BY DEF UsageInit
  <1>10. Counted  BY <1>7, <1>8, <1>9, UsageConstants
  <1> QED BY <1>2, <1>4, <1>10 DEF UsageInv

\* However the flushes of all the objects of an account overlap, fail and are
\* lost: the row, the calls under way and the objects' memory add up to what is
\* due, and an object with a long stream is going to wake up for it.
THEOREM UsageAddsUp == UsageSpec => []UsageCounted
  <1>1. UsageInv => UsageCounted
    BY DEF UsageInv, Counted, Woken, Waking, UsageCounted
  <1> QED BY <1>1, UsageStart, UsageStep, PTL DEF UsageSpec

LEMMA UsageTypesHold == UsageInv => UsageTypeOK
  BY DEF UsageInv, UsageTypes, Counted, FlushCalls, UsageTypeOK

---------------------------------------------------------------------------
(* Abuse reports and trust.                                                *)

HandlerTypes ==
  handler \in [Handlers -> [at : HandlerAt, name : Reported \cup {NoReport.name}]]

\* A handler is at one of these places.
SomeAt(places) == \E c \in Handlers : handler[c].at \in places

Quarantined ==
  /\ quarantined \subseteq suspendedNames
  /\ IsFiniteSet(suspendedNames)

\* Until the trust, or the account, follows the quarantine, a handler is on its
\* way to see to it.
Followed ==
  ~excused =>
    /\ quarantined # {} => trust = "revoked" \/ SomeAt({"suspended"})
    /\ Cardinality(quarantined) >= 2 =>
         ownerStatus = "suspended" \/ SomeAt({"suspended", "untrusted", "counted"})

\* A revocation that the object, or a connect on its way, does not know of is
\* still in the outbox.
Announced ==
  trust = "revoked" =>
    /\ connecting = "trusted" => FALSE \in trustRows
    /\ trustedHere => FALSE \in trustRows \/ overtaken

ModerationInv == HandlerTypes /\ Quarantined /\ Followed /\ Announced

LEMMA HandlerComes ==
  ASSUME HandlerTypes, NEW c \in Handlers, NEW place \in HandlerAt, Comes(c, place)
  PROVE  /\ HandlerTypes' /\ handler'[c].at = place
         /\ \A d \in Handlers \ {c} : handler'[d] = handler[d]
  <1>1. CASE place = "idle"
    BY <1>1 DEF Comes, HandlerTypes, HandlerAt, NoReport
  <1>2. CASE place # "idle"
    <2>1. handler' = [handler EXCEPT ![c] = [handler[c] EXCEPT !.at = place]]
      BY <1>2 DEF Comes
    <2>2. handler[c] \in [at : HandlerAt, name : Reported \cup {NoReport.name}]
      BY DEF HandlerTypes
    <2>3. /\ [handler[c] EXCEPT !.at = place] \in [at : HandlerAt, name : Reported \cup {NoReport.name}]
          /\ [handler[c] EXCEPT !.at = place].at = place
      BY <2>2
    <2> QED BY <2>1, <2>3 DEF HandlerTypes
  <1> QED BY <1>1, <1>2

\* Fewer names in quarantine need no more than more of them did.
LEMMA FewerQuarantined ==
  ASSUME Quarantined, NEW S, S \subseteq quarantined
  PROVE  /\ IsFiniteSet(S) /\ IsFiniteSet(quarantined)
         /\ Cardinality(S) \in Nat /\ Cardinality(quarantined) \in Nat
         /\ Cardinality(S) <= Cardinality(quarantined)
         /\ Cardinality(suspendedNames) \in Nat
         /\ Cardinality(quarantined) <= Cardinality(suspendedNames)
  BY FS_Subset, FS_CardinalityType DEF Quarantined

\* A step that touches neither names, owner nor trust, of a handler that has
\* nothing to see to.
LEMMA NothingFollows ==
  ASSUME ModerationInv, NEW c \in Handlers, HandlerTypes',
         \A d \in Handlers \ {c} : handler'[d] = handler[d],
         handler[c].at \notin {"suspended", "untrusted", "counted"},
         UNCHANGED <<suspendedNames, quarantined, ownerVars, objectVars>>
  PROVE  ModerationInv'
  <1>1. \A S : SomeAt(S) /\ S \subseteq {"suspended", "untrusted", "counted"} => SomeAt(S)'
    BY DEF SomeAt
  <1>2. SomeAt({"suspended"}) => SomeAt({"suspended"})'
    BY <1>1
  <1>3. SomeAt({"suspended", "untrusted", "counted"}) => SomeAt({"suspended", "untrusted", "counted"})'
    BY <1>1
  <1>4. Quarantined' /\ Announced'
    BY DEF ModerationInv, Quarantined, Announced, ownerVars, objectVars
  <1>5. Followed'  BY <1>2, <1>3 DEF ModerationInv, Followed, ownerVars
  <1> QED BY <1>4, <1>5 DEF ModerationInv

LEMMA ModerationStep ==
  ASSUME ModerationInv, [ModerationNext]_moderationVars
  PROVE  ModerationInv'
  <1>a. HandlerTypes /\ Quarantined /\ Followed /\ Announced  BY DEF ModerationInv
  <1>b. {"idle", "young", "scored", "suspended", "untrusted", "counted"} \subseteq HandlerAt
    BY DEF HandlerAt
  <1>1. ASSUME NEW c \in Handlers, NEW n \in Reported, NEW r \in Reporters, FileReport(c, n, r)
        PROVE  ModerationInv'
    <2>1. handler[c].at = "idle"  BY <1>1 DEF FileReport, Unused, NoReport
    <2>2. handler' = [handler EXCEPT ![c] = [at |-> "reported", name |-> n]]
      BY <1>1 DEF FileReport
    <2>3. HandlerTypes' /\ \A d \in Handlers \ {c} : handler'[d] = handler[d]
      BY <1>a, <2>2 DEF HandlerTypes, HandlerAt
    <2> QED BY <1>1, <2>1, <2>3, NothingFollows DEF FileReport
  <1>2. ASSUME NEW c \in Handlers, ReadOwner(c) \/ ReadScore(c) PROVE ModerationInv'
    <2>1. /\ handler[c].at \in {"reported", "young"}
          /\ UNCHANGED <<suspendedNames, quarantined, ownerVars, objectVars>>
      BY <1>2 DEF ReadOwner, ReadScore
    <2>2. PICK place \in {"young", "idle", "scored"} : Comes(c, place)
      BY <1>2 DEF ReadOwner, ReadScore
    <2>3. HandlerTypes' /\ \A d \in Handlers \ {c} : handler'[d] = handler[d]
      BY <1>a, <1>b, <2>2, HandlerComes
    <2> QED BY <2>1, <2>3, NothingFollows
  <1>3. ASSUME NEW c \in Handlers, Quarantine(c) PROVE ModerationInv'
    <2> DEFINE n == handler[c].name
    <2>1. handler[c].at = "scored" /\ suspendedNames' = suspendedNames \cup {n}
          /\ UNCHANGED <<ownerStatus, trust, trustRows, objectVars>>
      BY <1>3 DEF Quarantine
    <2>2. CASE n \in suspendedNames
      <3>1. Comes(c, "idle") /\ suspendedNames' = suspendedNames /\ UNCHANGED <<quarantined, excused>>
        BY <1>3, <2>1, <2>2 DEF Quarantine
      <3>2. HandlerTypes' /\ \A d \in Handlers \ {c} : handler'[d] = handler[d]
        BY <1>a, <1>b, <3>1, HandlerComes
      <3> QED BY <2>1, <3>1, <3>2, NothingFollows DEF ownerVars
    <2>3. CASE n \notin suspendedNames
      <3>1. Comes(c, "suspended") /\ quarantined' = quarantined \cup {n}
        BY <1>3, <2>3 DEF Quarantine
      <3>2. HandlerTypes' /\ handler'[c].at = "suspended"
        BY <1>a, <1>b, <3>1, HandlerComes
      <3>3. Followed'  BY <3>2 DEF Followed, SomeAt
      <3>4. IsFiniteSet(suspendedNames')  BY <1>a, <2>1, FS_AddElement DEF Quarantined
      <3>5. Quarantined'  BY <1>a, <2>1, <3>1, <3>4 DEF Quarantined
      <3>6. Announced'  BY <1>a, <2>1 DEF Announced, objectVars
      <3> QED BY <3>2, <3>3, <3>5, <3>6 DEF ModerationInv
    <2> QED BY <2>2, <2>3
  <1>4. ASSUME NEW c \in Handlers, Untrust(c) PROVE ModerationInv'
    <2>1. /\ handler[c].at \in {"suspended", "upheld"} /\ trust' = "revoked" /\ FALSE \in trustRows'
          /\ UNCHANGED <<suspendedNames, quarantined, ownerStatus, excused, objectVars>>
      BY <1>4 DEF Untrust, SetUserTrust
    <2>2. Comes(c, IF handler[c].at = "suspended" THEN "untrusted" ELSE "idle")
      BY <1>4 DEF Untrust
    <2>3. HandlerTypes' /\ \A d \in Handlers \ {c} : handler'[d] = handler[d]
      BY <1>a, <1>b, <2>2, HandlerComes
    <2>4. handler[c].at = "suspended" => handler'[c].at = "untrusted"
      BY <1>a, <1>b, <2>2, HandlerComes
    <2>5. SomeAt({"suspended", "untrusted", "counted"}) => SomeAt({"suspended", "untrusted", "counted"})'
      BY <2>1, <2>3, <2>4 DEF SomeAt
    <2>6. Followed'  BY <1>a, <2>1, <2>5 DEF Followed
    <2>7. Quarantined' /\ Announced'  BY <1>a, <2>1 DEF Quarantined, Announced
    <2> QED BY <2>3, <2>6, <2>7 DEF ModerationInv
  <1>5. ASSUME NEW c \in Handlers, CountNames(c) PROVE ModerationInv'
    <2>1. /\ handler[c].at = "untrusted" /\ Comes(c, IF TooMany THEN "counted" ELSE "idle")
          /\ UNCHANGED <<suspendedNames, quarantined, ownerVars, objectVars>>
      BY <1>5 DEF CountNames
    <2>2. HandlerTypes' /\ \A d \in Handlers \ {c} : handler'[d] = handler[d]
      BY <1>a, <1>b, <2>1, HandlerComes
    <2>3. TooMany => handler'[c].at = "counted"
      BY <1>a, <1>b, <2>1, HandlerComes
    <2>4. SomeAt({"suspended"}) => SomeAt({"suspended"})'
      BY <2>1, <2>2 DEF SomeAt
    <2>5. Cardinality(quarantined) >= 2 => TooMany
      BY <1>a, FewerQuarantined DEF TooMany
    <2>6. Cardinality(quarantined) >= 2 => SomeAt({"suspended", "untrusted", "counted"})'
      BY <2>3, <2>5 DEF SomeAt
    <2>7. Followed'  BY <1>a, <2>1, <2>4, <2>6 DEF Followed, ownerVars
    <2>8. Quarantined' /\ Announced'
      BY <1>a, <2>1 DEF Quarantined, Announced, ownerVars, objectVars
    <2> QED BY <2>2, <2>7, <2>8 DEF ModerationInv
  <1>6. ASSUME NEW c \in Handlers, SuspendOwner(c) \/ HandlerFails(c) PROVE ModerationInv'
    <2>1. /\ Comes(c, "idle")
          /\ UNCHANGED <<suspendedNames, quarantined, trust, trustRows, objectVars>>
      BY <1>6 DEF SuspendOwner, HandlerFails
    <2>2. HandlerTypes' /\ \A d \in Handlers \ {c} : handler'[d] = handler[d]
      BY <1>a, <1>b, <2>1, HandlerComes
    <2>3. Quarantined' /\ Announced'
      BY <1>a, <2>1 DEF Quarantined, Announced, objectVars
    <2>4. CASE SuspendOwner(c)
      <3>1. handler[c].at = "counted" /\ ownerStatus' = "suspended" /\ excused' = excused
        BY <2>4 DEF SuspendOwner
      <3>2. SomeAt({"suspended"}) => SomeAt({"suspended"})'
        BY <2>2, <3>1 DEF SomeAt
      <3>3. Followed'  BY <1>a, <2>1, <3>1, <3>2 DEF Followed
      <3> QED BY <2>2, <2>3, <3>3 DEF ModerationInv
    <2>5. CASE HandlerFails(c)
      <3>1. /\ ownerStatus' = ownerStatus
            /\ ~excused' => ~excused /\ handler[c].at \notin {"suspended", "untrusted", "counted"}
        BY <2>5 DEF HandlerFails
      <3>2. CASE excused'  BY <2>2, <2>3, <3>2 DEF ModerationInv, Followed
      <3>3. CASE ~excused'
        <4>1. SomeAt({"suspended"}) => SomeAt({"suspended"})'
          BY <2>2, <3>1, <3>3 DEF SomeAt
        <4>2. SomeAt({"suspended", "untrusted", "counted"})
                => SomeAt({"suspended", "untrusted", "counted"})'
          BY <2>2, <3>1, <3>3 DEF SomeAt
        <4>3. Followed'  BY <1>a, <2>1, <3>1, <3>3, <4>1, <4>2 DEF Followed
        <4> QED BY <2>2, <2>3, <4>3 DEF ModerationInv
      <3> QED BY <3>2, <3>3
    <2> QED BY <1>6, <2>4, <2>5
  <1>7. ASSUME UNCHANGED <<suspendedNames, quarantined, handler, ownerVars>>, Announced'
        PROVE  ModerationInv'
    BY <1>a, <1>7
       DEF ModerationInv, HandlerTypes, Quarantined, Followed, SomeAt, ownerVars
  <1>8. CASE TimePasses
    <2>1. Announced'  BY <1>a, <1>8 DEF TimePasses, Announced, ownerVars, objectVars
    <2> QED BY <1>7, <1>8, <2>1 DEF TimePasses
  <1>9. CASE Administer
    <2>1. UNCHANGED objectVars  BY <1>9 DEF Administer
    <2>2. ASSUME NEW n \in Reported, SetSuspended(n), UNCHANGED <<handler, ownerVars>>
          PROVE  ModerationInv'
      <3>1. quarantined' \subseteq quarantined /\ quarantined' \subseteq suspendedNames'
            /\ suspendedNames' \subseteq suspendedNames \cup {n}
        BY <1>a, <2>2 DEF SetSuspended, Quarantined
      <3>2. IsFiniteSet(suspendedNames')
        BY <1>a, <3>1, FS_AddElement, FS_Subset DEF Quarantined
      <3>3. /\ Cardinality(quarantined') \in Nat /\ Cardinality(quarantined) \in Nat
            /\ Cardinality(quarantined') <= Cardinality(quarantined)
        BY <1>a, <3>1, FewerQuarantined
      <3>4. Followed'  BY <1>a, <2>2, <3>1, <3>3 DEF Followed, SomeAt, ownerVars
      <3>5. HandlerTypes' /\ Quarantined' /\ Announced'
        BY <1>a, <2>1, <2>2, <3>1, <3>2
           DEF HandlerTypes, Quarantined, Announced, ownerVars, objectVars
      <3> QED BY <3>4, <3>5 DEF ModerationInv
    <2>3. ASSUME ownerStatus' = IF ownerStatus = "active" THEN "suspended" ELSE "active",
                 excused' = (excused \/ ownerStatus = "suspended"),
                 UNCHANGED <<suspendedNames, quarantined, handler, trust, trustRows>>
          PROVE  ModerationInv'
      <3>1. Followed'  BY <1>a, <2>3 DEF Followed, SomeAt
      <3>2. HandlerTypes' /\ Quarantined' /\ Announced'
        BY <1>a, <2>1, <2>3 DEF HandlerTypes, Quarantined, Announced, objectVars
      <3> QED BY <3>1, <3>2 DEF ModerationInv
    <2>4. ASSUME NEW mode \in BOOLEAN, SetUserTrust(mode), excused' = (excused \/ mode),
                 UNCHANGED <<suspendedNames, quarantined, handler, ownerStatus>>
          PROVE  ModerationInv'
      <3>1. CASE mode
        <4>1. trust' = "trusted" /\ excused'  BY <2>4, <3>1 DEF SetUserTrust
        <4>2. Followed' /\ Announced'  BY <4>1 DEF Followed, Announced
        <4> QED BY <1>a, <2>4, <4>2 DEF ModerationInv, HandlerTypes, Quarantined
      <3>2. CASE ~mode
        <4>a. mode = FALSE  BY <3>2
        <4>b. trust' = "revoked" /\ trustRows' = trustRows \cup {FALSE}
          BY <2>4, <4>a DEF SetUserTrust
        <4>c. ~excused' => ~excused  BY <2>4
        <4>1. trust' = "revoked" /\ FALSE \in trustRows' /\ (~excused' => ~excused)
          BY <4>b, <4>c
        <4>2. Followed'  BY <1>a, <2>4, <4>1 DEF Followed, SomeAt
        <4>3. Announced'  BY <4>1 DEF Announced
        <4> QED BY <1>a, <2>4, <4>2, <4>3 DEF ModerationInv, HandlerTypes, Quarantined
      <3> QED BY <3>1, <3>2
    <2>5. ASSUME NEW c \in Handlers, NEW status \in {"actioned", "dismissed"}, Unused(c),
                 handler' = [handler EXCEPT ![c].at = IF status = "actioned" THEN "upheld" ELSE @],
                 UNCHANGED <<suspendedNames, quarantined, ownerVars>>
          PROVE  ModerationInv'
      <3>1. handler[c].at = "idle"  BY <2>5 DEF Unused, NoReport
      <3>2. HandlerTypes' /\ \A d \in Handlers \ {c} : handler'[d] = handler[d]
        BY <1>a, <2>5 DEF HandlerTypes, HandlerAt
      <3> QED BY <2>1, <2>5, <3>1, <3>2, NothingFollows
    <2> QED BY <1>9, <2>2, <2>3, <2>4, <2>5 DEF Administer
  <1>10. CASE ConnectAgent
    <2>1. UNCHANGED <<suspendedNames, quarantined, handler, ownerVars>>
      BY <1>10 DEF ConnectAgent, reportVars
    <2>2. UNCHANGED <<trust, trustRows>>  BY <2>1 DEF ownerVars
    <2>3. CASE connecting = "reading" /\ connecting' = TrustRead /\ UNCHANGED <<trustedHere, overtaken>>
      <3>1. trust = "revoked" => connecting' # "trusted"  BY <2>3 DEF TrustRead
      <3>2. Announced'  BY <1>a, <2>2, <2>3, <3>1 DEF Announced
      <3> QED BY <1>7, <2>1, <3>2
    <2>4. CASE connecting # "reading"
      <3>1. \/ connecting' = "reading" /\ UNCHANGED <<trustedHere, overtaken>>
            \/ connecting' = "idle" /\ trustedHere' = (connecting = "trusted")
        BY <1>10, <2>4 DEF ConnectAgent
      <3>2. Announced'  BY <1>a, <2>2, <3>1 DEF Announced
      <3> QED BY <1>7, <2>1, <3>2
    <2> QED BY <1>10, <2>3, <2>4 DEF ConnectAgent
  <1>11. ASSUME NEW v \in BOOLEAN, PushTrust(v) PROVE ModerationInv'
    <2>1. /\ UNCHANGED <<suspendedNames, quarantined, handler, ownerStatus, trust, excused>>
          /\ trustedHere' = v /\ connecting' = "idle" /\ overtaken' = (v /\ trust = "revoked")
      BY <1>11 DEF PushTrust, DropConnect, reportVars
    <2>2. Announced'  BY <2>1 DEF Announced
    <2>3. Followed'  BY <1>a, <2>1 DEF Followed, SomeAt
    <2> QED BY <1>a, <2>1, <2>2, <2>3 DEF ModerationInv, HandlerTypes, Quarantined
  <1>12. CASE UNCHANGED moderationVars
    <2>1. Announced'  BY <1>a, <1>12 DEF moderationVars, Announced, ownerVars, objectVars
    <2> QED BY <1>7, <1>12, <2>1 DEF moderationVars, reportVars
  <1> QED BY <1>1, <1>2, <1>3, <1>4, <1>5, <1>6, <1>8, <1>9, <1>10, <1>11, <1>12
          DEF ModerationNext

LEMMA ModerationStart == ModerationInit => ModerationInv
  <1> SUFFICES ASSUME ModerationInit PROVE ModerationInv
    OBVIOUS
  <1>1. HandlerTypes  BY DEF ModerationInit, HandlerTypes, HandlerAt, NoReport
  <1>2. Quarantined  BY FS_EmptySet DEF ModerationInit, Quarantined
  <1>3. Followed  BY FS_EmptySet DEF ModerationInit, Followed
  <1>4. Announced  BY DEF ModerationInit, Announced
  <1> QED BY <1>1, <1>2, <1>3, <1>4 DEF ModerationInv

\* However reports, their handlers, administrators, pushes and connects overlap:
\* what a quarantine entails has been done once the handlers are, and a
\* revocation of trust outlives a connect that read D1 before it.
THEOREM QuarantineIsFollowed == ModerationSpec => []ModerationSettles
  <1>1. ModerationInv => ModerationSettles
    <2> SUFFICES ASSUME ModerationInv PROVE ModerationSettles
      OBVIOUS
    <2>a. \A c \in Handlers : Unused(c) => handler[c].at = "idle"
      BY DEF Unused, NoReport
    <2>1. (\A c \in Handlers : Unused(c))
             => ~SomeAt({"suspended"}) /\ ~SomeAt({"suspended", "untrusted", "counted"})
      BY <2>a DEF SomeAt
    <2> QED BY <2>1 DEF ModerationInv, Followed, Announced, ModerationSettles
  <1> QED BY <1>1, ModerationStart, ModerationStep, PTL DEF ModerationSpec

\* The fields of reports, handlers, the account and the object keep their types.
ReportsTyped ==
  /\ reports \in [Reported -> [Reporters -> {"none", "open", "actioned", "dismissed"}]]
  /\ suspendedNames \subseteq Reported /\ aged \in BOOLEAN /\ moderated \in 0 .. MAX_MODERATION
HandlersTyped == handler \in [Handlers -> [at : HandlerAt, name : Reported]]
OwnerTyped ==
  /\ ownerStatus \in {"active", "suspended"} /\ trust \in {"none", "trusted", "revoked"}
  /\ trustRows \subseteq BOOLEAN /\ excused \in BOOLEAN
ObjectKnows ==
  /\ connecting \in {"idle", "reading", "trusted", "not"}
  /\ trustedHere \in BOOLEAN /\ overtaken \in BOOLEAN

ModerationFields == ReportsTyped /\ HandlersTyped /\ OwnerTyped /\ ObjectKnows

LEMMA ReportsMarked ==
  ASSUME ReportsTyped, NEW n \in Reported, NEW r \in Reporters,
         NEW status \in {"none", "open", "actioned", "dismissed"}, Mark(n, r, status)
  PROVE  reports' \in [Reported -> [Reporters -> {"none", "open", "actioned", "dismissed"}]]
  <1>1. reports[n] \in [Reporters -> {"none", "open", "actioned", "dismissed"}]
    BY DEF ReportsTyped
  <1>2. [reports[n] EXCEPT ![r] = status]
          \in [Reporters -> {"none", "open", "actioned", "dismissed"}]
    BY <1>1
  <1>3. reports' = [reports EXCEPT ![n] = [reports[n] EXCEPT ![r] = status]]
    BY DEF Mark
  <1> QED BY <1>2, <1>3 DEF ReportsTyped

LEMMA HandlerStaysTyped ==
  ASSUME HandlersTyped, NEW c \in Handlers, NEW place \in HandlerAt, Comes(c, place)
  PROVE  HandlersTyped'
  <1>1. NoReport \in [at : HandlerAt, name : Reported]
    BY ModerationAssumption DEF NoReport, HandlerAt
  <1>2. [handler[c] EXCEPT !.at = place] \in [at : HandlerAt, name : Reported]
    BY DEF HandlersTyped
  <1> QED BY <1>1, <1>2 DEF Comes, HandlersTyped

LEMMA ReportIsReinstated ==
  ASSUME ReportsTyped, NEW n \in Reported, SetSuspended(n)
  PROVE  /\ reports' \in [Reported -> [Reporters -> {"none", "open", "actioned", "dismissed"}]]
         /\ suspendedNames' \subseteq Reported
  <1> DEFINE f == [r \in Reporters |-> IF reports[n][r] = "open" THEN "dismissed" ELSE reports[n][r]]
  <1>1. f \in [Reporters -> {"none", "open", "actioned", "dismissed"}]
    BY DEF ReportsTyped
  <1>2. reports' = reports \/ reports' = [reports EXCEPT ![n] = f]
    BY DEF SetSuspended, ReportsTyped
  <1> HIDE DEF f
  <1>3. reports' \in [Reported -> [Reporters -> {"none", "open", "actioned", "dismissed"}]]
    BY <1>1, <1>2 DEF ReportsTyped
  <1> QED BY <1>3 DEF SetSuspended, ReportsTyped

LEMMA ModerationStaysTyped ==
  /\ ModerationInit => ModerationFields
  /\ ModerationFields /\ [ModerationNext]_moderationVars => ModerationFields'
  <1>1. ModerationInit => ModerationFields
    <2> SUFFICES ASSUME ModerationInit PROVE ModerationFields
      OBVIOUS
    <2>1. NoReport \in [at : HandlerAt, name : Reported]
      BY ModerationAssumption DEF NoReport, HandlerAt
    <2>2. ReportsTyped
      <3>1. reports \in [Reported -> [Reporters -> {"none", "open", "actioned", "dismissed"}]]
        BY DEF ModerationInit
      <3>2. moderated \in 0 .. MAX_MODERATION  BY ModerationAssumption DEF ModerationInit
      <3> QED BY <3>1, <3>2 DEF ModerationInit, ReportsTyped
    <2>3. HandlersTyped  BY <2>1 DEF ModerationInit, HandlersTyped
    <2>4. OwnerTyped /\ ObjectKnows  BY DEF ModerationInit, OwnerTyped, ObjectKnows
    <2> QED BY <2>2, <2>3, <2>4 DEF ModerationFields
  <1>2. ModerationFields /\ [ModerationNext]_moderationVars => ModerationFields'
    <2> SUFFICES ASSUME ModerationFields, [ModerationNext]_moderationVars
                 PROVE  ModerationFields'
      OBVIOUS
    <2>a. ReportsTyped /\ HandlersTyped /\ OwnerTyped /\ ObjectKnows  BY DEF ModerationFields
    <2>b. MAX_MODERATION \in Nat  BY ModerationAssumption
    <2>c. UNCHANGED objectVars => ObjectKnows'  BY <2>a DEF objectVars, ObjectKnows
    <2>d. UNCHANGED ownerVars => OwnerTyped'  BY <2>a DEF ownerVars, OwnerTyped
    <2>e. UNCHANGED <<reports, suspendedNames, aged, moderated>> => ReportsTyped'
      BY <2>a DEF ReportsTyped
    <2>f. UNCHANGED handler => HandlersTyped'  BY <2>a DEF HandlersTyped
    <2>1. ASSUME NEW c \in Handlers, NEW n \in Reported, NEW r \in Reporters, FileReport(c, n, r)
          PROVE  ModerationFields'
      <3>1. reports' \in [Reported -> [Reporters -> {"none", "open", "actioned", "dismissed"}]]
        BY <2>a, <2>1, ReportsMarked DEF FileReport
      <3>2. ReportsTyped'
        BY <2>a, <2>b, <2>1, <3>1 DEF FileReport, Moderated, ReportsTyped
      <3>3. HandlersTyped'
        BY <2>a, <2>1 DEF FileReport, HandlersTyped, HandlerAt
      <3> QED BY <2>c, <2>d, <2>1, <3>2, <3>3 DEF FileReport, ModerationFields
    <2>2. ASSUME NEW c \in Handlers, ReadOwner(c) \/ ReadScore(c) \/ CountNames(c)
          PROVE  ModerationFields'
      <3>1. \E place \in HandlerAt : Comes(c, place)
        <4>1. CASE ReadOwner(c)  BY <4>1 DEF ReadOwner, HandlerAt
        <4>2. CASE ReadScore(c)  BY <4>2 DEF ReadScore, HandlerAt
        <4>3. CASE CountNames(c)  BY <4>3 DEF CountNames, HandlerAt
        <4> QED BY <2>2, <4>1, <4>2, <4>3
      <3>2. HandlersTyped'  BY <2>a, <3>1, HandlerStaysTyped
      <3>3. UNCHANGED <<reports, suspendedNames, aged, moderated, ownerVars, objectVars>>
        BY <2>2 DEF ReadOwner, ReadScore, CountNames
      <3> QED BY <2>c, <2>d, <2>e, <3>2, <3>3 DEF ModerationFields
    <2>3. ASSUME NEW c \in Handlers, Quarantine(c) PROVE ModerationFields'
      <3>1. \E place \in HandlerAt : Comes(c, place)  BY <2>3 DEF Quarantine, HandlerAt
      <3>2. HandlersTyped'  BY <2>a, <3>1, HandlerStaysTyped
      <3>3. handler[c].name \in Reported  BY <2>a DEF HandlersTyped
      <3>4. ReportsTyped'  BY <2>a, <2>3, <3>3 DEF Quarantine, ReportsTyped
      <3>5. OwnerTyped'  BY <2>a, <2>3 DEF Quarantine, OwnerTyped
      <3>6. ObjectKnows'  BY <2>c, <2>3 DEF Quarantine
      <3> QED BY <3>2, <3>4, <3>5, <3>6 DEF ModerationFields
    <2>4. ASSUME NEW c \in Handlers, Untrust(c) PROVE ModerationFields'
      <3>1. \E place \in HandlerAt : Comes(c, place)  BY <2>4 DEF Untrust, HandlerAt
      <3>2. HandlersTyped'  BY <2>a, <3>1, HandlerStaysTyped
      <3>3. OwnerTyped'  BY <2>a, <2>4 DEF Untrust, SetUserTrust, OwnerTyped
      <3>4. ReportsTyped' /\ ObjectKnows'  BY <2>c, <2>e, <2>4 DEF Untrust
      <3> QED BY <3>2, <3>3, <3>4 DEF ModerationFields
    <2>5. ASSUME NEW c \in Handlers, SuspendOwner(c) \/ HandlerFails(c)
          PROVE  ModerationFields'
      <3>1. \E place \in HandlerAt : Comes(c, place)
        BY <2>5 DEF SuspendOwner, HandlerFails, HandlerAt
      <3>2. HandlersTyped'  BY <2>a, <3>1, HandlerStaysTyped
      <3>3. OwnerTyped'
        <4>1. CASE SuspendOwner(c)  BY <2>a, <4>1 DEF SuspendOwner, OwnerTyped
        <4>2. CASE HandlerFails(c)
          <5>1. excused' \in BOOLEAN  BY <2>a, <4>2 DEF HandlerFails, OwnerTyped
          <5> QED BY <2>a, <4>2, <5>1 DEF HandlerFails, OwnerTyped
        <4> QED BY <2>5, <4>1, <4>2
      <3>4. ReportsTyped' /\ ObjectKnows'
        BY <2>c, <2>e, <2>5 DEF SuspendOwner, HandlerFails
      <3> QED BY <3>2, <3>3, <3>4 DEF ModerationFields
    <2>6. CASE TimePasses
      <3>1. UNCHANGED <<suspendedNames, moderated, handler, ownerVars, objectVars>>
        BY <2>6 DEF TimePasses
      <3>2. ASSUME NEW n \in Reported, NEW r \in Reporters, Mark(n, r, "none"), UNCHANGED aged
            PROVE  ReportsTyped'
        BY <2>a, <3>1, <3>2, ReportsMarked DEF ReportsTyped
      <3>3. aged' = TRUE /\ UNCHANGED reports => ReportsTyped'
        BY <2>a, <3>1 DEF ReportsTyped
      <3>4. ReportsTyped'  BY <2>6, <3>2, <3>3 DEF TimePasses
      <3> QED BY <2>c, <2>d, <2>f, <3>1, <3>4 DEF ModerationFields
    <2>7. CASE Administer
      <3>1. /\ moderated' \in 0 .. MAX_MODERATION /\ UNCHANGED <<aged, objectVars>>
        BY <2>a, <2>b, <2>7 DEF Administer, Moderated, ReportsTyped
      <3>2. ObjectKnows'  BY <2>c, <3>1
      <3>3. ASSUME NEW n \in Reported, SetSuspended(n), UNCHANGED <<handler, ownerVars>>
            PROVE  ModerationFields'
        <4>1. ReportsTyped'  BY <2>a, <3>1, <3>3, ReportIsReinstated DEF ReportsTyped
        <4> QED BY <2>d, <2>f, <3>2, <3>3, <4>1 DEF ModerationFields
      <3>4. ASSUME ownerStatus' = IF ownerStatus = "active" THEN "suspended" ELSE "active",
                   excused' = (excused \/ ownerStatus = "suspended"),
                   UNCHANGED <<reports, suspendedNames, handler, trust, trustRows>>
            PROVE  ModerationFields'
        <4>1. ReportsTyped'  BY <2>a, <3>1, <3>4 DEF ReportsTyped
        <4>2. excused' \in BOOLEAN  BY <3>4
        <4>3. OwnerTyped'  BY <2>a, <3>4, <4>2 DEF OwnerTyped
        <4> QED BY <2>f, <3>2, <3>4, <4>1, <4>3 DEF ModerationFields
      <3>5. ASSUME NEW mode \in BOOLEAN, SetUserTrust(mode), excused' = (excused \/ mode),
                   UNCHANGED <<reports, suspendedNames, handler, ownerStatus>>
            PROVE  ModerationFields'
        <4>1. ReportsTyped'  BY <2>a, <3>1, <3>5 DEF ReportsTyped
        <4>2. excused' \in BOOLEAN  BY <3>5
        <4>3. OwnerTyped'  BY <2>a, <3>5, <4>2 DEF OwnerTyped, SetUserTrust
        <4> QED BY <2>f, <3>2, <3>5, <4>1, <4>3 DEF ModerationFields
      <3>6. ASSUME NEW c \in Handlers, NEW n \in Reported, NEW r \in Reporters,
                   NEW status \in {"actioned", "dismissed"}, Mark(n, r, status),
                   handler' = [handler EXCEPT ![c].at = IF status = "actioned" THEN "upheld" ELSE @],
                   UNCHANGED <<suspendedNames, ownerVars>>
            PROVE  ModerationFields'
        <4>1. reports' \in [Reported -> [Reporters -> {"none", "open", "actioned", "dismissed"}]]
          BY <2>a, <3>6, ReportsMarked
        <4>2. ReportsTyped'  BY <2>a, <3>1, <3>6, <4>1 DEF ReportsTyped
        <4>3. HandlersTyped'  BY <2>a, <3>6 DEF HandlersTyped, HandlerAt
        <4> QED BY <2>d, <3>2, <3>6, <4>2, <4>3 DEF ModerationFields
      <3> QED BY <2>7, <3>3, <3>4, <3>5, <3>6 DEF Administer
    <2>8. CASE ConnectAgent
      <3>1. ObjectKnows'
        <4>1. trustedHere' \in BOOLEAN /\ overtaken' \in BOOLEAN
          BY <2>a, <2>8 DEF ConnectAgent, ObjectKnows
        <4>2. connecting' \in {"idle", "reading", "trusted", "not"}
          BY <2>a, <2>8 DEF ConnectAgent, TrustRead, ObjectKnows
        <4> QED BY <4>1, <4>2 DEF ObjectKnows
      <3>2. ReportsTyped' /\ HandlersTyped' /\ OwnerTyped'
        BY <2>d, <2>e, <2>f, <2>8 DEF ConnectAgent, reportVars
      <3> QED BY <3>1, <3>2 DEF ModerationFields
    <2>9. ASSUME NEW v \in BOOLEAN, PushTrust(v) PROVE ModerationFields'
      <3>1. trustedHere' \in BOOLEAN /\ overtaken' \in BOOLEAN /\ connecting' = "idle"
        BY <2>9 DEF PushTrust, DropConnect
      <3>2. ObjectKnows'  BY <3>1 DEF ObjectKnows
      <3>3. OwnerTyped'  BY <2>a, <2>9 DEF PushTrust, OwnerTyped
      <3>4. ReportsTyped' /\ HandlersTyped'
        BY <2>e, <2>f, <2>9 DEF PushTrust, reportVars
      <3> QED BY <3>2, <3>3, <3>4 DEF ModerationFields
    <2>10. CASE UNCHANGED moderationVars
      BY <2>c, <2>d, <2>e, <2>f, <2>10 DEF moderationVars, reportVars, ModerationFields
    <2> QED BY <2>1, <2>2, <2>3, <2>4, <2>5, <2>6, <2>7, <2>8, <2>9, <2>10
            DEF ModerationNext
  <1> QED BY <1>1, <1>2

LEMMA ModerationTypes == ModerationInv /\ ModerationFields => ModerationTypeOK
  BY DEF ModerationInv, Quarantined, ModerationFields, ReportsTyped, HandlersTyped,
         OwnerTyped, ObjectKnows, ModerationTypeOK

---------------------------------------------------------------------------
(* All the parts together.                                                 *)

\* One conjunct for each part: no action of another part writes its variables.
PartsInv ==
  /\ SessionTyped /\ Signalled /\ RunnerTyped /\ UpdaterInv /\ CredentialsInv
  /\ ServiceInv /\ RepoInv /\ RepoRest
  /\ CodesInv /\ CodesRest /\ UsageInv /\ ModerationInv /\ ModerationFields

LEMMA PartsStart == PartsInit => PartsInv
  <1> SUFFICES ASSUME PartsInit PROVE PartsInv
    OBVIOUS
  <1>1. /\ SessionInit /\ RunnerInit /\ UpdaterInit /\ CredentialsInit
        /\ ServiceInit /\ RepoInit /\ CodesInit /\ UsageInit /\ ModerationInit
    BY DEF PartsInit
  <1>2. SessionTyped /\ Signalled  BY <1>1, SessionStaysTyped, AlarmStep
  <1>3. RunnerTyped  BY <1>1, RunnerStaysTyped
  <1>4. UpdaterInv /\ CredentialsInv /\ ServiceInv
    BY <1>1, UpdaterInvInit, CredentialsStart, ServiceStart
  <1>6. RepoInv /\ RepoRest /\ CodesInv /\ CodesRest
    BY <1>1, RepoStart, RepoStaysTyped, CodesStart, CodesStayTyped
  <1>7. UsageInv /\ ModerationInv /\ ModerationFields
    BY <1>1, UsageStart, ModerationStart, ModerationStaysTyped
  <1> QED BY <1>2, <1>3, <1>4, <1>6, <1>7 DEF PartsInv

\* A step of one part is, for every other, no step at all.
LEMMA PartsApart ==
  ASSUME [PartsNext]_partsVars
  PROVE  /\ [SessionNext]_sessionVars /\ [RunnerNext]_runnerVars
         /\ [UpdaterNext]_updaterVars
         /\ [CredentialsNext]_credentialVars /\ [ServiceNext]_serviceVars
         /\ [RepoNext]_repoVars /\ [CodesNext]_codeVars
         /\ [UsageNext]_usageVars /\ [ModerationNext]_moderationVars
  BY DEF PartsNext, partsVars

LEMMA PartsStep == PartsInv /\ [PartsNext]_partsVars => PartsInv'
  <1> SUFFICES ASSUME PartsInv, [PartsNext]_partsVars PROVE PartsInv'
    OBVIOUS
  <1>1. /\ SessionTyped /\ Signalled /\ RunnerTyped /\ UpdaterInv /\ CredentialsInv
        /\ ServiceInv /\ RepoInv /\ RepoRest
        /\ CodesInv /\ CodesRest /\ UsageInv /\ ModerationInv /\ ModerationFields
    BY DEF PartsInv
  <1>2. SessionTyped' /\ Signalled'  BY <1>1, PartsApart, SessionStaysTyped, SignalIsKept
  <1>3. RunnerTyped'  BY <1>1, PartsApart, RunnerStaysTyped
  <1>4. UpdaterInv' /\ CredentialsInv' /\ ServiceInv'
    BY <1>1, PartsApart, UpdaterStep, CredentialsStep, ServiceStep
  <1>6. RepoInv' /\ RepoRest'  BY <1>1, PartsApart, RepoStep, RepoStaysTyped
  <1>7. CodesInv' /\ CodesRest'  BY <1>1, PartsApart, CodesStep, CodesStayTyped
  <1>8. UsageInv' /\ ModerationInv' /\ ModerationFields'
    BY <1>1, PartsApart, UsageStep, ModerationStep, ModerationStaysTyped
  <1> QED BY <1>2, <1>3, <1>4, <1>6, <1>7, <1>8 DEF PartsInv

\* Every variable of every part of the agent and of the edge keeps its type, for
\* any number of streams, tunnels, processes, names, codes, objects and reports:
\* in particular no queue of session.go or broadcast.go outgrows its channel, no
\* code gets more attempts than it has and no counter goes below zero.
THEOREM PartsStayTyped == PartsSpec => []PartsTypeOK
  <1>1. PartsInv => PartsTypeOK
    BY FieldsAreAll, RunnerTypes, RepoTypes, CodesTypes, UsageTypesHold,
       ModerationTypes
       DEF PartsInv, SessionTyped, UpdaterInv, CredentialsInv, ServiceInv, PartsTypeOK
  <1> QED BY <1>1, PartsStart, PartsStep, PTL DEF PartsSpec

\* A behaviour of all the parts is one of each: of the seven parts that promise
\* nothing about progress it is one of their whole specifications, so that their
\* theorems are about it as they stand.
THEOREM EachPartIsItself ==
  PartsSpec => /\ UpdaterSpec /\ CredentialsSpec /\ ServiceSpec
               /\ RepoSpec /\ CodesSpec /\ UsageSpec /\ ModerationSpec
  <1>1. PartsInit => /\ UpdaterInit /\ CredentialsInit /\ ServiceInit
                     /\ RepoInit /\ CodesInit /\ UsageInit /\ ModerationInit
    BY DEF PartsInit
  <1>2. [PartsNext]_partsVars
          => /\ [UpdaterNext]_updaterVars
             /\ [CredentialsNext]_credentialVars /\ [ServiceNext]_serviceVars
             /\ [RepoNext]_repoVars /\ [CodesNext]_codeVars
             /\ [UsageNext]_usageVars /\ [ModerationNext]_moderationVars
    BY PartsApart
  <1> QED BY <1>1, <1>2, PTL
          DEF PartsSpec, UpdaterSpec, CredentialsSpec, ServiceSpec,
              RepoSpec, CodesSpec, UsageSpec, ModerationSpec

\* What the parts promise, they promise beside each other: a session ends in order
\* and on no false alarm, clients dial politely, the executable always runs, the
\* latest token is read but for the exception of GetsLatest, a restart runs what
\* was installed, and the tables of names, codes, seconds and reports settle.
THEOREM PartsKeepTheirPromises ==
  PartsSpec => /\ []EndsInOrder /\ NoFalseAlarm /\ PoliteDials
               /\ []AlwaysRunnable /\ []GetsLatest /\ []RestartRunsInstalled
               /\ []NamesSettled /\ []OneLogin /\ []UsageCounted /\ []ModerationSettles
  <1>1. PartsInv => EndsInOrder
    BY DEF PartsInv, SessionTyped, SessionInv, Orderly, Joined, EndsInOrder
  <1>2. PartsInv /\ [PartsNext]_partsVars
          => [cause # "heartbeat" /\ cause' = "heartbeat" => ~heard]_sessionVars
    BY PartsApart, AlarmStep DEF PartsInv
  <1>3. PartsInv /\ [PartsNext]_partsVars
          => [\A c \in Clients :
                /\ dials'[c] <= MaxRenameHops + 1
                /\ rival[c] /\ pc[c] = "dial" /\ pc'[c] = "shake" => ~ever[c]]_runnerVars
    BY PartsApart, PoliteStep DEF PartsInv, RunnerTyped
  <1> QED BY <1>1, <1>2, <1>3, PartsStart, PartsStep, EachPartIsItself,
             UpdateIsSafe, GetIsLatest, RestartIsInstalled, NamesStaySettled, OneTokenPerLogin, UsageAddsUp,
             QuarantineIsFollowed, PTL
          DEF PartsSpec, NoFalseAlarm, PoliteDials
=============================================================================
