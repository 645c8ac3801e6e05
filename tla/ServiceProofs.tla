---------------------------- MODULE ServiceProofs ----------------------------
(***************************************************************************)
(* Theorems about what Background and Services promise, each for any       *)
(* values of the parameters: what an operation leaves, then the inductive  *)
(* invariant, then the theorem.  The components share no state, and each   *)
(* has a section of its own.                                               *)
(***************************************************************************)

EXTENDS Background, Services, Integers, Sequences, FiniteSetTheorems, SequenceTheorems, TLAPS

-----------------------------------------------------------------------------
(* The daily limit of special titles *)

Days == 0 .. TitleDays

Calls == [TitleCalls -> [pc: {"idle", "role", "consume", "call", "release", "kept", "done"},
                         limit: Nat, day: Days]]

TitleTypes ==
  /\ setting \in [on: BOOLEAN, limit: Nat] /\ usage \in [Days -> Nat] /\ request \in Calls
  /\ day \in Days /\ applied \subseteq TitleCalls /\ limits \subseteq Nat
  /\ titleSpent \in [edit: Nat, lost: Nat, crash: Nat]

\* The commands that hold a place on day d.
Places(d) == {c \in TitleCalls : /\ Title!Counted(c) /\ request[c].day = d
                                 /\ request[c].pc \in {"call", "release", "kept"}}

\* Titles that were set and whose place was given back: the receipt was lost.
Astray == {c \in applied : request[c].pc # "kept"}

\* Limits that commands and settings know were in force.
Known == /\ setting.limit \in limits
         /\ \A c \in TitleCalls : request[c].limit \in limits \cup {0}

\* n is the highest limit, and no day has more places.
Highest(n) == /\ \A m \in limits : m <= n
              /\ \A d \in Days : usage[d] <= n

\* A place is given back only if it was taken.
Taken == \A c \in TitleCalls : request[c].pc = "release" => Title!Counted(c)

TitleInv ==
  /\ TitleTypes /\ Known /\ Taken
  /\ \A d \in Days : usage[d] = Cardinality(Places(d))
  /\ \E n \in limits : Highest(n)
  /\ Cardinality(Astray) <= titleSpent.lost

\* The parameters: commands are finitely many, limits and days are numbers.
TitleParameters == IsFiniteSet(TitleCalls) /\ Limits \subseteq Nat /\ TitleDays \in Nat

-----------------------------------------------------------------------------
\* Places and titles are finitely many.
LEMMA FiniteParts ==
  ASSUME TitleParameters, TitleTypes
  PROVE  /\ \A d \in Days : IsFiniteSet(Places(d)) /\ Cardinality(Places(d)) \in Nat
         /\ IsFiniteSet(Astray) /\ Cardinality(Astray) \in Nat
<1>1. ASSUME NEW S \in SUBSET TitleCalls PROVE IsFiniteSet(S) /\ Cardinality(S) \in Nat
  BY FS_Subset, FS_CardinalityType DEF TitleParameters
<1> QED
  BY <1>1 DEF Places, Astray, TitleTypes

\* The initial state has no places and no titles.
LEMMA TitleInit == ASSUME TitleParameters, Title!Init PROVE TitleInv
<1>1. TitleTypes
  <2>1. 0 \in Days
    BY DEF TitleParameters, Days
  <2>2. setting \in [on: BOOLEAN, limit: Nat] /\ usage \in [Days -> Nat] /\ limits \subseteq Nat
    BY DEF TitleParameters, Title!Init, Days
  <2>3. request \in Calls
    BY <2>1 DEF Title!Init, Calls
  <2> QED
    BY <2>1, <2>2, <2>3 DEF Title!Init, TitleTypes
<1>2. Known /\ Taken
  BY DEF Title!Init, Known, Taken
<1>3. \A d \in Days : Places(d) = {}
  BY DEF Title!Init, Places
<1>4. Astray = {}
  BY DEF Title!Init, Astray
<1>5. \A d \in Days : usage[d] = Cardinality(Places(d))
  BY <1>3, FS_EmptySet DEF Title!Init, Days
<1>6. Highest(setting.limit)
  BY <1>1 DEF Title!Init, Highest, TitleTypes, Days
<1>7. Cardinality(Astray) <= titleSpent.lost
  BY <1>4, FS_EmptySet DEF Title!Init
<1> QED
  BY <1>1, <1>2, <1>5, <1>6, <1>7 DEF TitleInv, Title!Init

\* An action that neither takes nor gives places, sets no title and changes no limits.
LEMMA Quiet ==
  ASSUME TitleInv, TitleTypes', Known', Taken', UNCHANGED <<usage, applied, limits>>,
         \A d \in Days : Places(d)' = Places(d),
         Astray' = Astray, titleSpent'.lost = titleSpent.lost
  PROVE  TitleInv'
<1>1. \A d \in Days : usage'[d] = Cardinality(Places(d)')
  BY DEF TitleInv
<1>2. \E n \in limits' : Highest(n)'
  BY DEF TitleInv, Highest
<1> QED
  BY <1>1, <1>2 DEF TitleInv, Days

\* A command that does not hold a place goes on without one.
LEMMA Outside ==
  ASSUME TitleInv, TitleTypes', Known', Taken', UNCHANGED <<usage, applied, limits,
         titleSpent>>, NEW c \in TitleCalls,
         \A b \in TitleCalls \ {c} : request'[b] = request[b],
         request[c].pc \in {"idle", "role", "consume"}, request'[c].pc \in {"role", "consume", "done"}
  PROVE  TitleInv'
<1>1. \A d \in Days : Places(d)' = Places(d)
  BY DEF Places, Title!Counted
<1>2. Astray' = Astray
  BY DEF Astray, TitleInv, TitleTypes
<1> QED
  BY <1>1, <1>2, Quiet
-----------------------------------------------------------------------------
\* A command starts, or asks for the bot's role.
LEMMA BeginInv ==
  ASSUME TitleParameters, TitleInv, NEW c \in TitleCalls,
         Title!Command(c) \/ Title!Role(c) \/ Title!RoleFailed(c)
  PROVE  TitleInv'
<1>1. TitleTypes'
  BY DEF TitleInv, TitleTypes, Calls, Title!Command, Title!Role, Title!RoleFailed, Title!Goto,
         Title!At
<1>2. Known' /\ Taken'
  BY DEF TitleInv, TitleTypes, Calls, Known, Taken, Title!Counted, Title!Command, Title!Role,
         Title!RoleFailed, Title!Goto, Title!At
<1>3. request[c].pc \in {"idle", "role"} /\ request'[c].pc \in {"role", "consume", "done"}
  BY DEF TitleInv, TitleTypes, Calls, Title!Command, Title!Role, Title!RoleFailed, Title!Goto,
         Title!At
<1>4. \A b \in TitleCalls \ {c} : request'[b] = request[b]
  BY DEF TitleInv, TitleTypes, Calls, Title!Command, Title!Role, Title!RoleFailed, Title!Goto,
         Title!At
<1> QED
  BY <1>1, <1>2, <1>3, <1>4, Outside DEF Title!Command, Title!Role, Title!RoleFailed

\* A place is taken: below the limit the command knows, which is one of those in force.
LEMMA ConsumeInv ==
  ASSUME TitleParameters, TitleInv, NEW c \in TitleCalls, Title!Consume(c)
  PROVE  TitleInv'
<1>0. PICK e \in Days : e = request[c].day
  BY DEF TitleInv, TitleTypes, Calls
<1>1. /\ TitleTypes /\ c \in TitleCalls /\ e = request[c].day /\ request[c].pc = "consume"
      /\ UNCHANGED <<setting, owner, day, applied, limits, titleSpent>>
  BY <1>0 DEF TitleInv, TitleTypes, Calls, Title!Consume, Title!At
<1>2. TitleTypes'
  <2>1. request' \in Calls
    BY <1>1 DEF TitleTypes, Calls, Title!Consume, Title!Goto
  <2>2. usage' = usage \/ usage' = [usage EXCEPT ![e] = @ + 1]
    BY <1>1 DEF Title!Consume
  <2>3. usage' \in [Days -> Nat]
    BY <1>1, <2>2 DEF TitleTypes
  <2> QED
    BY <1>1, <2>1, <2>3 DEF TitleTypes
<1>3. Known' /\ Taken'
  BY <1>1 DEF TitleInv, TitleTypes, Calls, Known, Taken, Title!Counted, Title!Consume,
     Title!Goto
<1>4. CASE Title!Counted(c) /\ usage[e] < request[c].limit
  <2>1. request' = [request EXCEPT ![c].pc = "call"] /\ usage' = [usage EXCEPT ![e] = @ + 1]
    BY <1>1, <1>4 DEF Title!Consume, Title!Goto
  <2>2. Places(e)' = Places(e) \cup {c} /\ c \notin Places(e)
    BY <1>1, <1>4, <2>1 DEF Places, Title!Counted, TitleTypes, Calls
  <2>3. \A d \in Days \ {e} : Places(d)' = Places(d)
    BY <1>1, <2>1 DEF Places, Title!Counted, TitleTypes, Calls
  <2>4. Astray' = Astray
    BY <1>1, <2>1 DEF Astray, TitleTypes, Calls
  <2>5. \A d \in Days : usage'[d] = Cardinality(Places(d)')
    <3>1. usage[e] = Cardinality(Places(e)) /\ usage'[e] = usage[e] + 1
      BY <1>1, <2>1 DEF TitleInv, TitleTypes
    <3>2. Cardinality(Places(e)') = Cardinality(Places(e)) + 1
      BY <1>1, <2>2, FiniteParts, FS_AddElement
    <3>3. \A d \in Days \ {e} : usage'[d] = Cardinality(Places(d)')
      BY <1>1, <2>1, <2>3 DEF TitleInv, TitleTypes
    <3> QED
      BY <3>1, <3>2, <3>3
  <2>6. PICK n \in limits : Highest(n)
    BY DEF TitleInv
  <2>7. request[c].limit \in limits
    BY <1>4, <1>1 DEF TitleInv, Known, Title!Counted, TitleTypes, Calls
  <2>8. usage[e] + 1 <= n
    BY <1>1, <1>4, <2>6, <2>7 DEF Highest, TitleTypes, Calls
  <2>9. Highest(n)'
    BY <1>1, <2>1, <2>6, <2>8 DEF Highest, TitleTypes
  <2> QED
    BY <1>1, <1>2, <1>3, <2>4, <2>5, <2>6, <2>9 DEF TitleInv
<1>5. CASE ~Title!Counted(c)
  <2>1. request' = [request EXCEPT ![c].pc = "call"] /\ usage' = usage
    BY <1>5 DEF Title!Consume, Title!Goto
  <2>2. \A d \in Days : Places(d)' = Places(d)
    BY <1>1, <1>5, <2>1 DEF Places, Title!Counted, TitleTypes, Calls
  <2>3. Astray' = Astray
    BY <1>1, <2>1 DEF Astray, TitleTypes, Calls
  <2> QED
    BY <1>1, <1>2, <1>3, <2>1, <2>2, <2>3, Quiet
<1>6. CASE Title!Counted(c) /\ ~(usage[e] < request[c].limit)
  <2>1. request' = [request EXCEPT ![c].pc = "done"] /\ usage' = usage
    BY <1>1, <1>6 DEF Title!Consume, Title!Goto
  <2>2. request'[c].pc = "done" /\ \A b \in TitleCalls \ {c} : request'[b] = request[b]
    BY <1>1, <2>1 DEF TitleTypes, Calls
  <2> QED
    BY <1>1, <1>2, <1>3, <2>1, <2>2, Outside
<1> QED
  BY <1>4, <1>5, <1>6

\* The title is set, or not; a place that is to be released is still held.
LEMMA AnswerInv ==
  ASSUME TitleParameters, TitleInv, NEW c \in TitleCalls,
         Title!Applied(c) \/ Title!Failed(c) \/ Title!Lost(c)
  PROVE  TitleInv'
<1>1. /\ TitleTypes /\ c \in TitleCalls /\ request[c].pc = "call" /\ UNCHANGED <<setting, owner, usage, day, limits>>
  BY DEF TitleInv, Title!Applied, Title!Failed, Title!Lost, Title!At
<1>2. PICK pc \in {"kept", "release", "done"} :
        /\ request' = [request EXCEPT ![c].pc = pc]
        /\ pc = "release" => Title!Counted(c)
        /\ pc = "done" => ~Title!Counted(c)
  BY DEF Title!Applied, Title!Failed, Title!Lost, Title!Goto
<1>3. TitleTypes'
  BY <1>1, <1>2 DEF TitleTypes, Calls, Title!Applied, Title!Failed, Title!Lost, Title!Used
<1>4. Known' /\ Taken'
  BY <1>1, <1>2 DEF TitleInv, TitleTypes, Calls, Known, Taken, Title!Counted
<1>5. \A d \in Days : Places(d)' = Places(d)
  BY <1>1, <1>2 DEF Places, Title!Counted, TitleTypes, Calls
<1>6. CASE Title!Applied(c)
  <2>1. Astray' = Astray \ {c} /\ titleSpent' = titleSpent
    BY <1>1, <1>6 DEF Astray, Title!Applied, Title!Goto, TitleTypes, Calls
  <2>2. Cardinality(Astray') <= titleSpent'.lost
    <3>1. /\ Cardinality(Astray) \in Nat /\ titleSpent.lost \in Nat
          /\ Cardinality(Astray) <= titleSpent.lost
      BY <1>1, FiniteParts DEF TitleInv, TitleTypes
    <3>2. Cardinality(Astray \ {c}) \in {Cardinality(Astray), Cardinality(Astray) - 1}
      BY <1>1, FiniteParts, FS_RemoveElement
    <3> QED
      BY <2>1, <3>1, <3>2
  <2> QED
    BY <1>1, <1>3, <1>4, <1>5, <2>2 DEF TitleInv, Highest
<1>7. CASE Title!Failed(c)
  <2>1. Astray' = Astray /\ titleSpent' = titleSpent /\ applied' = applied
    BY <1>1, <1>7 DEF Astray, Title!Failed, Title!Goto, TitleTypes, Calls
  <2> QED
    BY <1>1, <1>3, <1>4, <1>5, <2>1, Quiet
<1>8. CASE Title!Lost(c)
  <2>1. Astray' = Astray \cup {c} /\ titleSpent'.lost = titleSpent.lost + 1
    BY <1>1, <1>8 DEF Astray, Title!Lost, Title!Goto, Title!Used, TitleTypes, Calls
  <2>2. Cardinality(Astray') <= titleSpent'.lost
    <3>1. /\ Cardinality(Astray) \in Nat /\ titleSpent.lost \in Nat
          /\ Cardinality(Astray) <= titleSpent.lost
      BY <1>1, FiniteParts DEF TitleInv, TitleTypes
    <3>2. Cardinality(Astray \cup {c}) \in {Cardinality(Astray), Cardinality(Astray) + 1}
      BY <1>1, FiniteParts, FS_AddElement
    <3> QED
      BY <2>1, <3>1, <3>2
  <2> QED
    BY <1>1, <1>3, <1>4, <1>5, <2>2 DEF TitleInv, Highest
<1> QED
  BY <1>6, <1>7, <1>8

\* A place is given back on the day on which it was taken.
LEMMA ReleaseInv ==
  ASSUME TitleParameters, TitleInv, NEW c \in TitleCalls, Title!Release(c)
  PROVE  TitleInv'
<1>0. PICK e \in Days : e = request[c].day
  BY DEF TitleInv, TitleTypes, Calls
<1>1. /\ TitleTypes /\ e = request[c].day /\ request[c].pc = "release" /\ Title!Counted(c)
      /\ request' = [request EXCEPT ![c].pc = "done"]
      /\ usage' = [usage EXCEPT ![e] = IF @ > 0 THEN @ - 1 ELSE @]
      /\ UNCHANGED <<setting, owner, day, applied, limits, titleSpent>>
  BY <1>0 DEF TitleInv, TitleTypes, Calls, Taken, Title!Release, Title!At, Title!Goto
<1>2. Places(e)' = Places(e) \ {c} /\ c \in Places(e)
  BY <1>1 DEF Places, Title!Counted, TitleTypes, Calls
<1>3. \A d \in Days \ {e} : Places(d)' = Places(d)
  BY <1>1 DEF Places, Title!Counted, TitleTypes, Calls
<1>4. Astray' = Astray
  BY <1>1 DEF Astray, TitleTypes, Calls
<1>5. usage[e] = Cardinality(Places(e)) /\ Places(e) # {} /\ usage[e] \in Nat
  BY <1>1, <1>2 DEF TitleInv, TitleTypes
<1>6. usage[e] # 0
  BY <1>1, <1>5, FiniteParts, FS_EmptySet
<1>7. usage' = [usage EXCEPT ![e] = @ - 1]
  <2>1. usage[e] > 0
    BY <1>5, <1>6
  <2> QED
    BY <1>1, <2>1 DEF TitleTypes
<1>8. \A d \in Days : usage'[d] = Cardinality(Places(d)')
  BY <1>1, <1>2, <1>3, <1>7, FiniteParts, FS_RemoveElement DEF TitleInv, TitleTypes
<1>9. TitleTypes'
  BY <1>1, <1>5, <1>6, <1>7 DEF TitleTypes, Calls
<1>10. Known' /\ Taken'
  BY <1>1 DEF TitleInv, TitleTypes, Calls, Known, Taken, Title!Counted
<1>11. \A n \in limits : Highest(n) => Highest(n)'
  BY <1>1, <1>5, <1>7 DEF Highest, TitleTypes
<1> QED
  BY <1>1, <1>4, <1>8, <1>9, <1>10, <1>11 DEF TitleInv

\* The admin sets another limit: the highest is the higher of the two.
LEMMA ConfigureInv ==
  ASSUME TitleParameters, TitleInv, NEW s \in [on: BOOLEAN, limit: Limits], Title!Configure(s)
  PROVE  TitleInv'
<1>1. /\ TitleTypes /\ s.limit \in Nat /\ setting' = s /\ limits' = limits \cup {s.limit}
      /\ UNCHANGED <<owner, usage, request, day, applied>>
  BY DEF TitleInv, Title!Configure, TitleParameters
<1>2. TitleTypes' /\ titleSpent'.lost = titleSpent.lost
  <2>1. titleSpent' = [titleSpent EXCEPT !.edit = @ + 1]
    BY DEF Title!Configure, Title!Used
  <2>2. titleSpent' \in [edit: Nat, lost: Nat, crash: Nat] /\ titleSpent'.lost = titleSpent.lost
    BY <1>1, <2>1 DEF TitleTypes
  <2>3. setting' \in [on: BOOLEAN, limit: Nat] /\ limits' \subseteq Nat
    BY <1>1 DEF TitleTypes, TitleParameters
  <2> QED
    BY <1>1, <2>2, <2>3 DEF TitleTypes
<1>3. Known' /\ Taken'
  BY <1>1 DEF TitleInv, Known, Taken, Title!Counted
<1>4. Astray' = Astray /\ \A d \in Days : Places(d)' = Places(d)
  BY <1>1 DEF Astray, Places, Title!Counted
<1>5. PICK n \in limits : Highest(n)
  BY DEF TitleInv
<1>6. n \in Nat /\ limits \subseteq Nat /\ \A d \in Days : usage[d] \in Nat
  BY <1>1, <1>5 DEF TitleTypes
<1>7. CASE n >= s.limit
  BY <1>1, <1>2, <1>3, <1>4, <1>5, <1>6, <1>7 DEF TitleInv, Highest
<1>8. CASE n < s.limit
  <2>1. Highest(s.limit)'
    BY <1>1, <1>5, <1>6, <1>8 DEF Highest, Days
  <2> QED
    BY <1>1, <1>2, <1>3, <1>4, <2>1 DEF TitleInv
<1> QED
  BY <1>1, <1>6, <1>7, <1>8

\* A crash cuts the commands off: a place that is held stays taken.
LEMMA CrashInv == ASSUME TitleParameters, TitleInv, Title!Crash PROVE TitleInv'
<1>1. /\ TitleTypes /\ UNCHANGED <<setting, owner, usage, day, applied, limits>>
      /\ titleSpent' = [titleSpent EXCEPT !.crash = @ + 1]
  BY DEF TitleInv, Title!Crash, Title!Used
<1>2. \A c \in TitleCalls :
        /\ request'[c] = [request[c] EXCEPT !.pc =
              IF @ = "idle" THEN @
              ELSE IF @ = "kept" \/ (@ \in {"call", "release"} /\ Title!Counted(c)) THEN "kept"
              ELSE "done"]
        /\ request[c] \in [pc: {"idle", "role", "consume", "call", "release", "kept", "done"},
                         limit: Nat, day: Days]
  BY <1>1 DEF Title!Crash, TitleTypes, Calls
<1>3. \A c \in TitleCalls :
        /\ request'[c].limit = request[c].limit /\ request'[c].day = request[c].day
        /\ request'[c].pc \in {"idle", "kept", "done"}
        /\ request[c].pc = "kept" => request'[c].pc = "kept"
        /\ request'[c].pc = "kept" => request[c].pc \in {"call", "release", "kept"}
        /\ request[c].pc \in {"call", "release"} /\ Title!Counted(c) => request'[c].pc = "kept"
  BY <1>2, ZenonT(30)
<1>4. TitleTypes'
  <2>1. request' \in Calls
    BY <1>1, <1>2, <1>3 DEF TitleTypes, Calls, Title!Crash
  <2> QED
    BY <1>1, <2>1 DEF TitleTypes
<1>5. Known' /\ Taken'
  BY <1>1, <1>3 DEF TitleInv, Known, Taken
<1>6. \A d \in Days : Places(d)' = Places(d)
  BY <1>3 DEF Places, Title!Counted
<1>7. Astray' \subseteq Astray
  BY <1>1, <1>3 DEF Astray, TitleTypes
<1>8. Cardinality(Astray') <= Cardinality(Astray) /\ Cardinality(Astray') \in Nat
  BY <1>1, <1>7, FiniteParts, FS_Subset, FS_CardinalityType
<1>9. Cardinality(Astray') <= titleSpent'.lost
  BY <1>1, <1>8, FiniteParts DEF TitleInv, TitleTypes
<1> QED
  BY <1>1, <1>4, <1>5, <1>6, <1>9 DEF TitleInv, Highest

\* Every step keeps the invariant.
LEMMA TitleNext == ASSUME TitleParameters, TitleInv, [Title!Next]_Title!vars PROVE TitleInv'
<1>1. ASSUME NEW c \in TitleCalls,
             Title!Command(c) \/ Title!Role(c) \/ Title!RoleFailed(c) \/ Title!Consume(c) \/ Title!Applied(c) \/ Title!Failed(c)
               \/ Title!Lost(c) \/ Title!Release(c)
      PROVE  TitleInv'
  BY <1>1, BeginInv, ConsumeInv, AnswerInv, ReleaseInv
<1>2. ASSUME NEW s \in [on: BOOLEAN, limit: Limits], Title!Configure(s) PROVE TitleInv'
  BY <1>2, ConfigureInv
<1>3. CASE Title!Owner \/ Title!Midnight \/ UNCHANGED Title!vars
  <2>1. /\ UNCHANGED <<setting, usage, request, applied, limits, titleSpent>>
        /\ day' = day \/ Title!Midnight
    BY <1>3 DEF Title!Owner, Title!Midnight, Title!vars
  <2>2. day' \in Days
    BY <1>3, <2>1 DEF TitleInv, TitleTypes, Title!Midnight, Days, TitleParameters
  <2>3. TitleTypes' /\ Known' /\ Taken'
    BY <2>1, <2>2 DEF TitleInv, TitleTypes, Known, Taken, Title!Counted
  <2>4. Astray' = Astray /\ \A d \in Days : Places(d)' = Places(d)
    BY <2>1 DEF Astray, Places, Title!Counted
  <2> QED
    BY <2>1, <2>3, <2>4, Quiet
<1>4. CASE Title!Crash
  BY <1>4, CrashInv
<1> QED
  BY <1>1, <1>2, <1>3, <1>4 DEF Title!Next

-----------------------------------------------------------------------------
\* The operator of the instance is that of FiniteSets.
LEMMA TitleCount == \A S : Title!Cardinality(S) = Cardinality(S)
BY DEF Title!Cardinality, Cardinality

\* The places of a day are those that its count says, and all that was set was reserved
\* or lost its receipt.
LEMMA TitleSafe == ASSUME TitleParameters, TitleInv PROVE Title!Quota
<1>1. PICK n \in limits : Highest(n)
  BY DEF TitleInv
<1> DEFINE highest == CHOOSE k \in limits : \A m \in limits : m <= k
<1>2. highest = n
  <2>1. limits \subseteq Nat /\ n \in limits /\ \A m \in limits : m <= n
    BY <1>1 DEF TitleInv, TitleTypes, Highest
  <2>2. highest \in limits /\ \A m \in limits : m <= highest
    BY <2>1
  <2>3. highest \in Nat /\ n \in Nat /\ highest <= n /\ n <= highest
    BY <2>1, <2>2
  <2> QED
    BY <2>3
<1> SUFFICES ASSUME NEW d \in Days
             PROVE  LET of(pcs) == {c \in TitleCalls : Title!Counted(c) /\ request[c].day = d /\ request[c].pc \in pcs}
                    IN /\ usage[d] = Title!Cardinality(of({"call", "release", "kept"}))
                       /\ usage[d] <= highest
                       /\ Title!Cardinality(of({"call", "release", "kept", "done"}) \cap applied)
                            <= highest + titleSpent.lost
  BY DEF Title!Quota, Days
<1> DEFINE of(pcs) == {c \in TitleCalls : Title!Counted(c) /\ request[c].day = d /\ request[c].pc \in pcs}
           set == of({"call", "release", "kept", "done"}) \cap applied
<1>3. of({"call", "release", "kept"}) = Places(d)
  BY DEF Places
<1>4. usage[d] = Cardinality(Places(d)) /\ usage[d] <= highest /\ n \in Nat /\ titleSpent.lost \in Nat
  BY <1>1, <1>2 DEF TitleInv, Highest, TitleTypes
<1>5. IsFiniteSet(Places(d)) /\ IsFiniteSet(Astray)
      /\ Cardinality(Places(d)) \in Nat /\ Cardinality(Astray) \in Nat
  BY FiniteParts DEF TitleInv
<1>6. set \subseteq Places(d) \cup Astray
  BY DEF Places, Astray
<1>7. IsFiniteSet(Places(d) \cup Astray)
      /\ Cardinality(Places(d) \cup Astray) <= Cardinality(Places(d)) + Cardinality(Astray)
  <2>1. IsFiniteSet(Places(d) \cap Astray)
    BY <1>5, FS_Intersection
  <2>2. Cardinality(Places(d) \cap Astray) \in Nat
    BY <2>1, FS_CardinalityType
  <2>3. IsFiniteSet(Places(d) \cup Astray)
        /\ Cardinality(Places(d) \cup Astray) = Cardinality(Places(d)) + Cardinality(Astray)
             - Cardinality(Places(d) \cap Astray)
    BY <1>5, FS_Union
  <2> QED
    BY <1>5, <2>2, <2>3
<1>8. Cardinality(set) <= Cardinality(Places(d) \cup Astray) /\ Cardinality(set) \in Nat
      /\ Cardinality(Places(d) \cup Astray) \in Nat
  BY <1>6, <1>7, FS_Subset, FS_CardinalityType
<1>9. Cardinality(set) <= highest + titleSpent.lost
  <2>1. Cardinality(Astray) <= titleSpent.lost /\ Cardinality(Places(d)) <= highest /\ highest \in Nat
    BY <1>2, <1>4 DEF TitleInv
  <2> HIDE DEF highest, set
  <2> QED
    BY <1>4, <1>5, <1>7, <1>8, <2>1
<1>10. usage[d] = Title!Cardinality(of({"call", "release", "kept"}))
  BY <1>3, <1>4, TitleCount
<1>11. Title!Cardinality(set) <= highest + titleSpent.lost
  BY <1>9, TitleCount
<1> QED
  BY <1>4, <1>10, <1>11

\* The count of each day is that of the places taken on it and is never above the limits,
\* nor are the titles unless a receipt was lost - however commands at the limit interleave,
\* fail, give their places back or are cut off, and however often the limit is edited.
THEOREM QuotaHolds == ASSUME TitleParameters PROVE Title!Spec => []Quota
<1>1. Title!Init => TitleInv
  BY TitleInit
<1>2. TitleInv /\ [Title!Next]_Title!vars => TitleInv'
  BY TitleNext
<1>3. TitleInv => Title!Quota
  BY TitleSafe
<1> QED
  BY <1>1, <1>2, <1>3, PTL DEF Title!Spec, Quota

-----------------------------------------------------------------------------
(* Danmaku clients *)

\* The records of clients.
ClientRec ==
  [made: BOOLEAN, running: BOOLEAN, start: BOOLEAN, conn: {"none", "info", "dial", "auth"},
   host: Int, hb: BOOLEAN, msg: BOOLEAN, rec: {"none", "new", "io", "close", "sleep", "connect"},
   ws: {"none", "open", "closed", "dead"}, stop: {"no", "msg", "rec", "close", "done"},
   late: BOOLEAN]

\* What stop() has ended stays so: nothing restarts it.
Ending(r) ==
  /\ r.stop # "no" => ~r.running /\ ~r.hb /\ (r.late \/ ~r.start)
  /\ r.stop \in {"rec", "close", "done"} => ~r.msg
  /\ ~r.start /\ r.conn # "none" => r.rec = "connect"
  /\ r.stop \in {"close", "done"} /\ ~r.late => r.rec = "none"
  /\ r.stop = "done" /\ ~r.late => r.ws # "open"

Ends == {r \in ClientRec : Ending(r)}

AllEnding == client \in [Clients -> Ends]

\* One client changes.

LEMMA EndingInit == ASSUME Danmaku!Init PROVE AllEnding
BY DEF Danmaku!Init, Danmaku!Blank, AllEnding, Ending, Ends, ClientRec

\* One client changes; or c is none of them.
LEMMA EndingOne ==
  ASSUME AllEnding, NEW c, NEW r, c \in Clients => r \in Ends, client' = [client EXCEPT ![c] = r]
  PROVE  AllEnding'
BY DEF AllEnding

\* What the steps make of a record.
LEMMA EndsBegun == ASSUME NEW r \in Ends PROVE Danmaku!StopBegun(r) \in Ends
<1> DEFINE q == [r EXCEPT !.running = FALSE, !.hb = FALSE, !.stop = "msg", !.late = r.start]
<1>1. CASE r.running
  <2>1. q \in ClientRec
    BY DEF Ends, ClientRec
  <2>2. /\ ~q.running /\ ~q.hb /\ q.stop = "msg" /\ q.late = r.start /\ q.start = r.start
        /\ q.conn = r.conn /\ q.rec = r.rec
    BY DEF Ends, ClientRec
  <2>3. r.start \in BOOLEAN
    BY DEF Ends, ClientRec
  <2> HIDE DEF q
  <2>4. Ending(q)
    BY <2>2, <2>3, <1>1 DEF Ending, Ends
  <2> QED
    BY <1>1, <2>1, <2>4 DEF Danmaku!StopBegun, Ends, q
<1> QED
  BY <1>1 DEF Danmaku!StopBegun

LEMMA EndsStopping ==
  ASSUME NEW r \in Ends
  PROVE  /\ r.stop = "msg" => [r EXCEPT !.msg = FALSE, !.stop = "rec"] \in Ends
         /\ r.stop = "rec" /\ r.rec = "none" => [r EXCEPT !.stop = "close"] \in Ends
         /\ r.stop = "close" =>
              [r EXCEPT !.stop = "done", !.ws = IF @ = "open" THEN "closed" ELSE @] \in Ends
<1>1. CASE r.stop = "msg"
  BY <1>1 DEF Ends, Ending, ClientRec
<1>2. CASE r.stop = "rec"
  BY <1>2 DEF Ends, Ending, ClientRec
<1>3. CASE r.stop = "close"
  BY <1>3 DEF Ends, Ending, ClientRec
<1> QED
  BY <1>1, <1>2, <1>3

\* The reconnect task ends the loops, closes the socket, or is ended.
LEMMA EndsReconnecting ==
  ASSUME NEW r \in Ends
  PROVE  /\ r.rec = "io" => [r EXCEPT !.rec = "close", !.hb = FALSE, !.msg = FALSE] \in Ends
         /\ r.rec # "none" => [r EXCEPT !.rec = "none", !.conn = "none"] \in Ends
         /\ r.rec = "new" => [r EXCEPT !.rec = IF r.running THEN "io" ELSE "none"] \in Ends
         /\ r.rec = "close" =>
              [r EXCEPT !.rec = "sleep", !.ws = IF @ = "open" THEN "closed" ELSE @] \in Ends
         /\ r.rec = "sleep" => [r EXCEPT !.rec = "connect", !.conn = "info"] \in Ends
         /\ r.rec = "sleep" => [r EXCEPT !.rec = "none"] \in Ends
<1>1. r.rec = "io" => [r EXCEPT !.rec = "close", !.hb = FALSE, !.msg = FALSE] \in Ends
  BY DEF Ends, Ending, ClientRec
<1>2. ASSUME r.rec # "none" PROVE [r EXCEPT !.rec = "none", !.conn = "none"] \in Ends
  <2> DEFINE q == [r EXCEPT !.rec = "none", !.conn = "none"]
  <2>1. q \in ClientRec
    BY DEF Ends, ClientRec
  <2>2. /\ (q.running => r.running) /\ (q.start => r.start) /\ (q.hb => r.hb)
        /\ (q.msg => r.msg) /\ (r.late => q.late) /\ q.stop = r.stop /\ q.ws = r.ws
        /\ q.rec = "none" /\ q.conn = "none"
    BY DEF Ends, ClientRec
  <2> HIDE DEF q
  <2>3. Ending(q)
    BY <2>2, <1>2 DEF Ends, Ending
  <2> QED
    BY <2>1, <2>3 DEF Ends, q
<1>3. r.rec = "new" => [r EXCEPT !.rec = IF r.running THEN "io" ELSE "none"] \in Ends
  BY DEF Ends, Ending, ClientRec
<1>4. r.rec = "close" =>
        [r EXCEPT !.rec = "sleep", !.ws = IF @ = "open" THEN "closed" ELSE @] \in Ends
  BY DEF Ends, Ending, ClientRec
<1>5. ASSUME r.rec = "sleep"
      PROVE  /\ [r EXCEPT !.rec = "connect", !.conn = "info"] \in Ends
             /\ [r EXCEPT !.rec = "none"] \in Ends
  <2>1. [r EXCEPT !.rec = "none"] \in Ends
    BY <1>5 DEF Ends, Ending, ClientRec
  <2> DEFINE q == [r EXCEPT !.rec = "connect", !.conn = "info"]
  <2>2. q \in ClientRec
    BY DEF Ends, ClientRec
  <2>3. /\ (q.running => r.running) /\ (q.start => r.start) /\ (q.hb => r.hb)
        /\ (q.msg => r.msg) /\ (r.late => q.late) /\ q.stop = r.stop /\ q.rec = "connect"
    BY DEF Ends, ClientRec
  <2> HIDE DEF q
  <2>4. r.stop \in {"close", "done"} => r.late
    BY <1>5 DEF Ends, Ending
  <2>5. Ending(q)
    BY <2>3, <2>4 DEF Ends, Ending
  <2> QED
    BY <1>5, <2>1, <2>2, <2>5 DEF Ends, q
<1> QED
  BY <1>1, <1>2, <1>3, <1>4, <1>5

\* A step of the connection: it is not of a client that stop() has ended.
LEMMA EndsConnecting ==
  ASSUME NEW r \in Ends, r.conn # "none", NEW conn \in {"dial", "auth"}, NEW host \in Int,
         NEW ws \in {"none", "open", "closed", "dead"}
  PROVE  [r EXCEPT !.ws = ws, !.host = host, !.conn = conn] \in Ends
<1> DEFINE q == [r EXCEPT !.ws = ws, !.host = host, !.conn = conn]
<1>1. q \in ClientRec
  BY DEF Ends, ClientRec
<1>2. /\ q.conn # "none" /\ q.running = r.running /\ q.start = r.start /\ q.hb = r.hb
      /\ q.msg = r.msg /\ q.rec = r.rec /\ q.stop = r.stop /\ q.late = r.late
  BY DEF Ends, ClientRec
<1> HIDE DEF q
<1>3. Ending(q)
  BY <1>2 DEF Ends, Ending
<1> QED
  BY <1>1, <1>3 DEF Ends, q

\* A connection succeeds, or the last host has refused it.
LEMMA EndsConnected ==
  ASSUME NEW r \in Ends, r.conn # "none"
  PROVE  [r EXCEPT !.conn = "none", !.rec = "none", !.start = FALSE, !.hb = r.running,
                   !.msg = r.running] \in Ends
BY DEF Ends, Ending, ClientRec

LEMMA EndsFailed == ASSUME NEW r \in Ends, r.conn # "none" PROVE Danmaku!Failed(r) \in Ends
<1> DEFINE q == Danmaku!Failed(r)
<1>1. q \in ClientRec
  BY DEF Ends, ClientRec, Danmaku!Failed
<1>2. /\ q.conn = "none" /\ ~q.start /\ (q.running => r.running) /\ (q.hb => r.hb)
      /\ (q.msg => r.msg) /\ q.ws = r.ws /\ q.stop = r.stop /\ (r.late => q.late)
      /\ (~r.start => q.rec = "new") /\ (r.start => q.rec = r.rec)
  BY DEF Ends, ClientRec, Danmaku!Failed
<1> HIDE DEF q
<1>3. r.stop # "no" /\ r.start => r.late
  BY DEF Ends, Ending
<1>4. r.stop \in {"close", "done"} => r.late
  BY <1>3 DEF Ends, Ending
<1>5. Ending(q)
  BY <1>2, <1>4 DEF Ending, Ends
<1> QED
  BY <1>1, <1>5 DEF Ends, q

\* A loop ends, and has the client connect again if it runs.
LEMMA EndsScheduled ==
  ASSUME NEW r \in Ends, NEW q \in {[r EXCEPT !.hb = FALSE], [r EXCEPT !.msg = FALSE]}
  PROVE  Danmaku!Scheduled(q) \in Ends
<1>1. q \in Ends
  <2>1. [r EXCEPT !.hb = FALSE] \in Ends
    BY DEF Ends, Ending, ClientRec
  <2>2. [r EXCEPT !.msg = FALSE] \in Ends
    BY DEF Ends, Ending, ClientRec
  <2> QED
    BY <2>1, <2>2
<1>2. CASE q.running /\ q.rec = "none"
  <2>1. [q EXCEPT !.rec = "new"] \in Ends
    BY <1>1, <1>2 DEF Ends, Ending, ClientRec
  <2> QED
    BY <1>2, <2>1 DEF Danmaku!Scheduled
<1> QED
  BY <1>1, <1>2 DEF Danmaku!Scheduled

\* The socket is lost or closed, a start() is cut off.
LEMMA EndsCut ==
  ASSUME NEW r \in Ends
  PROVE  /\ r.ws = "open" => [r EXCEPT !.ws = "dead"] \in Ends
         /\ [r EXCEPT !.ws = IF @ = "open" THEN "closed" ELSE @] \in Ends
         /\ [r EXCEPT !.conn = "none", !.start = FALSE] \in Ends
<1>1. [r EXCEPT !.conn = "none", !.start = FALSE] \in Ends
  BY DEF Ends, Ending, ClientRec
<1>2. [r EXCEPT !.ws = IF @ = "open" THEN "closed" ELSE @] \in Ends
  BY DEF Ends, Ending, ClientRec
<1>3. r.ws = "open" => [r EXCEPT !.ws = "dead"] \in Ends
  BY DEF Ends, Ending, ClientRec
<1> QED
  BY <1>1, <1>2, <1>3

\* stop() goes on.
LEMMA StopNextEnding ==
  ASSUME AllEnding, NEW c \in Clients, Danmaku!StopNext(c) PROVE AllEnding'
<1>1. client[c] \in Ends
  BY DEF AllEnding
<1>2. CASE Danmaku!StopMessages(c)
  <2>1. client' = [client EXCEPT ![c] = [client[c] EXCEPT !.msg = FALSE, !.stop = "rec"]]
    BY <1>2 DEF AllEnding, Danmaku!StopMessages
  <2> QED
    BY <1>1, <1>2, <2>1, EndsStopping, EndingOne DEF Danmaku!StopMessages
<1>3. CASE Danmaku!StopReconnect(c)
  <2>1. CASE client[c].rec = "none"
    <3>1. client' = [client EXCEPT ![c] = [client[c] EXCEPT !.stop = "close"]]
      BY <1>3, <2>1 DEF AllEnding, Danmaku!StopReconnect
    <3> QED
      BY <1>1, <1>3, <2>1, <3>1, EndsStopping, EndingOne DEF Danmaku!StopReconnect
  <2>2. CASE client[c].rec = "io"
    <3>1. client' = [client EXCEPT ![c] =
                       [client[c] EXCEPT !.rec = "close", !.hb = FALSE, !.msg = FALSE]]
      BY <1>3, <2>2 DEF AllEnding, Danmaku!StopReconnect
    <3> QED
      BY <1>1, <2>2, <3>1, EndsReconnecting, EndingOne
  <2>3. CASE client[c].rec \notin {"none", "io"}
    <3>1. client' = [client EXCEPT ![c] = [client[c] EXCEPT !.rec = "none", !.conn = "none"]]
      BY <1>3, <2>3 DEF AllEnding, Danmaku!StopReconnect
    <3> QED
      BY <1>1, <2>3, <3>1, EndsReconnecting, EndingOne
  <2> QED
    BY <2>1, <2>2, <2>3
<1>4. CASE Danmaku!StopClose(c)
  <2>1. client' = [client EXCEPT ![c] = [client[c] EXCEPT
                     !.stop = "done", !.ws = IF @ = "open" THEN "closed" ELSE @]]
    BY <1>4 DEF AllEnding, Danmaku!StopClose
  <2> QED
    BY <1>1, <1>4, <2>1, EndsStopping, EndingOne DEF Danmaku!StopClose
<1> QED
  BY <1>2, <1>3, <1>4 DEF Danmaku!StopNext

\* The start() of a task returns or raises, and the old client is stopped or taken back.
LEMMA StartedEnding ==
  ASSUME NEW cl \in [Clients -> Ends], NEW t, Danmaku!Started(t, cl) \/ Danmaku!StartFailed(t, cl)
  PROVE  AllEnding'
<1>1. CASE Danmaku!Started(t, cl) /\ worker[t].old # Nobody
  <2>1. client' = [cl EXCEPT ![worker[t].old] = Danmaku!StopBegun(@)]
    BY <1>1 DEF Danmaku!Started
  <2>2. \A c \in Clients : Danmaku!StopBegun(cl[c]) \in Ends
    BY EndsBegun
  <2> QED
    BY <2>1, <2>2 DEF AllEnding
<1> QED
  BY <1>1 DEF Danmaku!Started, Danmaku!StartFailed, AllEnding

\* A connection is made, is refused, or starts over.
LEMMA StartNextEnding ==
  ASSUME AllEnding, NEW c \in Clients, Danmaku!StartNext(c) PROVE AllEnding'
<1> DEFINE r == client[c]
<1>1. r \in Ends /\ r \in ClientRec
  BY DEF AllEnding, Ends
<1>2. CASE Danmaku!Info(c)
  <2>1. r.conn # "none"
    BY <1>2 DEF Danmaku!Info
  <2>2. PICK ws \in {"none", "open", "closed", "dead"} : ws = r.ws
    BY <1>1 DEF ClientRec
  <2> DEFINE q == [r EXCEPT !.ws = ws, !.host = 0, !.conn = "dial"]
  <2>3. q \in Ends
    <3>1. r \in Ends /\ r.conn # "none" /\ 0 \in Int /\ "dial" \in {"dial", "auth"}
      BY <1>1, <2>1
    <3> HIDE DEF r
    <3> QED
      BY <3>1, EndsConnecting
  <2>4. q = [r EXCEPT !.conn = "dial", !.host = 0]
    BY <1>1, <2>2 DEF ClientRec
  <2>5. client' = [client EXCEPT ![c] = q]
    BY <1>2, <2>4 DEF AllEnding, Danmaku!Info
  <2> QED
    BY <2>3, <2>5, EndingOne
<1>3. CASE Danmaku!Dial(c)
  <2> DEFINE q == [r EXCEPT !.ws = "open", !.host = r.host, !.conn = "auth"]
  <2>1. q \in Ends
    BY <1>1, <1>3, EndsConnecting DEF Danmaku!Dial, ClientRec
  <2>2. q = [r EXCEPT !.conn = "auth", !.ws = "open"]
    BY <1>1 DEF ClientRec
  <2>3. client' = [client EXCEPT ![c] = q]
    BY <1>3, <2>2 DEF AllEnding, Danmaku!Dial
  <2> QED
    BY <2>1, <2>3, EndingOne
<1>4. CASE Danmaku!Accepted(c)
  <2> DEFINE q == [r EXCEPT !.conn = "none", !.rec = "none", !.start = FALSE,
                            !.hb = r.running, !.msg = r.running]
  <2>1. q \in Ends
    BY <1>1, <1>4, EndsConnected DEF Danmaku!Accepted
  <2>2. [client EXCEPT ![c] = q] \in [Clients -> Ends]
    BY <2>1 DEF AllEnding
  <2>3. \/ \E t \in Danmaku!Starter(c) : Danmaku!Started(t, [client EXCEPT ![c] = q])
        \/ client' = [client EXCEPT ![c] = q]
    BY <1>4 DEF Danmaku!Accepted
  <2> QED
    BY <2>2, <2>3, StartedEnding DEF AllEnding
<1>5. CASE Danmaku!Refused(c)
  <2> DEFINE closed == IF r.conn = "auth" THEN "closed" ELSE r.ws
             q == [r EXCEPT !.ws = closed, !.host = @ + 1, !.conn = "dial"]
  <2>1. r.conn # "none" /\ r.host + 1 \in Int /\ closed \in {"none", "open", "closed", "dead"}
    BY <1>1, <1>5 DEF Danmaku!Refused, ClientRec
  <2>2. q \in Ends
    BY <1>1, <2>1, EndsConnecting
  <2>3. q.conn # "none"
    BY <1>1 DEF ClientRec
  <2>4. Danmaku!Failed(q) \in Ends
    <3> HIDE DEF q
    <3> QED
      BY <2>2, <2>3, EndsFailed
  <2>5. /\ [client EXCEPT ![c] = q] \in [Clients -> Ends]
        /\ [client EXCEPT ![c] = Danmaku!Failed(q)] \in [Clients -> Ends]
    BY <2>2, <2>4 DEF AllEnding
  <2>6. \/ client' = [client EXCEPT ![c] = q]
        \/ client' = [client EXCEPT ![c] = Danmaku!Failed(q)]
        \/ \E t \in Danmaku!Starter(c) :
             Danmaku!StartFailed(t, [client EXCEPT ![c] = Danmaku!Failed(q)])
    BY <1>5 DEF Danmaku!Refused
  <2> QED
    BY <2>5, <2>6, StartedEnding DEF AllEnding
<1> QED
  BY <1>2, <1>3, <1>4, <1>5 DEF Danmaku!StartNext

\* A loop ends, a socket is lost, the reconnect task goes on.
LEMMA LoopEnding ==
  ASSUME AllEnding, NEW c \in Clients,
         \/ Danmaku!HeartbeatFailed(c) \/ Danmaku!MessagesFailed(c) \/ Danmaku!Drop(c)
         \/ Danmaku!Reconnect(c)
  PROVE  AllEnding'
<1> DEFINE r == client[c]
<1>1. r \in Ends /\ r \in ClientRec
  BY DEF AllEnding, Ends
<1>2. CASE Danmaku!HeartbeatFailed(c)
  BY <1>1, <1>2, EndsScheduled, EndingOne DEF Danmaku!HeartbeatFailed
<1>3. CASE Danmaku!MessagesFailed(c)
  BY <1>1, <1>3, EndsScheduled, EndingOne DEF Danmaku!MessagesFailed
<1>4. CASE Danmaku!Drop(c)
  BY <1>1, <1>4, EndsCut, EndingOne DEF Danmaku!Drop, Danmaku!Set
<1>5. CASE Danmaku!Reconnect(c)
  <2>1. \E q \in Ends : client' = [client EXCEPT ![c] = q]
    <3>1. CASE r.rec = "new"
      BY <1>1, <1>5, <3>1, EndsReconnecting DEF Danmaku!Reconnect
    <3>2. CASE r.rec = "io"
      BY <1>1, <1>5, <3>2, EndsReconnecting DEF Danmaku!Reconnect
    <3>3. CASE r.rec = "close"
      BY <1>1, <1>5, <3>3, EndsReconnecting DEF Danmaku!Reconnect
    <3>4. CASE r.rec = "sleep"
      BY <1>1, <1>5, <3>4, EndsReconnecting DEF Danmaku!Reconnect
    <3> QED
      BY <1>5, <3>1, <3>2, <3>3, <3>4 DEF Danmaku!Reconnect
  <2> QED
    BY <2>1, EndingOne
<1> QED
  BY <1>2, <1>3, <1>4, <1>5

\* A background task begins or ends: a new client takes the place of an unused one.
LEMMA TaskNextEnding == ASSUME AllEnding, NEW t \in Tasks, Danmaku!TaskNext(t) PROVE AllEnding'
<1> DEFINE q == [Danmaku!Blank EXCEPT !.made = TRUE, !.running = TRUE, !.start = TRUE,
                                      !.conn = "info"]
<1>1. q \in Ends
  <2>1. Danmaku!Blank \in ClientRec /\ Danmaku!Blank.stop = "no"
    BY DEF Danmaku!Blank, ClientRec
  <2>2. q \in ClientRec /\ q.stop = "no" /\ q.start
    BY <2>1 DEF ClientRec
  <2> QED
    BY <2>2 DEF Ends, Ending
<1>2. client' = client \/ \E c : client' = [client EXCEPT ![c] = q]
  BY DEF Danmaku!TaskNext, Danmaku!Begin, Danmaku!TaskEnd
<1> QED
  BY <1>1, <1>2, EndingOne DEF AllEnding

\* The registered client is stopped.
LEMMA StopRegisteredEnding ==
  ASSUME AllEnding, NEW those, Danmaku!StopRegistered(those) PROVE AllEnding'
<1>1. \A c \in Clients : Danmaku!StopBegun(client[c]) \in Ends
  BY EndsBegun DEF AllEnding
<1> QED
  BY <1>1 DEF Danmaku!StopRegistered, AllEnding

\* start, stop and reload of the monitor.
LEMMA MainEnding ==
  ASSUME AllEnding, Danmaku!MainNext \/ Danmaku!Gathered \/ Danmaku!Stopped PROVE AllEnding'
<1>1. CASE Danmaku!StartMonitor \/ Danmaku!NewCookie
  BY <1>1 DEF Danmaku!StartMonitor, Danmaku!NewCookie, AllEnding
<1>2. CASE Danmaku!ToggleRoom \/ Danmaku!Gathered
  BY <1>2, StopRegisteredEnding DEF Danmaku!ToggleRoom, Danmaku!Gathered
<1>3. CASE Danmaku!ToggleWebsocket
  BY <1>3, StopRegisteredEnding DEF Danmaku!ToggleWebsocket, AllEnding
<1>4. CASE Danmaku!StopMonitor
  <2>1. \A c \in Clients : [client[c] EXCEPT !.conn = "none", !.start = FALSE] \in Ends
    BY EndsCut DEF AllEnding
  <2>2. PICK new : client' = [c \in Clients |-> IF c \in new
                                THEN [client[c] EXCEPT !.conn = "none", !.start = FALSE]
                                ELSE client[c]]
    BY <1>4 DEF Danmaku!StopMonitor
  <2> QED
    BY <2>1, <2>2 DEF AllEnding
<1>5. CASE Danmaku!Stopped
  <2>1. \A c \in Clients : [client[c] EXCEPT !.ws = IF @ = "open" THEN "closed" ELSE @] \in Ends
    BY EndsCut DEF AllEnding
  <2> QED
    BY <1>5, <2>1 DEF Danmaku!Stopped, AllEnding
<1> QED
  BY <1>1, <1>2, <1>3, <1>4, <1>5 DEF Danmaku!MainNext

LEMMA EndingStep == ASSUME AllEnding, [Danmaku!Next]_(Danmaku!vars) PROVE AllEnding'
<1>1. CASE UNCHANGED Danmaku!vars
  BY <1>1 DEF Danmaku!vars, AllEnding
<1> QED
  BY <1>1, StopNextEnding, StartNextEnding, LoopEnding, TaskNextEnding, MainEnding
     DEF Danmaku!Next

\* DanmakuClients!Closed: stop() leaves no loop, no reconnect and no socket behind, unless
\* it came while start() was connecting.
THEOREM ClientsClosed == Danmaku!Spec => []Closed
<1>1. AllEnding => Danmaku!Closed
  <2> SUFFICES ASSUME AllEnding, NEW c \in Clients, client[c].stop = "done", ~client[c].late
               PROVE  /\ ~client[c].hb /\ ~client[c].msg /\ client[c].rec = "none"
                      /\ client[c].conn = "none" /\ client[c].ws # "open"
    BY DEF Danmaku!Closed
  <2> QED
    BY DEF AllEnding, Ends, Ending
<1> QED
  BY <1>1, EndingInit, EndingStep, PTL DEF Danmaku!Spec, Closed

-----------------------------------------------------------------------------
(* Screenshots *)

\* Callers are finitely many, and a call is a capture or a change of the service.
ShotParameters ==
  /\ IsFiniteSet(Shots!Task) /\ Capture \cap Service = {}
  /\ Slots \in Nat \ {0} /\ Nobody \notin Nat /\ Nobody \notin Shots!Task

Browser == Nat \cup {Nobody}

CallerRec ==
  [pc: {"idle", "closelock", "slot", "init", "life", "aclose", "launch", "page"},
   held: 0 .. Slots, on: Browser, action: {Nobody, "init", "close"}]

ShotTypes ==
  /\ task \in [Shots!Task -> CallerRec] /\ context \in Browser /\ started \in Nat
  /\ lock \in [{"init", "close", "life"} -> Shots!Task \cup {Nobody}]

\* Who is about to replace the browser.
Replaces(t) == task[t].pc \in {"life", "aclose", "launch"}

\* The slots of a caller, and the lock of a capture that replaces the browser.
Holds(t) ==
  /\ task[t].pc \in {"idle", "closelock"} => task[t].held = 0
  /\ task[t].pc = "slot" => task[t].held < Shots!Needs(t)
  /\ task[t].pc \in {"init", "page"} => t \in Capture
  /\ t \in Capture /\ task[t].pc \in {"init", "page", "life", "aclose", "launch"} => task[t].held = 1
  /\ t \in Service /\ Replaces(t) => task[t].held = Slots
  /\ t \in Capture /\ Replaces(t) => lock["init"] = t

\* What is known of the browser while t replaces it.
Replaced(t) ==
  /\ t \in Capture /\ task[t].pc \in {"life", "aclose"} => alive = {}
  /\ task[t].pc \in {"aclose", "launch"} => context = Nobody
  /\ task[t].pc = "launch" => alive = {}

ShotInv ==
  /\ ShotTypes
  /\ Shots!Taken <= Slots
  /\ \A t \in Shots!Task : Holds(t) /\ Replaced(t)
  /\ alive \subseteq {owned}
  /\ context # Nobody => context = owned
  /\ context = Nobody => alive = {} \/ \E t \in Shots!Task : task[t].pc = "aclose"
  /\ \A t \in Capture : task[t].pc = "page" => task[t].on \in alive \cup crashed

-----------------------------------------------------------------------------
\* The operator of the instance is that of FiniteSets.
LEMMA TakenIs == Shots!Taken = Cardinality(Shots!Held)
<1>1. Shots!Cardinality(Shots!Held) = Cardinality(Shots!Held)
  BY DEF Shots!Cardinality, Cardinality
<1> QED
  BY <1>1 DEF Shots!Taken

LEMMA HeldFinite ==
  ASSUME ShotParameters, ShotTypes
  PROVE  IsFiniteSet(Shots!Held) /\ Shots!Taken \in Nat
<1>1. IsFiniteSet(1 .. Slots)
  BY FS_Interval DEF ShotParameters
<1>2. IsFiniteSet(Shots!Task \X (1 .. Slots))
  BY <1>1, FS_Product DEF ShotParameters
<1>3. Shots!Held \in SUBSET (Shots!Task \X (1 .. Slots))
  BY DEF Shots!Held
<1>4. IsFiniteSet(Shots!Held)
  BY <1>2, <1>3, FS_Subset
<1>5. Cardinality(Shots!Held) \in Nat
  BY <1>4, FS_CardinalityType
<1> QED
  BY <1>4, <1>5, TakenIs

\* Who holds all slots is the only one who holds any.
LEMMA AllSlots ==
  ASSUME ShotParameters, ShotTypes, Shots!Taken <= Slots,
         NEW t \in Shots!Task, task[t].held = Slots, NEW u \in Shots!Task, u # t
  PROVE  task[u].held = 0
<1> SUFFICES ASSUME task[u].held # 0 PROVE FALSE
  OBVIOUS
<1> DEFINE A == {t} \X (1 .. Slots)
           B == A \cup {<<u, 1>>}
<1>1. IsFiniteSet({t}) /\ Cardinality({t}) = 1
  BY FS_Singleton
<1>2. IsFiniteSet(1 .. Slots) /\ Cardinality(1 .. Slots) = Slots
  <2>1. 1 \in Int /\ Slots \in Int /\ ~(1 > Slots) /\ Slots - 1 + 1 = Slots
    BY DEF ShotParameters
  <2> QED
    BY <2>1, FS_Interval
<1>3. IsFiniteSet(A) /\ Cardinality(A) = Slots
  <2>1. IsFiniteSet(A) /\ Cardinality(A) = Cardinality({t}) * Cardinality(1 .. Slots)
    BY <1>1, <1>2, FS_Product
  <2> QED
    BY <1>1, <1>2, <2>1 DEF ShotParameters
<1>4. <<u, 1>> \notin A
  OBVIOUS
<1>5. IsFiniteSet(B) /\ Cardinality(B) = Slots + 1
  BY <1>3, <1>4, FS_AddElement
<1>6. B \subseteq Shots!Held
  BY DEF Shots!Held, ShotTypes, CallerRec, ShotParameters
<1>7. Cardinality(B) <= Shots!Taken
  <2>1. IsFiniteSet(Shots!Held) /\ B \in SUBSET Shots!Held
    BY <1>6, HeldFinite
  <2> HIDE DEF B
  <2>2. Cardinality(B) <= Cardinality(Shots!Held)
    BY <2>1, FS_Subset
  <2> QED
    BY <2>2, TakenIs
<1> QED
  BY <1>5, <1>7, HeldFinite DEF ShotParameters

\* One at a time replaces the browser, and no page is open while the service is changed.
LEMMA Alone ==
  ASSUME ShotParameters, ShotInv, NEW t \in Shots!Task, Replaces(t), NEW u \in Shots!Task, u # t
  PROVE  ~Replaces(u) /\ (t \in Service => task[u].pc \notin {"init", "page"})
<1>1. t \in Service => task[u].held = 0
  BY AllSlots DEF ShotInv, Holds
<1>2. u \in Service /\ Replaces(u) => task[t].held = 0
  BY AllSlots DEF ShotInv, Holds
<1>3. task[t].held # 0
  BY DEF ShotInv, Holds, ShotParameters, Shots!Task, Replaces
<1>4. task[u].pc \in {"init", "page"} \/ Replaces(u) => task[u].held # 0
  BY DEF ShotInv, Holds, ShotParameters, Shots!Task, Replaces
<1>5. t \in Capture /\ u \in Capture => ~Replaces(u)
  BY DEF ShotInv, Holds
<1> QED
  BY <1>1, <1>2, <1>3, <1>4, <1>5 DEF Shots!Task

LEMMA ShotInit == ASSUME ShotParameters, Shots!Init PROVE ShotInv
<1>1. ShotTypes
  BY DEF Shots!Init, Shots!Idle, ShotTypes, CallerRec, Browser, ShotParameters
<1>2. Shots!Held = {}
  BY DEF Shots!Init, Shots!Idle, Shots!Held
<1>3. Shots!Taken <= Slots
  <2>1. Shots!Taken = 0
    BY <1>2, FS_EmptySet, TakenIs
  <2> QED
    BY <2>1 DEF ShotParameters
<1>4. \A t \in Shots!Task : task[t].pc = "idle" /\ task[t].held = 0
  BY DEF Shots!Init, Shots!Idle
<1> QED
  BY <1>1, <1>3, <1>4 DEF Shots!Init, ShotInv, Holds, Replaced, Replaces, Shots!Task

-----------------------------------------------------------------------------
\* A caller that takes no slot.
LEMMA TakesNone ==
  ASSUME ShotParameters, ShotInv, NEW t \in Shots!Task, NEW q \in CallerRec,
         q.held <= task[t].held, task' = [task EXCEPT ![t] = q]
  PROVE  Shots!Taken' <= Slots
<1>1. Shots!Held' \in SUBSET Shots!Held
  BY DEF Shots!Held, ShotInv, ShotTypes, CallerRec
<1>2. Cardinality(Shots!Held') <= Cardinality(Shots!Held) /\ Cardinality(Shots!Held') \in Nat
  BY <1>1, HeldFinite, FS_Subset, FS_CardinalityType DEF ShotInv
<1>3. Shots!Taken' = Cardinality(Shots!Held')
  <2>1. Shots!Cardinality(Shots!Held') = Cardinality(Shots!Held')
    BY DEF Shots!Cardinality, Cardinality
  <2> QED
    BY <2>1 DEF Shots!Taken
<1> QED
  BY <1>2, <1>3, TakenIs, HeldFinite DEF ShotInv, ShotParameters

\* A caller that takes one.
LEMMA TakesOne ==
  ASSUME ShotParameters, ShotInv, NEW t \in Shots!Task, NEW q \in CallerRec,
         q.held = task[t].held + 1, task' = [task EXCEPT ![t] = q], Shots!Taken < Slots
  PROVE  Shots!Taken' <= Slots
<1>1. Shots!Held' \in SUBSET (Shots!Held \cup {<<t, q.held>>})
  BY DEF Shots!Held, ShotInv, ShotTypes, CallerRec
<1>2. /\ IsFiniteSet(Shots!Held \cup {<<t, q.held>>})
      /\ Cardinality(Shots!Held \cup {<<t, q.held>>}) <= Cardinality(Shots!Held) + 1
  <2>1. IsFiniteSet(Shots!Held) /\ Cardinality(Shots!Held) \in Nat
    BY HeldFinite, FS_CardinalityType DEF ShotInv
  <2> DEFINE H == Shots!Held
             h == <<t, q.held>>
  <2> HIDE DEF H, h
  <2>2. IsFiniteSet(H) /\ Cardinality(H) \in Nat
    BY <2>1 DEF H
  <2>3. CASE h \in H
    <3>1. H \cup {h} = H
      BY <2>3
    <3> QED
      BY <2>2, <3>1 DEF H, h
  <2>4. CASE h \notin H
    <3>1. IsFiniteSet(H \cup {h}) /\ Cardinality(H \cup {h}) = Cardinality(H) + 1
      BY <2>2, <2>4, FS_AddElement
    <3> QED
      BY <2>2, <3>1 DEF H, h
  <2> QED
    BY <2>3, <2>4
<1>3. /\ Cardinality(Shots!Held') <= Cardinality(Shots!Held \cup {<<t, q.held>>})
      /\ Cardinality(Shots!Held') \in Nat
      /\ Cardinality(Shots!Held \cup {<<t, q.held>>}) \in Nat
  BY <1>1, <1>2, FS_Subset, FS_CardinalityType
<1>4. Shots!Taken' = Cardinality(Shots!Held')
  <2>1. Shots!Cardinality(Shots!Held') = Cardinality(Shots!Held')
    BY DEF Shots!Cardinality, Cardinality
  <2> QED
    BY <2>1 DEF Shots!Taken
<1> QED
  BY <1>2, <1>3, <1>4, TakenIs, HeldFinite DEF ShotInv, ShotParameters

\* A caller goes on, and nothing happens to the browser.
LEMMA PageGoes ==
  ASSUME ShotParameters, ShotInv, NEW t \in Shots!Task, NEW q \in CallerRec,
         task' = [task EXCEPT ![t] = q], Shots!Taken' <= Slots,
         lock' \in [{"init", "close", "life"} -> Shots!Task \cup {Nobody}],
         \A u \in Capture \ {t} : lock["init"] = u => lock'["init"] = u,
         UNCHANGED <<context, owned, alive, crashed, started>>,
         Holds(t)', Replaced(t)', task[t].pc # "aclose" \/ alive = {},
         q.pc = "page" => q.on \in alive \cup crashed
  PROVE  ShotInv'
<1>1. ShotTypes'
  BY DEF ShotInv, ShotTypes
<1>2. task'[t] = q /\ \A u \in Shots!Task \ {t} : task'[u] = task[u]
  BY DEF ShotInv, ShotTypes
<1>3. \A u \in Shots!Task : Holds(u)'
  BY <1>2 DEF ShotInv, Holds, Replaces, Shots!Needs, Shots!Task
<1>4. \A u \in Shots!Task : Replaced(u)'
  BY <1>2 DEF ShotInv, Replaced
<1>5. context' = Nobody => alive' = {} \/ \E u \in Shots!Task : task'[u].pc = "aclose"
  BY <1>2 DEF ShotInv
<1>6. \A u \in Capture : task'[u].pc = "page" => task'[u].on \in alive' \cup crashed'
  BY <1>2 DEF ShotInv, Shots!Task
<1> QED
  BY <1>1, <1>3, <1>4, <1>5, <1>6 DEF ShotInv

\* What a caller leaves.
LEMMA Leaves ==
  ASSUME ShotParameters, ShotTypes, NEW t \in Shots!Task, Shots!Leave(t)
  PROVE  /\ task' = [task EXCEPT ![t] = Shots!Idle] /\ Shots!Idle \in CallerRec
         /\ Shots!Idle.pc = "idle" /\ Shots!Idle.held = 0
         /\ lock' \in [{"init", "close", "life"} -> Shots!Task \cup {Nobody}]
         /\ \A u \in Shots!Task \ {t} : lock["init"] = u => lock'["init"] = u
<1>1. Shots!Idle \in CallerRec /\ Shots!Idle.pc = "idle" /\ Shots!Idle.held = 0
  BY DEF Shots!Idle, CallerRec, Browser, ShotParameters
<1>2. lock' = [l \in {"init", "close", "life"} |-> IF lock[l] = t THEN Nobody ELSE lock[l]]
  BY DEF Shots!Leave, ShotTypes
<1> QED
  BY <1>1, <1>2 DEF Shots!Leave, ShotTypes

\* The slots: a call begins, or waits for them.
LEMMA AskStep ==
  ASSUME ShotParameters, ShotInv, NEW t \in Shots!Task,
         \/ Shots!Ask(t) \/ Shots!Alone(t)
         \/ \E action \in {"init", "close"} : Shots!Serve(t, action)
  PROVE  ShotInv'
<1>0. task[t] \in CallerRec /\ task[t].pc \in {"idle", "closelock"} /\ task[t].held = 0
  <2>1. task[t].pc \in {"idle", "closelock"}
    BY DEF Shots!Ask, Shots!Alone, Shots!Serve, Shots!Asked, Shots!At
  <2> QED
    BY <2>1 DEF ShotInv, ShotTypes, Holds
<1>1. \E q \in CallerRec : task' = [task EXCEPT ![t] = q] /\ q.held = 0 /\ q.pc \in {"slot", "closelock"}
  <2>1. CASE Shots!Ask(t) \/ Shots!Alone(t)
    <3> DEFINE q == [task[t] EXCEPT !.pc = "slot"]
    <3>1. q \in CallerRec /\ q.held = 0 /\ q.pc = "slot"
      BY <1>0 DEF CallerRec
    <3>2. task' = [task EXCEPT ![t] = q]
      BY <2>1 DEF Shots!Ask, Shots!Alone, Shots!Go
    <3> QED
      BY <3>1, <3>2
  <2>2. ASSUME NEW action \in {"init", "close"}, Shots!Serve(t, action)
        PROVE \E q \in CallerRec : task' = [task EXCEPT ![t] = q] /\ q.held = 0 /\ q.pc = "closelock"
    <3> DEFINE q == [Shots!Idle EXCEPT !.pc = "closelock", !.action = action]
    <3>0. Shots!Idle \in CallerRec /\ Shots!Idle.held = 0
      BY DEF Shots!Idle, CallerRec, Browser, ShotParameters
    <3>1. q \in CallerRec /\ q.held = 0 /\ q.pc = "closelock"
      BY <3>0 DEF CallerRec
    <3> QED
      BY <2>2, <3>1 DEF Shots!Serve
  <2> QED
    BY <2>1, <2>2
<1>2. PICK q \in CallerRec : task' = [task EXCEPT ![t] = q] /\ q.held = 0 /\ q.pc \in {"slot", "closelock"}
  BY <1>1
<1>3. Shots!Taken' <= Slots
  <2>1. q.held <= task[t].held
    BY <1>0, <1>2
  <2> QED
    BY <1>2, <2>1, TakesNone
<1>4. task'[t] = q
  BY <1>2 DEF ShotInv, ShotTypes
<1>5. Holds(t)' /\ Replaced(t)'
  BY <1>2, <1>4 DEF Holds, Replaced, Replaces, Shots!Needs, ShotParameters
<1>6. /\ lock' \in [{"init", "close", "life"} -> Shots!Task \cup {Nobody}]
      /\ lock'["init"] = lock["init"]
  BY DEF Shots!Ask, Shots!Alone, Shots!Serve, Shots!CloseLock, Shots!Acquire, ShotInv, ShotTypes
<1>7. UNCHANGED <<context, owned, alive, crashed, started>>
  BY DEF Shots!Ask, Shots!Alone, Shots!Serve
<1> QED
  BY <1>0, <1>2, <1>3, <1>5, <1>6, <1>7, PageGoes

\* A slot is taken.
LEMMA SlotStep ==
  ASSUME ShotParameters, ShotInv, NEW t \in Shots!Task, Shots!Slot(t)
  PROVE  ShotInv'
<1> DEFINE all == task[t].held + 1 = Shots!Needs(t)
           next == IF ~all THEN "slot" ELSE IF t \in Service THEN "life"
                   ELSE IF Shots!browser_alive THEN "page" ELSE "init"
           q == [task[t] EXCEPT !.held = @ + 1, !.on = context, !.pc = next]
<1>1. /\ task[t] \in CallerRec /\ task[t].pc = "slot" /\ task[t].held < Shots!Needs(t)
      /\ Shots!Needs(t) \in 1 .. Slots /\ task[t].held + 1 \in 1 .. Slots /\ context \in Browser
      /\ Slots \in Nat /\ task[t].held \in Nat
  BY DEF Shots!Slot, Shots!At, ShotInv, ShotTypes, Holds, CallerRec, Shots!Needs, ShotParameters
<1>2. task' = [task EXCEPT ![t] = q]
  <2>1. task \in [Shots!Task -> CallerRec]
    BY DEF ShotInv, ShotTypes
  <2>2. task' = [task EXCEPT ![t].held = @ + 1, ![t].on = context, ![t].pc = next]
    BY DEF Shots!Slot
  <2> QED
    BY <2>1, <2>2
<1>3. next \in {"slot", "life", "page", "init"}
  OBVIOUS
<1>4. q \in CallerRec /\ q.held = task[t].held + 1 /\ q.on = context /\ q.pc = next
  <2> HIDE DEF next, all
  <2>1. PICK h \in 0 .. Slots : h = task[t].held + 1
    BY <1>1
  <2>2. PICK r \in CallerRec : r = task[t]
    BY <1>1
  <2>3. PICK p \in {"slot", "life", "page", "init"} : p = next
    BY <1>3
  <2>4. q = [r EXCEPT !.held = h, !.on = context, !.pc = p]
    BY <2>1, <2>2, <2>3
  <2> HIDE DEF q
  <2>5. q \in CallerRec /\ q.held = h /\ q.on = context /\ q.pc = p
    BY <1>1, <2>4 DEF CallerRec
  <2> QED
    BY <2>1, <2>3, <2>5
<1>5. next = "slot" => ~all
  OBVIOUS
<1>6. next = "life" => all /\ t \in Service
  OBVIOUS
<1>7. next \in {"page", "init"} => all /\ t \notin Service
  OBVIOUS
<1>8. next = "page" => context \in alive
  BY DEF Shots!browser_alive
<1> HIDE DEF q, next
<1>9. task'[t] = q
  BY <1>2 DEF ShotInv, ShotTypes
<1>10. Shots!Taken' <= Slots
  BY <1>2, <1>4, TakesOne DEF Shots!Slot
<1>11. UNCHANGED <<context, owned, alive, crashed, started>> /\ lock' = lock
  BY DEF Shots!Slot
<1>12. Holds(t)' /\ Replaced(t)'
  <2>1. task'[t].pc = "slot" => task'[t].held < Shots!Needs(t)
    BY <1>1, <1>4, <1>5, <1>9
  <2>2. task'[t].pc = "life" => t \in Service /\ task'[t].held = Slots
    BY <1>4, <1>6, <1>9 DEF Shots!Needs
  <2>3. task'[t].pc \in {"init", "page"} => t \in Capture /\ task'[t].held = 1
    BY <1>4, <1>7, <1>9 DEF Shots!Needs, Shots!Task
  <2>4. Shots!Needs(t)' = Shots!Needs(t)
    BY DEF Shots!Needs
  <2>5. task'[t].pc \in {"slot", "life", "init", "page"}
    BY <1>3, <1>4, <1>9
  <2> QED
    BY <2>1, <2>2, <2>3, <2>4, <2>5 DEF Holds, Replaced, Replaces, ShotParameters
<1>13. lock' \in [{"init", "close", "life"} -> Shots!Task \cup {Nobody}]
  BY <1>11 DEF ShotInv, ShotTypes
<1>14. q.pc = "page" => q.on \in alive \cup crashed
  BY <1>4, <1>8
<1> QED
  BY <1>1, <1>2, <1>4, <1>10, <1>11, <1>12, <1>13, <1>14, PageGoes

-----------------------------------------------------------------------------
\* Nobody closes a browser while a capture finds the browser dead: it is.
LEMMA DeadIsGone ==
  ASSUME ShotParameters, ShotInv, NEW t \in Shots!Task, task[t].pc = "init",
         lock["init"] = Nobody, ~Shots!browser_alive
  PROVE  alive = {}
<1>1. CASE context # Nobody
  BY <1>1 DEF ShotInv, Shots!browser_alive
<1>2. CASE context = Nobody
  <2>1. ASSUME NEW u \in Shots!Task, task[u].pc = "aclose" PROVE FALSE
    <3>1. Replaces(u) /\ u # t
      BY <2>1 DEF Replaces
    <3>2. u \in Capture => lock["init"] = u
      BY <3>1 DEF ShotInv, Holds
    <3>3. u \in Service => task[t].pc \notin {"init", "page"}
      BY <3>1, Alone
    <3> QED
      BY <3>2, <3>3 DEF Shots!Task, ShotParameters
  <2> QED
    BY <1>2, <2>1 DEF ShotInv
<1> QED
  BY <1>1, <1>2

\* The capture that gets the lock.
LEMMA InitLockStep ==
  ASSUME ShotParameters, ShotInv, NEW t \in Shots!Task, Shots!InitLock(t)
  PROVE  ShotInv'
<1>1. /\ task[t] \in CallerRec /\ task[t].pc = "init" /\ task[t].held = 1 /\ t \in Capture
      /\ lock["init"] = Nobody /\ context \in Browser
  BY DEF Shots!InitLock, Shots!At, Shots!Free, ShotInv, ShotTypes, Holds
<1>2. UNCHANGED <<context, owned, alive, crashed, started>>
  BY DEF Shots!InitLock
<1>3. CASE Shots!StillDead
  <2> DEFINE q == [task[t] EXCEPT !.pc = "life"]
  <2>1. q \in CallerRec /\ q.held = 1 /\ q.pc = "life"
    BY <1>1 DEF CallerRec
  <2>2. task' = [task EXCEPT ![t] = q] /\ lock' = [lock EXCEPT !["init"] = t]
    BY <1>3 DEF Shots!InitLock, Shots!Go, Shots!Acquire
  <2> HIDE DEF q
  <2>3. task'[t] = q /\ lock'["init"] = t
    BY <2>2 DEF ShotInv, ShotTypes
  <2>4. alive = {}
    BY <1>1, <1>3, DeadIsGone DEF Shots!StillDead
  <2>5. Shots!Taken' <= Slots
    <3>1. q.held <= task[t].held
      BY <1>1, <2>1
    <3> QED
      BY <2>1, <2>2, <3>1, TakesNone
  <2>6. Holds(t)' /\ Replaced(t)'
    BY <1>1, <1>2, <2>1, <2>3, <2>4 DEF Holds, Replaced, Replaces, ShotParameters
  <2>7. /\ lock' \in [{"init", "close", "life"} -> Shots!Task \cup {Nobody}]
        /\ \A u \in Capture \ {t} : lock["init"] = u => lock'["init"] = u
    BY <1>1, <2>2 DEF ShotInv, ShotTypes, ShotParameters, Shots!Task
  <2> QED
    BY <1>1, <1>2, <2>1, <2>2, <2>4, <2>5, <2>6, <2>7, PageGoes
<1>4. CASE ~Shots!StillDead
  <2> DEFINE q == [task[t] EXCEPT !.pc = "page", !.on = context]
  <2>1. q \in CallerRec /\ q.held = 1 /\ q.pc = "page" /\ q.on = context
    BY <1>1 DEF CallerRec
  <2>2. task' = [task EXCEPT ![t] = q] /\ lock' = lock
    <3>1. task \in [Shots!Task -> CallerRec]
      BY DEF ShotInv, ShotTypes
    <3>2. task' = [task EXCEPT ![t].pc = "page", ![t].on = context] /\ lock' = lock
      BY <1>4 DEF Shots!InitLock, Shots!OpenPage
    <3> QED
      BY <3>1, <3>2
  <2> HIDE DEF q
  <2>3. task'[t] = q
    BY <2>2 DEF ShotInv, ShotTypes
  <2>4. context \in alive
    BY <1>4 DEF Shots!StillDead, Shots!browser_alive
  <2>5. Shots!Taken' <= Slots
    <3>1. q.held <= task[t].held
      BY <1>1, <2>1
    <3> QED
      BY <2>1, <2>2, <3>1, TakesNone
  <2>6. Holds(t)' /\ Replaced(t)'
    BY <1>1, <2>1, <2>3 DEF Holds, Replaced, Replaces, ShotParameters
  <2>7. lock' \in [{"init", "close", "life"} -> Shots!Task \cup {Nobody}]
    BY <2>2 DEF ShotInv, ShotTypes
  <2> QED
    BY <1>1, <1>2, <2>1, <2>2, <2>4, <2>5, <2>6, <2>7, PageGoes
<1> QED
  BY <1>3, <1>4

\* The page is closed.
LEMMA ShotStep ==
  ASSUME ShotParameters, ShotInv, NEW t \in Shots!Task, Shots!Shot(t)
  PROVE  ShotInv'
<1>1. task[t] \in CallerRec /\ task[t].pc = "page" /\ Shots!Leave(t)
  BY DEF Shots!Shot, Shots!At, ShotInv, ShotTypes
<1>2. PICK q \in CallerRec : q = Shots!Idle
  BY <1>1, Leaves DEF ShotInv
<1>3. task' = [task EXCEPT ![t] = q] /\ q.pc = "idle" /\ q.held = 0
  BY <1>1, <1>2, Leaves DEF ShotInv
<1>4. /\ lock' \in [{"init", "close", "life"} -> Shots!Task \cup {Nobody}]
      /\ \A u \in Capture \ {t} : lock["init"] = u => lock'["init"] = u
  BY <1>1, Leaves DEF ShotInv, Shots!Task
<1>5. task'[t] = q
  BY <1>3 DEF ShotInv, ShotTypes
<1>6. q.held <= task[t].held
  BY <1>1, <1>3 DEF CallerRec, ShotParameters
<1>7. Shots!Taken' <= Slots
  BY <1>3, <1>6, TakesNone
<1>8. Holds(t)' /\ Replaced(t)'
  BY <1>3, <1>5 DEF Holds, Replaced, Replaces
<1>9. UNCHANGED <<context, owned, alive, crashed, started>>
  BY DEF Shots!Shot
<1> QED
  BY <1>1, <1>3, <1>4, <1>7, <1>8, <1>9, PageGoes

-----------------------------------------------------------------------------
\* The callers, when one goes on and the browser changes.
LEMMA Others ==
  ASSUME ShotParameters, ShotInv, NEW t \in Shots!Task, NEW q \in CallerRec,
         task' = [task EXCEPT ![t] = q], q.held <= task[t].held,
         lock' \in [{"init", "close", "life"} -> Shots!Task \cup {Nobody}],
         \A u \in Capture \ {t} : Replaces(u) /\ lock["init"] = u => lock'["init"] = u,
         Holds(t)'
  PROVE  /\ task' \in [Shots!Task -> CallerRec] /\ Shots!Taken' <= Slots
         /\ task'[t] = q /\ \A u \in Shots!Task \ {t} : task'[u] = task[u]
         /\ \A u \in Shots!Task : Holds(u)'
<1>1. /\ task' \in [Shots!Task -> CallerRec]
      /\ task'[t] = q /\ \A u \in Shots!Task \ {t} : task'[u] = task[u]
  BY DEF ShotInv, ShotTypes
<1>2. ASSUME NEW u \in Shots!Task \ {t} PROVE Holds(u)'
  <2>1. Holds(u) /\ task'[u] = task[u]
    BY <1>1 DEF ShotInv
  <2> QED
    BY <2>1 DEF Holds, Replaces, Shots!Needs
<1>3. Shots!Taken' <= Slots
  BY TakesNone
<1> QED
  BY <1>1, <1>2, <1>3

\* init_browser, close_browser begin.
LEMMA LifeStep ==
  ASSUME ShotParameters, ShotInv, NEW t \in Shots!Task, Shots!Life(t)
  PROVE  ShotInv'
<1> DEFINE q == [task[t] EXCEPT !.pc = "aclose"]
<1>1. /\ task[t] \in CallerRec /\ task[t].pc = "life" /\ Replaces(t) /\ Holds(t) /\ Replaced(t)
      /\ context' = Nobody /\ UNCHANGED <<owned, alive, crashed, started>>
      /\ lock' = [lock EXCEPT !["life"] = t] /\ task' = [task EXCEPT ![t] = q]
  BY DEF Shots!Life, Shots!At, Shots!Go, Shots!Acquire, ShotInv, ShotTypes, Replaces
<1>2. q \in CallerRec /\ q.held = task[t].held /\ q.pc = "aclose"
  BY <1>1 DEF CallerRec
<1> HIDE DEF q
<1>3. task'[t] = q /\ q.held <= task[t].held
  BY <1>1, <1>2 DEF ShotInv, ShotTypes, CallerRec, ShotParameters
<1>4. lock' \in [{"init", "close", "life"} -> Shots!Task \cup {Nobody}] /\ lock'["init"] = lock["init"]
  BY <1>1 DEF ShotInv, ShotTypes
<1>5. Holds(t)'
  BY <1>1, <1>2, <1>3, <1>4 DEF Holds, Replaces
<1>6. /\ task' \in [Shots!Task -> CallerRec] /\ Shots!Taken' <= Slots
      /\ \A u \in Shots!Task \ {t} : task'[u] = task[u]
      /\ \A u \in Shots!Task : Holds(u)'
  BY <1>1, <1>2, <1>3, <1>4, <1>5, Others
<1>7. ASSUME NEW u \in Shots!Task PROVE Replaced(u)'
  <2>1. Replaced(u)
    BY DEF ShotInv
  <2>2. CASE u = t
    BY <1>1, <1>2, <1>3, <2>2 DEF Replaced
  <2>3. CASE u # t
    <3>1. task'[u] = task[u]
      BY <1>6, <2>3
    <3> QED
      BY <1>1, <2>1, <3>1 DEF Replaced
  <2> QED
    BY <2>2, <2>3
<1>8. \A u \in Capture : task'[u].pc = "page" => task'[u].on \in alive' \cup crashed'
  BY <1>1, <1>2, <1>3, <1>6 DEF ShotInv, Shots!Task
<1>9. ShotTypes'
  BY <1>1, <1>4, <1>6 DEF ShotInv, ShotTypes, Browser
<1>10. alive' \subseteq {owned'} /\ \E u \in Shots!Task : task'[u].pc = "aclose"
  BY <1>1, <1>2, <1>3 DEF ShotInv
<1> QED
  BY <1>1, <1>6, <1>7, <1>8, <1>9, <1>10 DEF ShotInv

\* The browser of before is gone: no page was open on it.
LEMMA ClosedStep ==
  ASSUME ShotParameters, ShotInv, NEW t \in Shots!Task, Shots!Closed(t)
  PROVE  ShotInv'
<1>1. /\ task[t] \in CallerRec /\ task[t].pc = "aclose" /\ Replaces(t) /\ Holds(t) /\ Replaced(t)
      /\ alive' = {} /\ owned' = Nobody /\ context = Nobody /\ UNCHANGED <<context, crashed, started>>
  BY DEF Shots!Closed, Shots!At, ShotInv, ShotTypes, Replaces, Replaced
<1>2. \E q \in CallerRec : /\ task' = [task EXCEPT ![t] = q]
                           /\ \/ q.pc = "idle" /\ q.held = 0
                              \/ q.pc = "launch" /\ q.held = task[t].held /\ lock' = lock
  <2>1. CASE task[t].action = "close"
    <3>1. Shots!Leave(t)
      BY <2>1 DEF Shots!Closed
    <3> QED
      BY <3>1, Leaves DEF ShotInv
  <2>2. CASE task[t].action # "close"
    <3> DEFINE q == [task[t] EXCEPT !.pc = "launch"]
    <3>1. q \in CallerRec /\ q.pc = "launch" /\ q.held = task[t].held
      BY <1>1 DEF CallerRec
    <3>2. task' = [task EXCEPT ![t] = q] /\ lock' = lock
      BY <2>2 DEF Shots!Closed, Shots!Go
    <3> QED
      BY <3>1, <3>2
  <2> QED
    BY <2>1, <2>2
<1>3. PICK q \in CallerRec : /\ task' = [task EXCEPT ![t] = q]
                             /\ \/ q.pc = "idle" /\ q.held = 0
                                \/ q.pc = "launch" /\ q.held = task[t].held /\ lock' = lock
  BY <1>2
<1>4. /\ lock' \in [{"init", "close", "life"} -> Shots!Task \cup {Nobody}]
      /\ \A u \in Capture \ {t} : lock["init"] = u => lock'["init"] = u
  BY Leaves DEF Shots!Closed, ShotInv, ShotTypes, Shots!Task
<1>5. task'[t] = q /\ q.held <= task[t].held
  BY <1>1, <1>3 DEF ShotInv, ShotTypes, CallerRec, ShotParameters
<1>6. Holds(t)'
  BY <1>1, <1>3, <1>5 DEF Holds, Replaces
<1>7. /\ task' \in [Shots!Task -> CallerRec] /\ Shots!Taken' <= Slots
      /\ \A u \in Shots!Task \ {t} : task'[u] = task[u]
      /\ \A u \in Shots!Task : Holds(u)'
  BY <1>3, <1>4, <1>5, <1>6, Others
<1>8. \A u \in Shots!Task : Replaced(u)'
  BY <1>1 DEF Replaced
<1>9. ASSUME NEW u \in Capture, task'[u].pc = "page" PROVE task'[u].on \in alive' \cup crashed'
  <2>1. u \in Shots!Task /\ u # t
    BY <1>3, <1>5, <1>9 DEF Shots!Task
  <2>2. task'[u] = task[u] /\ task[u].pc = "page"
    BY <1>7, <1>9, <2>1
  <2>3. t \notin Service
    BY <1>1, <2>1, <2>2, Alone
  <2>4. alive = {}
    BY <1>1, <2>3 DEF Replaced, Shots!Task
  <2> QED
    BY <1>1, <2>2, <2>4 DEF ShotInv
<1>10. ShotTypes'
  BY <1>1, <1>4, <1>7 DEF ShotInv, ShotTypes, Browser
<1> QED
  BY <1>1, <1>7, <1>8, <1>9, <1>10 DEF ShotInv

\* A launch gives a browser or fails.
LEMMA LaunchedStep ==
  ASSUME ShotParameters, ShotInv, NEW t \in Shots!Task, NEW ok \in BOOLEAN, Shots!Launched(t, ok)
  PROVE  ShotInv'
<1>1. /\ task[t] \in CallerRec /\ task[t].pc = "launch" /\ Replaces(t) /\ Holds(t)
      /\ alive = {} /\ context = Nobody /\ started \in Nat /\ crashed' = crashed
  BY DEF Shots!Launched, Shots!At, ShotInv, ShotTypes, Replaces, Replaced
<1>2. /\ ok => /\ started' = started + 1 /\ context' = started' /\ owned' = started'
               /\ alive' = {started'}
      /\ ~ok => UNCHANGED <<started, context, owned, alive>>
  BY <1>1 DEF Shots!Launched
<1>3. \A u \in Shots!Task \ {t} : ~Replaces(u)
  BY <1>1, Alone
<1>4. \E q \in CallerRec : /\ task' = [task EXCEPT ![t] = q]
                           /\ \/ q.pc = "idle" /\ q.held = 0
                              \/ /\ q.pc = "page" /\ q.held = task[t].held /\ t \in Capture
                                 /\ ok /\ q.on = started'
  <2>1. CASE t \in Capture /\ ok
    <3> DEFINE q == [task[t] EXCEPT !.pc = "page", !.on = started']
    <3>0. started' \in Browser
      BY <1>1, <1>2, <2>1 DEF Browser
    <3>1. q \in CallerRec /\ q.pc = "page" /\ q.held = task[t].held /\ q.on = started'
      BY <1>1, <3>0 DEF CallerRec
    <3>2. task' = [task EXCEPT ![t].pc = "page", ![t].on = started']
      BY <2>1 DEF Shots!Launched, Shots!OpenPage
    <3>3. task' = [task EXCEPT ![t] = q]
      <4>1. task \in [Shots!Task -> CallerRec]
        BY DEF ShotInv, ShotTypes
      <4> QED
        BY <3>2, <4>1
    <3> QED
      BY <2>1, <3>1, <3>3
  <2>2. CASE ~(t \in Capture /\ ok)
    <3>1. Shots!Leave(t)
      BY <2>2 DEF Shots!Launched
    <3> QED
      BY <3>1, Leaves DEF ShotInv
  <2> QED
    BY <2>1, <2>2
<1>5. PICK q \in CallerRec : /\ task' = [task EXCEPT ![t] = q]
                             /\ \/ q.pc = "idle" /\ q.held = 0
                                \/ /\ q.pc = "page" /\ q.held = task[t].held /\ t \in Capture
                                   /\ ok /\ q.on = started'
  BY <1>4
<1>6. lock' \in [{"init", "close", "life"} -> Shots!Task \cup {Nobody}]
  <2>1. CASE t \in Capture /\ ok
    <3>1. lock' = [lock EXCEPT !["init"] = Nobody, !["life"] = Nobody]
      BY <2>1 DEF Shots!Launched
    <3> QED
      BY <3>1 DEF ShotInv, ShotTypes
  <2>2. CASE ~(t \in Capture /\ ok)
    <3>1. Shots!Leave(t)
      BY <2>2 DEF Shots!Launched
    <3> QED
      BY <3>1, Leaves DEF ShotInv
  <2> QED
    BY <2>1, <2>2
<1>7. task'[t] = q /\ q.held <= task[t].held
  BY <1>1, <1>5 DEF ShotInv, ShotTypes, CallerRec, ShotParameters
<1>8. Holds(t)'
  BY <1>1, <1>5, <1>7 DEF Holds, Replaces
<1>9. /\ task' \in [Shots!Task -> CallerRec] /\ Shots!Taken' <= Slots
      /\ \A u \in Shots!Task \ {t} : task'[u] = task[u]
      /\ \A u \in Shots!Task : Holds(u)'
  <2>1. \A u \in Capture \ {t} : Replaces(u) /\ lock["init"] = u => lock'["init"] = u
    BY <1>3 DEF Shots!Task
  <2> QED
    BY <1>5, <1>6, <1>7, <1>8, <2>1, Others
<1>10. \A u \in Shots!Task : Replaced(u)'
  <2>1. \A u \in Shots!Task : ~Replaces(u)'
    BY <1>3, <1>5, <1>7, <1>9 DEF Replaces
  <2> QED
    BY <2>1 DEF Replaced, Replaces
<1>11. ASSUME NEW u \in Capture, task'[u].pc = "page" PROVE task'[u].on \in alive' \cup crashed'
  <2>1. CASE u = t
    <3>1. q.pc = "page" /\ task'[u] = q
      BY <1>7, <1>11, <2>1
    <3> QED
      BY <1>2, <1>5, <3>1
  <2>2. CASE u # t
    <3>1. task'[u] = task[u]
      BY <1>9, <2>2 DEF Shots!Task
    <3> QED
      BY <1>1, <1>11, <3>1 DEF ShotInv
  <2> QED
    BY <2>1, <2>2
<1>12. ShotTypes'
  BY <1>1, <1>2, <1>6, <1>9 DEF ShotInv, ShotTypes, Browser
<1>13. /\ alive' \subseteq {owned'} /\ (context' # Nobody => context' = owned')
       /\ (context' = Nobody => alive' = {})
  BY <1>1, <1>2 DEF ShotInv, ShotParameters
<1> QED
  BY <1>9, <1>10, <1>11, <1>12, <1>13 DEF ShotInv

\* The system kills the browser.
LEMMA CrashStep == ASSUME ShotParameters, ShotInv, Shots!Crash PROVE ShotInv'
<1>1. PICK b \in alive : alive' = alive \ {b} /\ crashed' = crashed \cup {b}
  BY DEF Shots!Crash
<1>2. UNCHANGED <<context, owned, task, lock, started>>
  BY DEF Shots!Crash
<1>3. Shots!Taken' = Shots!Taken
  <2>1. Shots!Held' = Shots!Held
    BY <1>2 DEF Shots!Held
  <2> QED
    BY <2>1 DEF Shots!Taken
<1>4. \A t \in Shots!Task : Holds(t)' /\ Replaced(t)'
  BY <1>1, <1>2 DEF ShotInv, Holds, Replaced, Replaces, Shots!Needs
<1>5. ShotTypes'
  BY <1>2 DEF ShotInv, ShotTypes
<1>6. \A u \in Capture : task'[u].pc = "page" => task'[u].on \in alive' \cup crashed'
  BY <1>1, <1>2 DEF ShotInv
<1>7. alive' \subseteq alive
  BY <1>1
<1>8. (context' = Nobody => alive' = {} \/ \E t \in Shots!Task : task'[t].pc = "aclose")
  BY <1>2, <1>7 DEF ShotInv
<1> QED
  BY <1>2, <1>3, <1>4, <1>5, <1>6, <1>7, <1>8 DEF ShotInv

LEMMA ShotStutter == ASSUME ShotInv, UNCHANGED Shots!vars PROVE ShotInv'
<1>1. UNCHANGED <<context, owned, alive, task, lock, crashed, started>>
  BY DEF Shots!vars
<1>2. Shots!Taken' = Shots!Taken
  <2>1. Shots!Held' = Shots!Held
    BY <1>1 DEF Shots!Held
  <2> QED
    BY <2>1 DEF Shots!Taken
<1> QED
  BY <1>1, <1>2 DEF ShotInv, ShotTypes, Holds, Replaced, Replaces, Shots!Needs

LEMMA ShotNext == ASSUME ShotParameters, ShotInv, [Shots!Next]_Shots!vars PROVE ShotInv'
<1>1. ASSUME NEW t \in Shots!Task, Shots!Ask(t) \/ Shots!Step(t) \/ Shots!Launched(t, FALSE)
      PROVE  ShotInv'
  <2>1. CASE Shots!Ask(t) \/ Shots!Alone(t)
    BY <2>1, AskStep
  <2>2. CASE Shots!Slot(t)
    BY <2>2, SlotStep
  <2>3. CASE Shots!InitLock(t)
    BY <2>3, InitLockStep
  <2>4. CASE Shots!Life(t)
    BY <2>4, LifeStep
  <2>5. CASE Shots!Closed(t)
    BY <2>5, ClosedStep
  <2>6. CASE Shots!Launched(t, TRUE) \/ Shots!Launched(t, FALSE)
    BY <2>6, LaunchedStep
  <2>7. CASE Shots!Shot(t)
    BY <2>7, ShotStep
  <2> QED
    BY <1>1, <2>1, <2>2, <2>3, <2>4, <2>5, <2>6, <2>7 DEF Shots!Step
<1>2. ASSUME NEW t \in Shots!Task, NEW action \in {"init", "close"}, Shots!Serve(t, action)
      PROVE  ShotInv'
  BY <1>2, AskStep
<1>3. CASE Shots!Crash
  BY <1>3, CrashStep
<1>4. CASE UNCHANGED Shots!vars
  BY <1>4, ShotStutter
<1> QED
  BY <1>1, <1>2, <1>3, <1>4 DEF Shots!Next

\* A page is closed under no capture, and one browser runs at a time, whatever is called
\* and however often the browser dies.
THEOREM PagesUndisturbed == ASSUME ShotParameters PROVE Shots!Spec => []Undisturbed
<1>1. Shots!Init => ShotInv
  BY ShotInit
<1>2. ShotInv /\ [Shots!Next]_Shots!vars => ShotInv'
  BY ShotNext
<1>3. ShotInv => Shots!Undisturbed
  BY DEF ShotInv, Shots!Undisturbed, Shots!At
<1> QED
  BY <1>1, <1>2, <1>3, PTL DEF Shots!Spec, Undisturbed

-----------------------------------------------------------------------------
(* The outbound adapter *)

\* A message has a part; limits and bounds are numbers.
SendParameters == Parts \in Nat \ {0} /\ ReplyLimit \in Nat /\ SendFails \in Nat

SendRec ==
  [pc: {"idle", "wait", "part", "build", "flight", "mark", "done", "failed", "refused"},
   next: Nat, bot: Nat, retries: Nat, bare: BOOLEAN, rem: Int, seq: Int, tries: Nat]

SendTypes ==
  /\ send \in [Send!Call -> SendRec]
  /\ got = [c \in Send!Call |-> got[c]]
  /\ \A c \in Send!Call : got[c] \in [1 .. Send!Size(c) -> Nat]
  /\ event \in [seq: Int, cnt: Int \cup {None}, last: Int]
  /\ sendSpent \in [{"fail", "lost", "cut", "other", "unknown"} -> Int] /\ sendSpent["lost"] \in Nat

\* How far a call is with the parts of its message.
Fits(c, r) ==
  /\ r.next <= Send!Size(c)
  /\ r.pc \in {"build", "flight"} => r.next < Send!Size(c)
  /\ r.pc = "done" \/ (r.pc = "mark" /\ c \in OneBot) => r.next = Send!Size(c)

\* What is in the chat when n parts were confirmed: each of them, and maybe the next,
\* without a receipt.
Copies(g, n, p) ==
  /\ p <= n => g[p] > 0 /\ g[p] <= 1 + sendSpent["lost"]
  /\ p = n + 1 => g[p] <= sendSpent["lost"]
  /\ p > n + 1 => g[p] = 0

SendInv ==
  /\ SendTypes
  /\ \A c \in Send!Call :
       Fits(c, send[c]) /\ \A p \in 1 .. Send!Size(c) : Copies(got[c], send[c].next, p)

-----------------------------------------------------------------------------
LEMMA SizeIs == ASSUME SendParameters, NEW c PROVE Send!Size(c) \in Nat \ {0}
BY DEF Send!Size, SendParameters

\* What is left of the budget is a number, whatever was counted.
LEMMA MaxOfTwo ==
  ASSUME NEW a \in Int, NEW b \in Int
  PROVE  Send!Max({a, b}) \in Int
<1> DEFINE m == IF a >= b THEN a ELSE b
<1>1. m \in {a, b} /\ \A y \in {a, b} : m >= y
  OBVIOUS
<1>2. \E x \in {a, b} : \A y \in {a, b} : x >= y
  BY <1>1
<1> QED
  BY <1>2 DEF Send!Max

LEMMA MinOfTwo ==
  ASSUME NEW a \in Int, NEW b \in Int
  PROVE  Send!Min({a, b}) \in Int
<1> DEFINE m == IF a <= b THEN a ELSE b
<1>1. m \in {a, b} /\ \A y \in {a, b} : m <= y
  OBVIOUS
<1>2. \E x \in {a, b} : \A y \in {a, b} : x <= y
  BY <1>1
<1> QED
  BY <1>2 DEF Send!Min

LEMMA RemainingIs == ASSUME SendParameters, SendTypes PROVE Send!Remaining \in Int
<1> DEFINE accepted == IF event.cnt = None THEN event.seq ELSE event.cnt
           previous == IF event.cnt = None THEN event.seq ELSE event.last
<1>1. accepted \in Int /\ previous \in Int /\ event.seq \in Int
  BY DEF SendTypes
<1> HIDE DEF accepted, previous
<1>2. event.seq - previous \in Int
  BY <1>1
<1>3. Send!Max({0, event.seq - previous}) \in Int
  BY <1>2, MaxOfTwo
<1>4. ReplyLimit - accepted - Send!Max({0, event.seq - previous}) \in Int
  BY <1>1, <1>3 DEF SendParameters
<1>5. Send!Max({0, ReplyLimit - accepted - Send!Max({0, event.seq - previous})}) \in Int
  BY <1>4, MaxOfTwo
<1> QED
  BY <1>5 DEF Send!Remaining, accepted, previous

LEMMA RememberIs ==
  ASSUME SendParameters, SendTypes, NEW c \in Send!Call, NEW ok \in BOOLEAN, Send!Remember(c, ok)
  PROVE  event' \in [seq: Int, cnt: Int \cup {None}, last: Int]
<1> DEFINE since == event.seq - send[c].seq
           extra == IF ok THEN Send!Max({1, since}) ELSE Send!Max({0, since - 1})
<1>1. send[c].rem \in Int /\ event.seq \in Int /\ since \in Int /\ since - 1 \in Int
  BY DEF SendTypes, SendRec
<1> HIDE DEF since
<1>2. extra \in Int
  <2>1. Send!Max({1, since}) \in Int /\ Send!Max({0, since - 1}) \in Int
    BY <1>1, MaxOfTwo
  <2> QED
    BY <2>1
<1>3. event' = IF c \in Replies
                 THEN [event EXCEPT !.cnt = ReplyLimit - send[c].rem + extra, !.last = event.seq]
                 ELSE event
  BY DEF Send!Remember, since
<1> HIDE DEF extra
<1>4. ReplyLimit - send[c].rem + extra \in Int
  BY <1>1, <1>2 DEF SendParameters
<1>5. PICK n \in Int : n = ReplyLimit - send[c].rem + extra
  BY <1>4
<1> QED
  BY <1>1, <1>3, <1>5 DEF SendTypes

LEMMA SendInit == ASSUME SendParameters, Send!Init PROVE SendInv
<1>1. send \in [Send!Call -> SendRec] /\ \A c \in Send!Call : send[c].next = 0 /\ send[c].pc = "idle"
  BY DEF Send!Init, SendRec
<1>2. event \in [seq: Int, cnt: Int \cup {None}, last: Int]
  BY DEF Send!Init
<1>3. sendSpent \in [{"fail", "lost", "cut", "other", "unknown"} -> Int] /\ sendSpent["lost"] = 0
  BY DEF Send!Init
<1>4. got = [c \in Send!Call |-> [p \in 1 .. Send!Size(c) |-> 0]]
  BY DEF Send!Init
<1>5. \A c \in Send!Call : got[c] = [p \in 1 .. Send!Size(c) |-> 0]
  BY <1>4
<1>6. SendTypes
  BY <1>1, <1>2, <1>3, <1>4, <1>5 DEF SendTypes
<1>7. \A c \in Send!Call : Fits(c, send[c])
  BY <1>1, SizeIs DEF Fits
<1>8. ASSUME NEW c \in Send!Call, NEW p \in 1 .. Send!Size(c) PROVE Copies(got[c], send[c].next, p)
  <2>1. got[c][p] = 0
    BY <1>5
  <2> QED
    BY <1>1, <1>3, <2>1, SizeIs DEF Copies
<1> QED
  BY <1>6, <1>7, <1>8 DEF SendInv

-----------------------------------------------------------------------------
\* A call goes on, and nothing more is confirmed or comes into the chat.
LEMMA Moves ==
  ASSUME SendParameters, SendInv, NEW c \in Send!Call, NEW q \in SendRec,
         send' = [send EXCEPT ![c] = q], q.next = send[c].next, Fits(c, q),
         got' = got, event' \in [seq: Int, cnt: Int \cup {None}, last: Int],
         sendSpent' \in [{"fail", "lost", "cut", "other", "unknown"} -> Int],
         sendSpent'["lost"] = sendSpent["lost"]
  PROVE  SendInv'
<1>1. send' \in [Send!Call -> SendRec] /\ send'[c] = q
  BY DEF SendInv, SendTypes
<1>2. \A d \in Send!Call : d # c => send'[d] = send[d]
  BY DEF SendInv, SendTypes
<1>3. SendTypes'
  BY <1>1 DEF SendInv, SendTypes
<1>4. ASSUME NEW d \in Send!Call PROVE Fits(d, send'[d])
  BY <1>1, <1>2 DEF SendInv
<1>5. ASSUME NEW d \in Send!Call, NEW p \in 1 .. Send!Size(d)
      PROVE  Copies(got[d], send[d].next, p)'
  <2>1. send'[d].next = send[d].next
    BY <1>1, <1>2
  <2>2. Copies(got[d], send[d].next, p)
    BY DEF SendInv
  <2> QED
    BY <2>1, <2>2 DEF Copies
<1>6. \A d \in Send!Call : Fits(d, send[d])'
  BY <1>4 DEF Fits, Send!Size
<1> QED
  BY <1>3, <1>5, <1>6 DEF SendInv, Send!Size

\* A call goes on.
Goes(c) == \E q \in SendRec : /\ send' = [send EXCEPT ![c] = q]
                              /\ q.next = send[c].next /\ Fits(c, q)

LEMMA Gone ==
  ASSUME SendParameters, SendInv, NEW c \in Send!Call, Goes(c), got' = got,
         event' \in [seq: Int, cnt: Int \cup {None}, last: Int],
         sendSpent' \in [{"fail", "lost", "cut", "other", "unknown"} -> Int],
         sendSpent'["lost"] = sendSpent["lost"]
  PROVE  SendInv'
BY Moves DEF Goes

\* With parts to come it may go anywhere but to the end.
LEMMA ToPc ==
  ASSUME SendTypes, NEW c \in Send!Call, NEW p \in {"idle", "wait", "part", "failed", "refused"},
         Send!Goto(c, p), Fits(c, send[c])
  PROVE  Goes(c)
<1> DEFINE q == [send[c] EXCEPT !.pc = p]
<1>1. send[c] \in SendRec
  BY DEF SendTypes
<1>2. q \in SendRec /\ q.pc = p /\ q.next = send[c].next
  BY <1>1 DEF SendRec
<1>3. send' = [send EXCEPT ![c] = q]
  BY DEF Send!Goto
<1> HIDE DEF q
<1>4. Fits(c, q)
  BY <1>2 DEF Fits
<1> QED
  BY <1>2, <1>3, <1>4 DEF Goes

\* The next bot, or the end of the call.
LEMMA Raises ==
  ASSUME SendTypes, NEW c \in Send!Call, Send!Raise(c), Fits(c, send[c])
  PROVE  Goes(c)
<1>1. CASE send[c].bot < Bots /\ c \notin Replies
  <2> DEFINE p == IF c \in OneBot THEN "part" ELSE "wait"
             q == [send[c] EXCEPT !.bot = @ + 1, !.retries = 0, !.bare = FALSE, !.pc = p]
  <2>1. send[c] \in SendRec /\ send[c].bot + 1 \in Nat /\ p \in {"part", "wait"}
    BY DEF SendTypes, SendRec
  <2>2. send' = [send EXCEPT ![c].bot = @ + 1, ![c].retries = 0, ![c].bare = FALSE, ![c].pc = p]
    BY <1>1 DEF Send!Raise
  <2>3. send' = [send EXCEPT ![c] = q]
    <3>1. send \in [Send!Call -> SendRec]
      BY DEF SendTypes
    <3> QED
      BY <2>2, <3>1
  <2> HIDE DEF p
  <2>4. q \in SendRec /\ q.pc = p /\ q.next = send[c].next
    <3>1. PICK b \in Nat : b = send[c].bot + 1
      BY <2>1
    <3>2. q = [send[c] EXCEPT !.bot = b, !.retries = 0, !.bare = FALSE, !.pc = p]
      BY <3>1
    <3> HIDE DEF q
    <3> QED
      BY <2>1, <3>2 DEF SendRec
  <2> HIDE DEF q
  <2>5. Fits(c, q)
    BY <2>1, <2>4 DEF Fits
  <2> QED
    BY <2>3, <2>4, <2>5 DEF Goes
<1>2. CASE ~(send[c].bot < Bots /\ c \notin Replies)
  <2>1. PICK p \in {"failed", "idle"} : Send!Goto(c, p)
    BY <1>2 DEF Send!Raise
  <2> QED
    BY <2>1, ToPc
<1> QED
  BY <1>1, <1>2

\* Counting what went wrong.
LEMMA Counts ==
  ASSUME SendTypes, NEW f \in {"fail", "cut", "other"}, Send!Used(f)
  PROVE  /\ sendSpent' \in [{"fail", "lost", "cut", "other", "unknown"} -> Int]
         /\ sendSpent'["lost"] = sendSpent["lost"]
BY DEF SendTypes, Send!Used

\* The event stays, or counts a reply.
LEMMA EventSame == ASSUME SendTypes, event' = event
  PROVE event' \in [seq: Int, cnt: Int \cup {None}, last: Int]
BY DEF SendTypes

LEMMA SpentSame == ASSUME SendTypes, sendSpent' = sendSpent
  PROVE  /\ sendSpent' \in [{"fail", "lost", "cut", "other", "unknown"} -> Int]
         /\ sendSpent'["lost"] = sendSpent["lost"]
BY DEF SendTypes

-----------------------------------------------------------------------------
LEMMA StartStep ==
  ASSUME SendParameters, SendInv, NEW c \in Send!Call, Send!Start(c)
  PROVE  SendInv'
<1> DEFINE p == IF send[c].next = Send!Size(c) THEN "done" ELSE IF c \in OneBot THEN "part" ELSE "wait"
           q == [send[c] EXCEPT !.pc = p, !.bot = 1, !.tries = @ + 1]
<1>1. /\ send[c] \in SendRec /\ send[c].tries + 1 \in Nat /\ p \in {"done", "part", "wait"}
      /\ Fits(c, send[c]) /\ send \in [Send!Call -> SendRec] /\ SendTypes
  <2>1. SendTypes /\ send \in [Send!Call -> SendRec] /\ Fits(c, send[c])
    BY DEF SendInv, SendTypes
  <2>2. send[c] \in SendRec /\ send[c].tries + 1 \in Nat
    BY <2>1 DEF SendRec
  <2> QED
    BY <2>1, <2>2
<1>2. send' = [send EXCEPT ![c].pc = p, ![c].bot = 1, ![c].tries = @ + 1]
  BY DEF Send!Start
<1>3. send' = [send EXCEPT ![c] = q]
  BY <1>1, <1>2
<1>4. p = "done" => send[c].next = Send!Size(c)
  OBVIOUS
<1> HIDE DEF p
<1>5. q \in SendRec /\ q.pc = p /\ q.next = send[c].next
  <2>1. PICK n \in Nat : n = send[c].tries + 1
    BY <1>1
  <2>2. q = [send[c] EXCEPT !.pc = p, !.bot = 1, !.tries = n]
    BY <2>1
  <2> HIDE DEF q
  <2> QED
    BY <1>1, <2>2 DEF SendRec
<1> HIDE DEF q
<1>6. Fits(c, q)
  BY <1>1, <1>4, <1>5 DEF Fits
<1>7. Goes(c)
  BY <1>3, <1>5, <1>6 DEF Goes
<1>8. got' = got /\ event' = event /\ sendSpent' = sendSpent
  BY DEF Send!Start
<1> QED
  BY <1>1, <1>7, <1>8, Gone, EventSame, SpentSame

LEMMA PartStep ==
  ASSUME SendParameters, SendInv, NEW c \in Send!Call, Send!Part(c)
  PROVE  SendInv'
<1>1. /\ send[c] \in SendRec /\ Fits(c, send[c]) /\ send \in [Send!Call -> SendRec] /\ SendTypes
      /\ send[c].next \in Nat /\ Send!Size(c) \in Nat
  BY SizeIs DEF SendInv, SendTypes, SendRec
<1>2. got' = got /\ event' = event /\ sendSpent' = sendSpent
  BY DEF Send!Part
<1>3. Goes(c)
  <2>1. CASE send[c].next = Send!Size(c)
    <3> DEFINE q == [send[c] EXCEPT !.pc = "done"]
    <3>1. send' = [send EXCEPT ![c] = q]
      BY <2>1 DEF Send!Part, Send!Goto
    <3>2. q \in SendRec /\ q.pc = "done" /\ q.next = send[c].next
      BY <1>1 DEF SendRec
    <3> HIDE DEF q
    <3>3. Fits(c, q)
      BY <1>1, <2>1, <3>2 DEF Fits
    <3> QED
      BY <3>1, <3>2, <3>3 DEF Goes
  <2>2. CASE send[c].next # Send!Size(c) /\ c \in Replies /\ Send!Remaining = 0
    <3>1. Send!Goto(c, "refused")
      BY <2>2 DEF Send!Part
    <3> QED
      BY <1>1, <3>1, ToPc
  <2>3. CASE send[c].next # Send!Size(c) /\ ~(c \in Replies /\ Send!Remaining = 0)
    <3>1. PICK m \in Int : m = Send!Remaining
      BY <1>1, RemainingIs
    <3>2. PICK s \in Int : s = event.seq
      BY <1>1 DEF SendTypes
    <3> DEFINE q == [send[c] EXCEPT !.pc = "build", !.rem = m, !.seq = s]
    <3>3. send' = [send EXCEPT ![c].pc = "build", ![c].rem = m, ![c].seq = s]
      BY <2>3, <3>1, <3>2 DEF Send!Part
    <3>4. send' = [send EXCEPT ![c] = q]
      BY <1>1, <3>3
    <3>5. q \in SendRec /\ q.pc = "build" /\ q.next = send[c].next
      BY <1>1 DEF SendRec
    <3> HIDE DEF q
    <3>6. Fits(c, q)
      BY <1>1, <2>3, <3>5 DEF Fits
    <3> QED
      BY <3>4, <3>5, <3>6 DEF Goes
  <2> QED
    BY <2>1, <2>2, <2>3
<1> QED
  BY <1>1, <1>2, <1>3, Gone, EventSame, SpentSame

\* The steps that wait or give up.
LEMMA WaitStep ==
  ASSUME SendParameters, SendInv, NEW c \in Send!Call,
         \/ Send!Acquire(c) \/ Send!BuildFailed(c) \/ Send!Cancelled(c) \/ Send!MarkFailed(c)
  PROVE  SendInv'
<1>1. SendTypes /\ Fits(c, send[c])
  BY DEF SendInv
<1>2. got' = got /\ event' = event
  BY DEF Send!Acquire, Send!BuildFailed, Send!Cancelled, Send!MarkFailed
<1>3. CASE Send!Acquire(c)
  <2>1. Send!Goto(c, "part") /\ sendSpent' = sendSpent
    BY <1>3 DEF Send!Acquire
  <2>2. Goes(c)
    BY <1>1, <2>1, ToPc
  <2> QED
    BY <1>1, <1>2, <2>1, <2>2, Gone, EventSame, SpentSame
<1>4. CASE Send!BuildFailed(c)
  <2>1. Send!Raise(c) /\ Send!Used("fail")
    BY <1>4 DEF Send!BuildFailed
  <2>2. Goes(c)
    BY <1>1, <2>1, Raises
  <2> QED
    BY <1>1, <1>2, <2>1, <2>2, Gone, EventSame, Counts
<1>5. CASE Send!Cancelled(c) \/ Send!MarkFailed(c)
  <2>1. Send!Goto(c, "idle") /\ Send!Used("cut")
    BY <1>5 DEF Send!Cancelled, Send!MarkFailed
  <2>2. Goes(c)
    BY <1>1, <2>1, ToPc
  <2> QED
    BY <1>1, <1>2, <2>1, <2>2, Gone, EventSame, Counts
<1> QED
  BY <1>3, <1>4, <1>5

LEMMA BuiltStep ==
  ASSUME SendParameters, SendInv, NEW c \in Send!Call, Send!Built(c)
  PROVE  SendInv'
<1> DEFINE q == [send[c] EXCEPT !.pc = "flight"]
<1>1. SendTypes /\ send[c] \in SendRec /\ Fits(c, send[c]) /\ send[c].pc = "build"
  BY DEF SendInv, SendTypes, Send!Built, Send!At
<1>2. send' = [send EXCEPT ![c] = q] /\ got' = got /\ sendSpent' = sendSpent
  BY DEF Send!Built, Send!Goto
<1>3. q \in SendRec /\ q.pc = "flight" /\ q.next = send[c].next
  BY <1>1 DEF SendRec
<1> HIDE DEF q
<1>4. Fits(c, q)
  BY <1>1, <1>3 DEF Fits
<1>5. event' \in [seq: Int, cnt: Int \cup {None}, last: Int]
  BY <1>1 DEF Send!Built, SendTypes
<1>6. Goes(c)
  BY <1>2, <1>3, <1>4 DEF Goes
<1> QED
  BY <1>1, <1>2, <1>5, <1>6, Gone, SpentSame

\* A part is refused: it waits, goes without its link, or the next bot is asked.
LEMMA AgainStep ==
  ASSUME SendParameters, SendInv, NEW c \in Send!Call, Send!UrlRefused(c) \/ Send!RateLimited(c)
  PROVE  SendInv'
<1>1. SendTypes /\ send[c] \in SendRec /\ Fits(c, send[c]) /\ send \in [Send!Call -> SendRec]
  BY DEF SendInv, SendTypes
<1>2. Send!Used("fail") /\ Send!Remember(c, FALSE) /\ got' = got
  BY DEF Send!UrlRefused, Send!RateLimited
<1>3. Goes(c)
  <2>1. CASE send' = [send EXCEPT ![c].pc = "part", ![c].bare = TRUE]
    <3> DEFINE q == [send[c] EXCEPT !.pc = "part", !.bare = TRUE]
    <3>1. send' = [send EXCEPT ![c] = q]
      BY <1>1, <2>1
    <3>2. q \in SendRec /\ q.pc = "part" /\ q.next = send[c].next
      BY <1>1 DEF SendRec
    <3> HIDE DEF q
    <3>3. Fits(c, q)
      BY <1>1, <3>2 DEF Fits
    <3> QED
      BY <3>1, <3>2, <3>3 DEF Goes
  <2>2. CASE send' = [send EXCEPT ![c].pc = "part", ![c].retries = @ + 1]
    <3>1. PICK n \in Nat : n = send[c].retries + 1
      BY <1>1 DEF SendRec
    <3> DEFINE q == [send[c] EXCEPT !.pc = "part", !.retries = n]
    <3>2. send' = [send EXCEPT ![c] = q]
      BY <1>1, <2>2, <3>1
    <3>3. q \in SendRec /\ q.pc = "part" /\ q.next = send[c].next
      BY <1>1 DEF SendRec
    <3> HIDE DEF q
    <3>4. Fits(c, q)
      BY <1>1, <3>3 DEF Fits
    <3> QED
      BY <3>2, <3>3, <3>4 DEF Goes
  <2>3. CASE Send!Raise(c)
    BY <1>1, <2>3, Raises
  <2> QED
    BY <2>1, <2>2, <2>3 DEF Send!UrlRefused, Send!RateLimited
<1>4. event' \in [seq: Int, cnt: Int \cup {None}, last: Int]
  BY <1>1, <1>2, RememberIs
<1> QED
  BY <1>1, <1>2, <1>3, <1>4, Gone, Counts

LEMMA RefusedStep ==
  ASSUME SendParameters, SendInv, NEW c \in Send!Call, Send!Refused(c)
  PROVE  SendInv'
<1>1. SendTypes /\ Fits(c, send[c])
  BY DEF SendInv
<1>2. Send!Raise(c) /\ got' = got /\ event' = event
  BY DEF Send!Refused
<1>3. /\ sendSpent' \in [{"fail", "lost", "cut", "other", "unknown"} -> Int]
      /\ sendSpent'["lost"] = sendSpent["lost"]
  <2>1. sendSpent["fail"] + 1 \in Int /\ sendSpent["unknown"] + 1 \in Int /\ sendSpent["unknown"] \in Int
    BY <1>1 DEF SendTypes
  <2>2. Send!Min({SendFails, sendSpent["fail"] + 1}) \in Int
    BY <2>1, MinOfTwo DEF SendParameters
  <2>3. PICK m \in Int : m = Send!Min({SendFails, sendSpent["fail"] + 1})
    BY <2>2
  <2>4. PICK n \in Int : n = IF c \in Replies THEN sendSpent["unknown"] + 1 ELSE sendSpent["unknown"]
    BY <2>1
  <2>5. sendSpent' = [sendSpent EXCEPT !["fail"] = m, !["unknown"] = n]
    BY <1>1, <2>3, <2>4 DEF Send!Refused, SendTypes
  <2> QED
    BY <1>1, <2>5 DEF SendTypes
<1>4. Goes(c)
  BY <1>1, <1>2, Raises
<1> QED
  BY <1>1, <1>2, <1>3, <1>4, Gone, EventSame

\* on_part_sent
LEMMA MarkedStep ==
  ASSUME SendParameters, SendInv, NEW c \in Send!Call, Send!Marked(c)
  PROVE  SendInv'
<1> DEFINE p == IF c \in OneBot THEN "done" ELSE "part"
           q == [send[c] EXCEPT !.pc = p]
<1>1. SendTypes /\ send[c] \in SendRec /\ Fits(c, send[c]) /\ send[c].pc = "mark"
  BY DEF SendInv, SendTypes, Send!Marked, Send!At
<1>2. send' = [send EXCEPT ![c] = q] /\ got' = got /\ event' = event /\ sendSpent' = sendSpent
  BY DEF Send!Marked, Send!Goto
<1>3. q \in SendRec /\ q.pc = p /\ q.next = send[c].next
  BY <1>1 DEF SendRec
<1> HIDE DEF q
<1>4. Fits(c, q)
  BY <1>1, <1>3 DEF Fits
<1>5. Goes(c)
  BY <1>2, <1>3, <1>4 DEF Goes
<1> QED
  BY <1>1, <1>2, <1>5, Gone, EventSame, SpentSame

LEMMA ElsewhereStep ==
  ASSUME SendParameters, SendInv, Send!Elsewhere
  PROVE  SendInv'
<1>1. SendTypes /\ send' = send /\ got' = got /\ Send!Used("other")
  BY DEF SendInv, Send!Elsewhere
<1>2. event' \in [seq: Int, cnt: Int \cup {None}, last: Int]
  BY <1>1 DEF Send!Elsewhere, SendTypes
<1>3. /\ sendSpent' \in [{"fail", "lost", "cut", "other", "unknown"} -> Int]
      /\ sendSpent'["lost"] = sendSpent["lost"]
  BY <1>1, Counts
<1> QED
  BY <1>1, <1>2, <1>3 DEF SendInv, SendTypes, Fits, Copies, Send!Size

-----------------------------------------------------------------------------
\* A part comes into the chat.
LEMMA Received ==
  ASSUME SendParameters, SendInv, NEW c \in Send!Call, send[c].pc = "flight", Send!Receive(c)
  PROVE  /\ got' = [d \in Send!Call |-> got'[d]]
         /\ \A d \in Send!Call : got'[d] \in [1 .. Send!Size(d) -> Nat]
         /\ \A d \in Send!Call \ {c} : got'[d] = got[d]
         /\ \A p \in 1 .. Send!Size(c) :
              got'[c][p] = IF p = send[c].next + 1 THEN got[c][p] + 1 ELSE got[c][p]
         /\ send[c] \in SendRec /\ send[c].next + 1 \in 1 .. Send!Size(c)
<1>1. send[c] \in SendRec /\ send[c].next \in Nat /\ send[c].next < Send!Size(c) /\ Send!Size(c) \in Nat
  BY SizeIs DEF SendInv, SendTypes, Fits, SendRec
<1>2. PICK n \in 1 .. Send!Size(c) : n = send[c].next + 1
  BY <1>1
<1>3. got' = [got EXCEPT ![c][n] = @ + 1]
  BY <1>2 DEF Send!Receive
<1>4. /\ got = [d \in Send!Call |-> got[d]]
      /\ \A d \in Send!Call : got[d] \in [1 .. Send!Size(d) -> Nat]
  BY DEF SendInv, SendTypes
<1>5. got' = [d \in Send!Call |-> IF d = c THEN [got[c] EXCEPT ![n] = @ + 1] ELSE got[d]]
  BY <1>3, <1>4
<1>6. got'[c] = [got[c] EXCEPT ![n] = @ + 1] /\ \A d \in Send!Call \ {c} : got'[d] = got[d]
  BY <1>5
<1>7. got'[c] \in [1 .. Send!Size(c) -> Nat]
  <2>1. PICK g \in [1 .. Send!Size(c) -> Nat] : g = got[c]
    BY <1>4
  <2>2. PICK m \in Nat : m = g[n] + 1
    OBVIOUS
  <2>3. got'[c] = [g EXCEPT ![n] = m]
    BY <1>6, <2>1, <2>2
  <2>4. [g EXCEPT ![n] = m] \in [1 .. Send!Size(c) -> Nat]
    OBVIOUS
  <2> QED
    BY <2>3, <2>4
<1>8. \A p \in 1 .. Send!Size(c) : got'[c][p] = IF p = n THEN got[c][p] + 1 ELSE got[c][p]
  BY <1>4, <1>6
<1>9. got' = [d \in Send!Call |-> got'[d]]
  BY <1>5
<1> QED
  BY <1>1, <1>2, <1>4, <1>6, <1>7, <1>8, <1>9

LEMMA SentStep ==
  ASSUME SendParameters, SendInv, NEW c \in Send!Call, Send!Sent(c)
  PROVE  SendInv'
<1>1. /\ SendTypes /\ send[c] \in SendRec /\ Fits(c, send[c]) /\ send[c].pc = "flight"
      /\ send \in [Send!Call -> SendRec] /\ Send!Receive(c) /\ Send!Remember(c, TRUE)
      /\ sendSpent' = sendSpent /\ send[c].next \in Nat /\ Send!Size(c) \in Nat
  BY SizeIs DEF SendInv, SendTypes, SendRec, Send!Sent, Send!At
<1>2. PICK n \in Nat : n = send[c].next + 1
  BY <1>1
<1>3. PICK p \in {"part", "mark"} : p = IF c \in Replies THEN "part" ELSE "mark"
  OBVIOUS
<1> DEFINE q == [send[c] EXCEPT !.next = n, !.retries = 0, !.bare = FALSE, !.pc = p]
<1>4. send' = [send EXCEPT ![c].next = n, ![c].retries = 0, ![c].bare = FALSE, ![c].pc = p]
  BY <1>2, <1>3 DEF Send!Sent
<1>5. send' = [send EXCEPT ![c] = q]
  BY <1>1, <1>4
<1>6. q \in SendRec /\ q.next = n /\ q.pc = p
  BY <1>1 DEF SendRec
<1> HIDE DEF q
<1>7. /\ send' \in [Send!Call -> SendRec] /\ send'[c] = q
      /\ \A d \in Send!Call \ {c} : send'[d] = send[d]
  BY <1>1, <1>5, <1>6
<1>8. Fits(c, q)
  BY <1>1, <1>2, <1>3, <1>6 DEF Fits, Send!Size
<1>9. SendTypes'
  <2>1. event' \in [seq: Int, cnt: Int \cup {None}, last: Int]
    BY <1>1, RememberIs
  <2> QED
    BY <1>1, <1>7, <2>1, Received DEF SendTypes, Send!Size
<1>10. ASSUME NEW d \in Send!Call PROVE Fits(d, send[d])'
  <2>1. Fits(d, send'[d])
    BY <1>7, <1>8 DEF SendInv
  <2> QED
    BY <2>1 DEF Fits, Send!Size
<1>11. ASSUME NEW d \in Send!Call, NEW i \in 1 .. Send!Size(d)
       PROVE  Copies(got[d], send[d].next, i)'
  <2>1. Copies(got[d], send[d].next, i) /\ sendSpent["lost"] \in Nat /\ got[d][i] \in Nat
    BY DEF SendInv, SendTypes
  <2>2. CASE d = c
    <3>1. got'[d][i] = IF i = n THEN got[d][i] + 1 ELSE got[d][i]
      BY <1>1, <1>2, <2>2, Received
    <3>2. send'[d].next = n /\ send[d].next = n - 1 /\ i \in Int
      BY <1>1, <1>2, <1>6, <1>7, <2>2
    <3> QED
      BY <1>1, <1>2, <2>1, <3>1, <3>2 DEF Copies
  <2>3. CASE d # c
    <3>1. got'[d] = got[d] /\ send'[d] = send[d]
      BY <1>1, <1>7, <2>3, Received
    <3> QED
      BY <1>1, <2>1, <3>1 DEF Copies
  <2> QED
    BY <2>2, <2>3
<1> QED
  BY <1>9, <1>10, <1>11 DEF SendInv, Send!Size

LEMMA LostStep ==
  ASSUME SendParameters, SendInv, NEW c \in Send!Call, Send!Lost(c)
  PROVE  SendInv'
<1>1. /\ SendTypes /\ send[c] \in SendRec /\ Fits(c, send[c]) /\ send[c].pc = "flight"
      /\ send \in [Send!Call -> SendRec] /\ Send!Receive(c) /\ Send!Raise(c)
      /\ event' = event /\ send[c].next \in Nat
  BY DEF SendInv, SendTypes, SendRec, Send!Lost, Send!At
<1>2. /\ sendSpent' \in [{"fail", "lost", "cut", "other", "unknown"} -> Int]
      /\ sendSpent'["lost"] = sendSpent["lost"] + 1 /\ sendSpent["lost"] \in Nat
  BY <1>1 DEF Send!Lost, Send!Used, SendTypes
<1>3. PICK q \in SendRec : /\ send' = [send EXCEPT ![c] = q]
                           /\ q.next = send[c].next /\ Fits(c, q)
  BY <1>1, Raises DEF Goes
<1>4. /\ send' \in [Send!Call -> SendRec] /\ send'[c] = q
      /\ \A d \in Send!Call \ {c} : send'[d] = send[d]
  BY <1>1, <1>3
<1>5. SendTypes'
  BY <1>1, <1>2, <1>4, Received DEF SendTypes, Send!Size
<1>6. ASSUME NEW d \in Send!Call PROVE Fits(d, send[d])'
  <2>1. Fits(d, send'[d])
    BY <1>3, <1>4 DEF SendInv
  <2> QED
    BY <2>1 DEF Fits, Send!Size
<1>7. ASSUME NEW d \in Send!Call, NEW i \in 1 .. Send!Size(d)
       PROVE  Copies(got[d], send[d].next, i)'
  <2>1. Copies(got[d], send[d].next, i) /\ got[d][i] \in Nat
    BY DEF SendInv, SendTypes
  <2>2. CASE d = c
    <3>1. got'[d][i] = IF i = send[d].next + 1 THEN got[d][i] + 1 ELSE got[d][i]
      BY <1>1, <2>2, Received
    <3>2. send'[d].next = send[d].next /\ send[d].next \in Nat /\ i \in Int
      BY <1>1, <1>3, <1>4, <2>2
    <3> QED
      BY <1>2, <2>1, <3>1, <3>2 DEF Copies
  <2>3. CASE d # c
    <3>1. got'[d] = got[d] /\ send'[d] = send[d]
      BY <1>1, <1>4, <2>3, Received
    <3> QED
      BY <1>2, <2>1, <3>1 DEF Copies
  <2> QED
    BY <2>2, <2>3
<1> QED
  BY <1>5, <1>6, <1>7 DEF SendInv, Send!Size

LEMMA SendNext == ASSUME SendParameters, SendInv, [Send!Next]_Send!vars PROVE SendInv'
<1>1. ASSUME NEW c \in Send!Call, Send!CallNext(c) PROVE SendInv'
  BY <1>1, StartStep, WaitStep, PartStep, BuiltStep, SentStep, MarkedStep DEF Send!CallNext
<1>2. ASSUME NEW c \in Send!Call,
             \/ Send!BuildFailed(c) \/ Send!Cancelled(c) \/ Send!Lost(c) \/ Send!UrlRefused(c)
             \/ Send!RateLimited(c) \/ Send!Refused(c) \/ Send!MarkFailed(c)
      PROVE SendInv'
  BY <1>2, WaitStep, LostStep, AgainStep, RefusedStep
<1>3. CASE Send!Elsewhere
  BY <1>3, ElsewhereStep
<1>4. CASE UNCHANGED Send!vars
  BY <1>4 DEF Send!vars, SendInv, SendTypes, Fits, Copies, Send!Size
<1> QED
  BY <1>1, <1>2, <1>3, <1>4 DEF Send!Next

\* Whatever the bots, the limits and the failures are, the parts of a message arrive in
\* order, each at most once more than receipts were lost, and a call that returns has sent
\* all of them.
THEOREM PartsInOneGo == ASSUME SendParameters PROVE Send!Spec => []InOneGo
<1>1. Send!Init => SendInv
  BY SendInit
<1>2. SendInv /\ [Send!Next]_Send!vars => SendInv'
  BY SendNext
<1>3. SendInv => Send!InOneGo
  <2> SUFFICES ASSUME SendInv, NEW c \in Send!Call, NEW p \in 1 .. Send!Size(c)
      PROVE  /\ got[c][p] <= 1 + sendSpent["lost"]
             /\ p > 1 /\ got[c][p] > 0 => got[c][p - 1] > 0
             /\ Send!At(c, "done") => got[c][p] > 0
    BY DEF Send!InOneGo
  <2>1. /\ Copies(got[c], send[c].next, p) /\ Fits(c, send[c])
        /\ p - 1 \in 1 .. Send!Size(c) => Copies(got[c], send[c].next, p - 1)
        /\ got[c][p] \in Nat /\ sendSpent["lost"] \in Nat /\ send[c].next \in Nat
        /\ Send!Size(c) \in Nat /\ p \in Nat
    BY SizeIs DEF SendInv, SendTypes, SendRec
  <2>2. p > 1 => p - 1 \in 1 .. Send!Size(c)
    BY <2>1
  <2> QED
    BY <2>1, <2>2 DEF Copies, Fits, Send!At
<1> QED
  BY <1>1, <1>2, <1>3, PTL DEF Send!Spec, InOneGo

-----------------------------------------------------------------------------
(* Link parsers *)

\* A handler: its fields, whatever they hold, and the number of its files.
Shape(r) ==
  /\ r = [pc |-> r.pc, user |-> r.user, want |-> r.want, video |-> r.video, has |-> r.has]
  /\ r.has \in Nat

\* Its files.
Mine(h, r) == {<<r.video, i, h>> : i \in 1 .. r.has}

\* What a handler at work wants, and when it has files and a place in the pipeline.
Working(h, r) ==
  /\ r.pc = "lock" => parser = "bilibili"
  /\ r.pc \in {"pipe", "resolve", "ask", "download", "turn", "reply"} /\ parser # "bilibili" =>
       r.want = "page"
  /\ r.pc \in {"lock", "pipe", "resolve"} => r.want \in {"menu", "single", "text", "refused", "page"}
  /\ r.pc = "ask" => r.want \in {"menu", "single"}
  /\ r.pc \in {"resolve", "ask", "download", "turn", "reply"} /\ videos /\ r.want # "refused" => h \in pipe
  /\ r.pc \in {"download", "turn"} => videos /\ r.want \notin {"text", "refused"}
  /\ r.has > 0 => r.pc \in {"download", "turn", "reply"} /\ h \in pipe

PipeKept == IsFiniteSet(pipe) /\ Cardinality(pipe) <= Pipeline

DiskKept ==
  /\ \A h \in Handler : Mine(h, handler[h]) \subseteq disk
  /\ \A f \in disk : \E h \in Handler : f \in Mine(h, handler[h])

FilesInv ==
  /\ parser # "bilibili" => videos
  /\ handler = [h \in Handler |-> handler[h]]
  /\ \A h \in Handler : Shape(handler[h]) /\ Working(h, handler[h])
  /\ PipeKept /\ DiskKept

-----------------------------------------------------------------------------
\* The operator of the instance is that of FiniteSets.
LEMMA CountIs == ASSUME NEW S PROVE Parsing!Cardinality(S) = Cardinality(S)
BY DEF Parsing!Cardinality, Cardinality

LEMMA FilesOfIs == ASSUME NEW h PROVE Parsing!FilesOf(h) = Mine(h, handler[h])
BY DEF Parsing!FilesOf, Parsing!FileName, Mine

LEMMA FilesInit == ASSUME Pipeline \in Nat, Parsing!Init PROVE FilesInv
<1>1. handler = [h \in Handler |-> Parsing!Idle] /\ pipe = {} /\ disk = {} /\ (parser # "bilibili" => videos)
  BY DEF Parsing!Init
<1>2. Shape(Parsing!Idle) /\ Parsing!Idle.pc = "idle" /\ Parsing!Idle.has = 0
  BY DEF Parsing!Idle, Shape
<1>3. \A h \in Handler : handler[h] = Parsing!Idle
  BY <1>1
<1>4. PipeKept
  BY <1>1, FS_EmptySet DEF PipeKept
<1>5. \A h \in Handler : Shape(handler[h]) /\ Working(h, handler[h]) /\ Mine(h, handler[h]) = {}
  BY <1>2, <1>3 DEF Working, Mine
<1> QED
  BY <1>1, <1>4, <1>5 DEF FilesInv, DiskKept

\* Another place in a record.
LEMMA Placed ==
  ASSUME NEW r, Shape(r), NEW p
  PROVE  /\ Shape([r EXCEPT !.pc = p]) /\ [r EXCEPT !.pc = p].pc = p
         /\ [r EXCEPT !.pc = p].want = r.want /\ [r EXCEPT !.pc = p].video = r.video
         /\ [r EXCEPT !.pc = p].has = r.has
<1>1. PICK a, b, c, d, n : n \in Nat /\ r = [pc |-> a, user |-> b, want |-> c, video |-> d, has |-> n]
  BY DEF Shape
<1>2. [r EXCEPT !.pc = p] = [pc |-> p, user |-> b, want |-> c, video |-> d, has |-> n]
  BY <1>1
<1> QED
  BY <1>1, <1>2 DEF Shape

\* One handler changes.
LEMMA Changes ==
  ASSUME FilesInv, NEW h \in Handler, NEW q, handler' = [handler EXCEPT ![h] = q],
         UNCHANGED <<parser, videos>>, Shape(q), Working(h, q)',
         \A g \in Handler \ {h} : g \in pipe => g \in pipe', PipeKept',
         Mine(h, q) \subseteq disk',
         \A g \in Handler \ {h} : Mine(g, handler[g]) \subseteq disk',
         \A f \in disk' : f \in Mine(h, q) \/ \E g \in Handler \ {h} : f \in Mine(g, handler[g])
  PROVE  FilesInv'
<1>1. handler' = [g \in Handler |-> handler'[g]] /\ handler'[h] = q /\ \A g \in Handler \ {h} : handler'[g] = handler[g]
  BY DEF FilesInv
<1>2. ASSUME NEW g \in Handler PROVE Shape(handler'[g]) /\ Working(g, handler[g])'
  <2>1. CASE g = h
    <3>1. Working(h, handler[h])'
      BY <1>1 DEF Working
    <3> QED
      BY <1>1, <2>1, <3>1
  <2>2. CASE g # h
    <3>1. Shape(handler[g]) /\ Working(g, handler[g]) /\ handler'[g] = handler[g] /\ (g \in pipe => g \in pipe')
      BY <1>1, <2>2 DEF FilesInv
    <3> QED
      BY <3>1 DEF Working
  <2> QED
    BY <2>1, <2>2
<1>3. DiskKept'
  <2>1. Mine(h, handler'[h]) = Mine(h, q) /\ \A g \in Handler \ {h} : Mine(g, handler'[g]) = Mine(g, handler[g])
    BY <1>1
  <2>2. \A g \in Handler : Mine(g, handler'[g]) \subseteq disk'
    BY <2>1
  <2>3. \A f \in disk' : \E g \in Handler : f \in Mine(g, handler'[g])
    BY <2>1
  <2> QED
    BY <2>2, <2>3 DEF DiskKept, Mine
<1>4. (parser # "bilibili" => videos)'
  BY DEF FilesInv
<1>5. \A g \in Handler : Shape(handler[g])' /\ Working(g, handler[g])'
  BY <1>2 DEF Shape
<1> QED
  BY <1>1, <1>3, <1>4, <1>5 DEF FilesInv

\* A handler goes on with the files it has.
LEMMA GoesOn ==
  ASSUME FilesInv, NEW h \in Handler, NEW q, handler' = [handler EXCEPT ![h] = q],
         UNCHANGED <<parser, videos, disk>>, Shape(q), Working(h, q)',
         pipe' = pipe \/ (pipe' = pipe \cup {h} /\ PipeKept'),
         Mine(h, q) = Mine(h, handler[h])
  PROVE  FilesInv'
<1>1. PipeKept'
  BY DEF FilesInv, PipeKept
<1>2. \A g \in Handler : Mine(g, handler[g]) \subseteq disk
  BY DEF FilesInv, DiskKept
<1>3. \A f \in disk : f \in Mine(h, q) \/ \E g \in Handler \ {h} : f \in Mine(g, handler[g])
  BY DEF FilesInv, DiskKept
<1> QED
  BY <1>1, <1>2, <1>3, Changes

\* A handler that begins has no files.
LEMMA Begins ==
  ASSUME FilesInv, NEW h \in Handler, Parsing!At(h, "idle"), NEW p, NEW u, NEW w, NEW v,
         handler' = [handler EXCEPT ![h] = [Parsing!Idle EXCEPT !.pc = p, !.user = u, !.want = w, !.video = v]],
         \/ p = "lock" /\ parser = "bilibili" /\ w \in {"menu", "single", "text", "refused", "page"}
         \/ p = "pipe" /\ w = "page",
         UNCHANGED <<parser, videos, disk, pipe>>
  PROVE  FilesInv'
<1> DEFINE q == [pc |-> p, user |-> u, want |-> w, video |-> v, has |-> 0]
<1>1. handler' = [handler EXCEPT ![h] = q]
  <2>1. [Parsing!Idle EXCEPT !.pc = p, !.user = u, !.want = w, !.video = v] = q
    <3>1. PICK r : r = Parsing!Idle
      OBVIOUS
    <3>2. r = [pc |-> "idle", user |-> None, want |-> None, video |-> None, has |-> 0]
      BY <3>1 DEF Parsing!Idle
    <3>3. [r EXCEPT !.pc = p, !.user = u, !.want = w, !.video = v] = q
      <4>1. PICK r1 : r1 = [r EXCEPT !.pc = p]
        OBVIOUS
      <4>2. r1 = [pc |-> p, user |-> None, want |-> None, video |-> None, has |-> 0]
        BY <3>2, <4>1
      <4>3. PICK r2 : r2 = [r1 EXCEPT !.user = u]
        OBVIOUS
      <4>4. r2 = [pc |-> p, user |-> u, want |-> None, video |-> None, has |-> 0]
        BY <4>2, <4>3
      <4>5. PICK r3 : r3 = [r2 EXCEPT !.want = w]
        OBVIOUS
      <4>6. r3 = [pc |-> p, user |-> u, want |-> w, video |-> None, has |-> 0]
        BY <4>4, <4>5
      <4>7. [r3 EXCEPT !.video = v] = q
        BY <4>6
      <4> HIDE DEF q
      <4>8. [r EXCEPT !.pc = p, !.user = u, !.want = w, !.video = v]
            = [[[[r EXCEPT !.pc = p] EXCEPT !.user = u] EXCEPT !.want = w] EXCEPT !.video = v]
        OBVIOUS
      <4> QED
        BY <4>1, <4>3, <4>5, <4>7, <4>8
    <3> HIDE DEF q
    <3> QED
      BY <3>1, <3>3
  <2> QED
    BY <2>1
<1>2. Shape(q) /\ q.pc = p /\ q.want = w /\ q.has = 0
  BY DEF Shape
<1> HIDE DEF q
<1>3. Working(h, q)'
  BY <1>2 DEF Working
<1>4. Mine(h, q) = {} /\ Mine(h, handler[h]) = {}
  <2>1. handler[h].has = 0
    BY DEF FilesInv, Shape, Working, Parsing!At
  <2> QED
    BY <1>2, <2>1 DEF Mine
<1> QED
  BY <1>1, <1>2, <1>3, <1>4, GoesOn

\* A handler is at another place.
LEMMA MovesOn ==
  ASSUME FilesInv, NEW h \in Handler, NEW p, Parsing!Go(h, p),
         UNCHANGED <<parser, videos, disk>>, pipe' = pipe \/ (pipe' = pipe \cup {h} /\ PipeKept'),
         \A q : q.pc = p /\ q.want = handler[h].want /\ q.has = handler[h].has => Working(h, q)'
  PROVE  FilesInv'
<1> DEFINE q == [handler[h] EXCEPT !.pc = p]
<1>1. Shape(handler[h])
  BY DEF FilesInv
<1>2. /\ Shape(q) /\ q.pc = p /\ q.want = handler[h].want /\ q.video = handler[h].video
      /\ q.has = handler[h].has
  BY <1>1, Placed
<1>3. handler' = [handler EXCEPT ![h] = q]
  BY DEF Parsing!Go
<1> HIDE DEF q
<1>4. Mine(h, q) = Mine(h, handler[h])
  BY <1>2 DEF Mine
<1> QED
  BY <1>2, <1>3, <1>4, GoesOn

-----------------------------------------------------------------------------
\* What is known of a handler.
LEMMA Known1 == ASSUME FilesInv, NEW h \in Handler
  PROVE Shape(handler[h]) /\ Working(h, handler[h]) /\ (parser # "bilibili" => videos)
BY DEF FilesInv

LEMMA ReceptionStep ==
  ASSUME FilesInv, NEW h \in Handler,
         \/ \E u \in User, v \in Video, w \in {"menu", "single", "text"} : Parsing!Link(h, u, v, w)
         \/ \E u \in User, v \in Video : Parsing!Share(h, u, v)
         \/ \E u \in User, valid \in BOOLEAN : Parsing!Number(h, u, valid)
  PROVE  FilesInv'
<1>1. ASSUME NEW u \in User, NEW v \in Video, NEW w \in {"menu", "single", "text"},
             Parsing!Link(h, u, v, w)
      PROVE  FilesInv'
  <2>1. /\ parser = "bilibili" /\ Parsing!At(h, "idle") /\ UNCHANGED <<parser, videos, disk, pipe>>
        /\ handler' = [handler EXCEPT ![h] = [Parsing!Idle EXCEPT !.pc = "lock", !.user = u, !.want = w, !.video = v]]
    BY <1>1 DEF Parsing!Link
  <2> QED
    BY <2>1, Begins
<1>2. ASSUME NEW u \in User, NEW v \in Video, Parsing!Share(h, u, v)
      PROVE  FilesInv'
  <2>1. /\ Parsing!At(h, "idle") /\ UNCHANGED <<parser, videos, disk, pipe>>
        /\ handler' = [handler EXCEPT ![h] = [Parsing!Idle EXCEPT !.pc = "pipe", !.user = u, !.want = "page", !.video = v]]
    BY <1>2 DEF Parsing!Share
  <2> QED
    BY <2>1, Begins
<1>3. ASSUME NEW u \in User, NEW valid \in BOOLEAN, Parsing!Number(h, u, valid)
      PROVE  FilesInv'
  <2>1. PICK w \in {"page", "refused"} : w = IF valid THEN "page" ELSE "refused"
    OBVIOUS
  <2>2. PICK v : v = Parsing!MenuOf(u)
    OBVIOUS
  <2>0. parser = "bilibili" /\ Parsing!At(h, "idle") /\ UNCHANGED <<parser, videos, disk, pipe>>
    BY <1>3 DEF Parsing!Number
  <2>3. handler' = [handler EXCEPT ![h] = [Parsing!Idle EXCEPT !.pc = "lock", !.user = u,
                                       !.video = v, !.want = w]]
    BY <1>3, <2>1, <2>2 DEF Parsing!Number
  <2>4. [Parsing!Idle EXCEPT !.pc = "lock", !.user = u, !.video = v, !.want = w]
        = [Parsing!Idle EXCEPT !.pc = "lock", !.user = u, !.want = w, !.video = v]
    OBVIOUS
  <2>5. handler' = [handler EXCEPT ![h] = [Parsing!Idle EXCEPT !.pc = "lock", !.user = u, !.want = w, !.video = v]]
    BY <2>3, <2>4
  <2>6. w \in {"menu", "single", "text", "refused", "page"}
    OBVIOUS
  <2> QED
    BY <2>0, <2>5, <2>6, Begins
<1> QED
  BY <1>1, <1>2, <1>3

LEMMA LockedStep == ASSUME FilesInv, NEW h \in Handler, Parsing!Locked(h) PROVE FilesInv'
<1>1. PICK p \in {"pipe", "resolve"} : p = IF videos /\ handler[h].want # "refused" THEN "pipe" ELSE "resolve"
  OBVIOUS
<1>2. /\ handler[h].pc = "lock" /\ Parsing!Go(h, p) /\ UNCHANGED <<parser, videos, disk>> /\ pipe' = pipe
  BY <1>1 DEF Parsing!Locked, Parsing!At
<1>3. ASSUME NEW q, q.pc = p, q.want = handler[h].want, q.has = handler[h].has PROVE Working(h, q)'
  BY <1>1, <1>2, <1>3, Known1 DEF Working, Shape
<1> QED
  BY <1>2, <1>3, MovesOn

LEMMA AdmittedStep ==
  ASSUME Pipeline \in Nat, FilesInv, NEW h \in Handler, Parsing!Admitted(h)
  PROVE  FilesInv'
<1>1. /\ handler[h].pc = "pipe" /\ Parsing!Go(h, "resolve") /\ UNCHANGED <<parser, videos, disk>>
      /\ pipe' = pipe \cup {h} /\ Cardinality(pipe) < Pipeline
  BY CountIs DEF Parsing!Admitted, Parsing!At
<1>2. PipeKept'
  <2>1. IsFiniteSet(pipe) /\ Cardinality(pipe) \in Nat
    BY FS_CardinalityType DEF FilesInv, PipeKept
  <2>2. CASE h \in pipe
    <3>1. pipe' = pipe
      BY <1>1, <2>2
    <3> QED
      BY <3>1 DEF FilesInv, PipeKept
  <2>3. CASE h \notin pipe
    <3>1. IsFiniteSet(pipe \cup {h}) /\ Cardinality(pipe \cup {h}) = Cardinality(pipe) + 1
      BY <2>1, <2>3, FS_AddElement
    <3> QED
      BY <1>1, <2>1, <3>1 DEF PipeKept
  <2> QED
    BY <2>2, <2>3
<1>3. ASSUME NEW q, q.pc = "resolve", q.want = handler[h].want, q.has = handler[h].has PROVE Working(h, q)'
  BY <1>1, <1>3, Known1 DEF Working, Shape
<1> QED
  BY <1>1, <1>2, <1>3, MovesOn

LEMMA ResolveStep == ASSUME FilesInv, NEW h \in Handler, Parsing!Resolve(h) PROVE FilesInv'
<1> DEFINE w == handler[h].want
<1>0. w \in {"menu", "single", "text", "refused", "page"}
  BY Known1 DEF Working, Parsing!Resolve, Parsing!At
<1>1. PICK p \in {"ask", "reply", "download"} :
        /\ p = CASE w \in {"menu", "single"} -> "ask" [] w \in {"text", "refused"} -> "reply"
                 [] w = "page" -> IF videos THEN "download" ELSE "reply"
        /\ p = "ask" => w \in {"menu", "single"}
        /\ p = "download" => videos /\ w = "page"
  BY <1>0
<1>2. /\ handler[h].pc = "resolve" /\ Parsing!Go(h, p) /\ UNCHANGED <<parser, videos, disk>> /\ pipe' = pipe
  BY <1>1 DEF Parsing!Resolve, Parsing!At
<1>3. ASSUME NEW q, q.pc = p, q.want = handler[h].want, q.has = handler[h].has PROVE Working(h, q)'
  BY <1>1, <1>2, <1>3, Known1 DEF Working, Shape
<1> QED
  BY <1>2, <1>3, MovesOn

LEMMA AnsweredStep == ASSUME FilesInv, NEW h \in Handler, Parsing!Answered(h) PROVE FilesInv'
<1>1. PICK p \in {"download", "reply"} :
        p = IF videos /\ handler[h].want = "single" THEN "download" ELSE "reply"
  OBVIOUS
<1>2. /\ handler[h].pc = "ask" /\ Parsing!Go(h, p) /\ UNCHANGED <<parser, videos, disk>> /\ pipe' = pipe
  BY <1>1 DEF Parsing!Answered, Parsing!At
<1>3. ASSUME NEW q, q.pc = p, q.want = handler[h].want, q.has = handler[h].has PROVE Working(h, q)'
  BY <1>1, <1>2, <1>3, Known1 DEF Working, Shape
<1> QED
  BY <1>2, <1>3, MovesOn

LEMMA DownloadedStep == ASSUME FilesInv, NEW h \in Handler, Parsing!Downloaded(h) PROVE FilesInv'
<1>1. PICK p \in {"turn", "reply"} : p = IF handler[h].has > 0 \/ parser = "x" THEN "turn" ELSE "reply"
  OBVIOUS
<1>2. /\ handler[h].pc = "download" /\ Parsing!Go(h, p) /\ UNCHANGED <<parser, videos, disk>> /\ pipe' = pipe
  BY <1>1 DEF Parsing!Downloaded, Parsing!At
<1>3. ASSUME NEW q, q.pc = p, q.want = handler[h].want, q.has = handler[h].has PROVE Working(h, q)'
  BY <1>1, <1>2, <1>3, Known1 DEF Working, Shape
<1> QED
  BY <1>2, <1>3, MovesOn

LEMMA TurnStep ==
  ASSUME FilesInv, NEW h \in Handler, Parsing!Sending(h) \/ Parsing!NextLink(h)
  PROVE  FilesInv'
<1>1. PICK p \in {"reply", "download"} :
        /\ handler[h].pc \in {"turn", "reply"} /\ Parsing!Go(h, p)
        /\ p = "download" => parser # "bilibili"
        /\ UNCHANGED <<parser, videos, disk>> /\ pipe' = pipe
  BY DEF Parsing!Sending, Parsing!NextLink, Parsing!At
<1>2. ASSUME NEW q, q.pc = p, q.want = handler[h].want, q.has = handler[h].has PROVE Working(h, q)'
  BY <1>1, <1>2, Known1 DEF Working, Shape
<1> QED
  BY <1>1, <1>2, MovesOn

-----------------------------------------------------------------------------
\* One more file.
LEMMA DownloadStep == ASSUME FilesInv, NEW h \in Handler, Parsing!Download(h) PROVE FilesInv'
<1>0. /\ Shape(handler[h]) /\ Working(h, handler[h]) /\ handler[h].pc = "download" /\ handler[h].has \in Nat
      /\ UNCHANGED <<parser, videos, pipe>>
  BY Known1 DEF Parsing!Download, Parsing!At, Shape
<1>1. PICK n \in Nat : n = handler[h].has + 1
  BY <1>0
<1>q. PICK q : q = [handler[h] EXCEPT !.has = n]
  OBVIOUS
<1>f. PICK f : f = <<handler[h].video, n, h>>
  OBVIOUS
<1>2. handler' = [handler EXCEPT ![h] = q] /\ disk' = disk \cup {f}
  BY <1>1, <1>q, <1>f DEF Parsing!Download, Parsing!FileName
<1>3. /\ Shape(q) /\ q.pc = "download" /\ q.want = handler[h].want /\ q.video = handler[h].video
      /\ q.has = n
  <2>1. PICK r : r = handler[h] /\ Shape(r)
    BY <1>0
  <2>2. PICK a, b, c, d, m : r = [pc |-> a, user |-> b, want |-> c, video |-> d, has |-> m]
    BY <2>1 DEF Shape
  <2>3. [r EXCEPT !.has = n] = [pc |-> a, user |-> b, want |-> c, video |-> d, has |-> n]
    BY <2>2
  <2> QED
    BY <1>0, <1>q, <2>1, <2>2, <2>3 DEF Shape
<1>4. Working(h, q)'
  BY <1>0, <1>1, <1>3 DEF Working
<1>5. Mine(h, q) = Mine(h, handler[h]) \cup {f}
  <2>1. 1 .. n = (1 .. handler[h].has) \cup {n}
    BY <1>0, <1>1
  <2> QED
    BY <1>3, <1>f, <2>1 DEF Mine
<1>6. /\ \A g \in Handler : Mine(g, handler[g]) \subseteq disk
      /\ \A e \in disk : \E g \in Handler : e \in Mine(g, handler[g])
  BY DEF FilesInv, DiskKept
<1>7. Mine(h, q) \subseteq disk' /\ \A g \in Handler \ {h} : Mine(g, handler[g]) \subseteq disk'
  BY <1>2, <1>5, <1>6
<1>8. \A e \in disk' : e \in Mine(h, q) \/ \E g \in Handler \ {h} : e \in Mine(g, handler[g])
  BY <1>2, <1>5, <1>6
<1>9. PipeKept'
  BY <1>0 DEF FilesInv, PipeKept
<1> QED
  BY <1>0, <1>2, <1>3, <1>4, <1>7, <1>8, <1>9, Changes

\* The end of a handler takes its own files.
LEMMA Ended ==
  ASSUME Pipeline \in Nat, FilesInv, NEW h \in Handler, NEW ok, Parsing!End(h, ok),
         UNCHANGED <<parser, videos>>
  PROVE  FilesInv'
<1> DEFINE q == [Parsing!Idle EXCEPT !.pc = "done"]
<1>1. /\ handler' = [handler EXCEPT ![h] = q] /\ pipe' = pipe \ {h}
      /\ disk' = disk \ Mine(h, handler[h])
  BY FilesOfIs DEF Parsing!End, Parsing!Swept
<1>2. Shape(q) /\ q.pc = "done" /\ q.has = 0
  <2>1. Shape(Parsing!Idle) /\ Parsing!Idle.has = 0
    BY DEF Parsing!Idle, Shape
  <2> QED
    BY <2>1, Placed
<1> HIDE DEF q
<1>3. Working(h, q)' /\ Mine(h, q) = {}
  BY <1>2 DEF Working, Mine
<1>4. PipeKept'
  <2>1. IsFiniteSet(pipe) /\ pipe' \in SUBSET pipe
    BY <1>1 DEF FilesInv, PipeKept
  <2>2. IsFiniteSet(pipe') /\ Cardinality(pipe') <= Cardinality(pipe)
    BY <2>1, FS_Subset
  <2>3. Cardinality(pipe) \in Nat /\ Cardinality(pipe') \in Nat
    BY <2>1, <2>2, FS_CardinalityType
  <2> QED
    BY <2>2, <2>3 DEF FilesInv, PipeKept
<1>5. /\ \A g \in Handler : Mine(g, handler[g]) \subseteq disk
      /\ \A e \in disk : \E g \in Handler : e \in Mine(g, handler[g])
  BY DEF FilesInv, DiskKept
<1>6. \A g \in Handler \ {h} : \A e \in Mine(g, handler[g]) : e \notin Mine(h, handler[h])
  BY DEF Mine
<1>7. \A g \in Handler \ {h} : Mine(g, handler[g]) \subseteq disk'
  BY <1>1, <1>5, <1>6
<1>8. \A e \in disk' : \E g \in Handler \ {h} : e \in Mine(g, handler[g])
  BY <1>1, <1>5
<1>9. \A g \in Handler \ {h} : g \in pipe => g \in pipe'
  BY <1>1
<1> QED
  BY <1>1, <1>2, <1>3, <1>4, <1>7, <1>8, <1>9, Changes

LEMMA FilesNext ==
  ASSUME Pipeline \in Nat, FilesInv, [Parsing!Next]_Parsing!vars
  PROVE  FilesInv'
<1>1. ASSUME NEW h \in Handler,
             \/ \E u \in User, v \in Video :
                  (\E w \in {"menu", "single", "text"} : Parsing!Link(h, u, v, w)) \/ Parsing!Share(h, u, v)
             \/ \E u \in User, valid \in BOOLEAN : Parsing!Number(h, u, valid)
      PROVE  FilesInv'
  <2>1. \/ \E u \in User, v \in Video, w \in {"menu", "single", "text"} : Parsing!Link(h, u, v, w)
        \/ \E u \in User, v \in Video : Parsing!Share(h, u, v)
        \/ \E u \in User, valid \in BOOLEAN : Parsing!Number(h, u, valid)
    BY <1>1
  <2> QED
    BY <2>1, ReceptionStep
<1>2. ASSUME NEW h \in Handler, NEW ok \in BOOLEAN, Parsing!End(h, ok), UNCHANGED <<parser, videos>>
      PROVE  FilesInv'
  BY <1>2, Ended
<1>3. ASSUME NEW h \in Handler, \/ Parsing!Reply(h) \/ Parsing!Broken(h)
                                \/ \E out \in BOOLEAN : Parsing!ReplyFailed(h, out)
      PROVE  FilesInv'
  <2>1. \E ok \in BOOLEAN : Parsing!End(h, ok) /\ UNCHANGED <<parser, videos>>
    BY <1>3 DEF Parsing!Reply, Parsing!Broken, Parsing!ReplyFailed
  <2> QED
    BY <1>2, <2>1
<1>4. ASSUME NEW h \in Handler,
             \/ Parsing!Locked(h) \/ Parsing!Admitted(h) \/ Parsing!Resolve(h) \/ Parsing!Answered(h)
             \/ Parsing!Download(h) \/ Parsing!Downloaded(h) \/ Parsing!Sending(h) \/ Parsing!NextLink(h)
      PROVE  FilesInv'
  BY <1>4, LockedStep, AdmittedStep, ResolveStep, AnsweredStep, DownloadStep, DownloadedStep, TurnStep
<1>5. CASE Parsing!Expire \/ UNCHANGED Parsing!vars
  <2>1. UNCHANGED <<parser, videos, handler, pipe, disk>>
    BY <1>5 DEF Parsing!Expire, Parsing!vars
  <2> QED
    BY <2>1 DEF FilesInv, Shape, Working, PipeKept, DiskKept, Mine
<1> QED
  BY <1>1, <1>3, <1>4, <1>5 DEF Parsing!Next

\* Whatever is asked for and however many ask: every file on the disk is of a handler at
\* work, no more of them than the pipeline admits have files, and none loses its own.
THEOREM FilesOfHandlers == ASSUME Pipeline \in Nat PROVE Parsing!Spec => []Files
<1>1. Parsing!Init => FilesInv
  BY FilesInit
<1>2. FilesInv /\ [Parsing!Next]_Parsing!vars => FilesInv'
  BY FilesNext
<1>3. FilesInv => Parsing!Files
  <2> SUFFICES ASSUME FilesInv PROVE Parsing!Files
    OBVIOUS
  <2>1. disk \subseteq UNION {Parsing!FilesOf(h) : h \in Handler}
    BY FilesOfIs DEF FilesInv, DiskKept
  <2>2. \A h \in Handler : Parsing!FilesOf(h) \subseteq disk
    BY FilesOfIs DEF FilesInv, DiskKept
  <2> DEFINE have == {h \in Handler : handler[h].has > 0}
  <2>3. have \in SUBSET pipe
    BY DEF FilesInv, Working
  <2> HIDE DEF have
  <2>4. IsFiniteSet(pipe) /\ Cardinality(pipe) \in Nat /\ Cardinality(pipe) <= Pipeline
    BY FS_CardinalityType DEF FilesInv, PipeKept
  <2>5. IsFiniteSet(have) /\ Cardinality(have) <= Cardinality(pipe)
    BY <2>3, <2>4, FS_Subset
  <2>6. Cardinality(have) \in Nat
    BY <2>5, FS_CardinalityType
  <2>7. Parsing!Cardinality(have) <= Pipeline
    BY <2>4, <2>5, <2>6, CountIs
  <2> QED
    BY <2>1, <2>2, <2>7 DEF Parsing!Files, have
<1> QED
  BY <1>1, <1>2, <1>3, PTL DEF Parsing!Spec, Files

-----------------------------------------------------------------------------
(* The poll job *)

\* A mapping lists a target once.
PollParameters ==
  \A o \in Orders : o \in Seq(Target) /\ \A i, j \in 1 .. Len(o) : o[i] = o[j] => i = j

PollTypes ==
  /\ config \in Poll!Settings /\ index \in Nat /\ turns \in [Target -> Nat] /\ reordered \in Nat
  /\ change \in [pc: {"none", "stop"}] \cup [pc: {"reload"}, old: Poll!Settings]

\* The job that belongs to settings.
JobOf(c) == [stagger |-> c.stagger, cycle |-> Poll!Cycle(c), of |-> Len(c.order)]

\* From position i on, p has its turn before q.
Before(p, q, i) == (p >= i /\ q < i) \/ (p < q /\ (p >= i <=> q >= i))

\* Who is due later may be one turn ahead, and one more for each new order of the list.
EvenFrom(ids, i, tt, r) ==
  \A p, q \in 0 .. Len(ids) - 1 :
    tt[ids[p + 1]] <= tt[ids[q + 1]] + r + IF Before(p, q, i) THEN 0 ELSE 1

Even == EvenFrom(config.order, Poll!Wrapped(Len(config.order)), turns, reordered)

\* Without an instance there is no job; with one it is that of the settings, during a
\* reload of the old or the new ones, unless a reload raised.
JobKept ==
  /\ ~running => job = Nobody /\ ~starting /\ change.pc = "none"
  /\ running /\ ~starting /\ ~missed /\ config.order # <<>> =>
       /\ change.pc = "none" => job = JobOf(config)
       /\ change.pc = "reload" /\ change.old.order # <<>> => job \in {JobOf(change.old), JobOf(config)}

PollInv == PollTypes /\ JobKept /\ Even

-----------------------------------------------------------------------------
LEMMA NextPosition ==
  ASSUME NEW n \in Nat, NEW i \in Nat, i < n
  PROVE  (i + 1) % n = IF i + 1 = n THEN 0 ELSE i + 1
<1>1. CASE i + 1 = n
  BY <1>1, Z3
<1>2. CASE i + 1 < n
  BY <1>2, Z3
<1> QED
  BY <1>1, <1>2

\* One position further, the order of the others stays, and the first is the last.
LEMMA BeforeNext ==
  ASSUME NEW n \in Nat, NEW i \in 0 .. n - 1, NEW p \in 0 .. n - 1, NEW q \in 0 .. n - 1,
         NEW k \in 0 .. n - 1, k = IF i + 1 = n THEN 0 ELSE i + 1
  PROVE  /\ p # i /\ q # i => (Before(p, q, k) <=> Before(p, q, i))
         /\ p # i => Before(i, p, i) /\ ~Before(i, p, k) /\ Before(p, i, k)
BY DEF Before

LEMMA LengthIs ==
  ASSUME PollParameters, NEW o \in Orders
  PROVE  /\ Len(o) \in Nat /\ (o # <<>> => Len(o) > 0) /\ \A i \in 1 .. Len(o) : o[i] \in Target
         /\ \A i, j \in 1 .. Len(o) : o[i] = o[j] => i = j
         /\ Poll!ToSet(o) = {o[i] : i \in 1 .. Len(o)}
<1>1. o \in Seq(Target) /\ \A i, j \in 1 .. Len(o) : o[i] = o[j] => i = j
  BY DEF PollParameters
<1>2. DOMAIN o = 1 .. Len(o) /\ Len(o) \in Nat /\ (o # <<>> => Len(o) > 0)
  BY <1>1
<1>3. Poll!ToSet(o) = {o[i] : i \in 1 .. Len(o)}
  BY <1>2 DEF Poll!ToSet
<1> QED
  BY <1>1, <1>2, <1>3

\* The same targets, each once: as many of them.
LEMMA SameLength ==
  ASSUME PollParameters, NEW o \in Orders, NEW p \in Orders, Poll!ToSet(o) = Poll!ToSet(p)
  PROVE  Len(o) = Len(p)
<1>1. ASSUME NEW q \in Orders PROVE IsFiniteSet(Poll!ToSet(q)) /\ Cardinality(Poll!ToSet(q)) = Len(q)
  <2> DEFINE T == Poll!ToSet(q)
             D == 1 .. Len(q)
             f == [i \in D |-> q[i]]
  <2>1. T = {q[i] : i \in D} /\ Len(q) \in Nat /\ \A i, j \in D : q[i] = q[j] => i = j
    BY LengthIs
  <2>2. IsFiniteSet(D) /\ Cardinality(D) = Len(q)
    <3>1. 1 \in Int /\ Len(q) \in Int /\ (1 > Len(q) => Len(q) = 0) /\ Len(q) - 1 + 1 = Len(q)
      BY <2>1
    <3> QED
      BY <3>1, FS_Interval
  <2> HIDE DEF T, D
  <2>3. f \in Surjection(D, T) /\ f \in Injection(D, T)
    <3>1. f \in [D -> T] /\ \A i \in D : f[i] = q[i]
      BY <2>1
    <3>2. \A i, j \in D : f[i] = f[j] => i = j
      BY <2>1, <3>1
    <3>3. \A t \in T : \E i \in D : f[i] = t
      BY <2>1, <3>1
    <3> HIDE DEF f
    <3> QED
      BY <3>1, <3>2, <3>3 DEF Surjection, Injection, IsInjective
  <2>4. IsFiniteSet(T) /\ Cardinality(T) = Cardinality(D)
    BY <2>2, <2>3, FS_Surjection
  <2> QED
    BY <2>2, <2>4 DEF T
<1> QED
  BY <1>1

\* Counted anew, all are even.
LEMMA EvenAnew ==
  ASSUME PollParameters, NEW o \in Orders, NEW i, NEW tt, tt = [t \in Target |-> 0]
  PROVE  EvenFrom(o, i, tt, 0)
<1> SUFFICES ASSUME NEW p \in 0 .. Len(o) - 1, NEW q \in 0 .. Len(o) - 1
    PROVE tt[o[p + 1]] <= tt[o[q + 1]] + 0 + IF Before(p, q, i) THEN 0 ELSE 1
  BY DEF EvenFrom
<1>1. Len(o) \in Nat /\ \A j \in 1 .. Len(o) : o[j] \in Target
  BY LengthIs
<1>2. o[p + 1] \in Target /\ o[q + 1] \in Target
  BY <1>1
<1>3. tt[o[p + 1]] = 0 /\ tt[o[q + 1]] = 0
  BY <1>2
<1> QED
  BY <1>3

\* Whatever the order, no target is more than one turn ahead.
LEMMA EvenAll ==
  ASSUME PollParameters, PollTypes, Even
  PROVE  \A s, t \in Poll!ToSet(config.order) : turns[s] <= turns[t] + 1 + reordered
<1> SUFFICES ASSUME NEW s \in Poll!ToSet(config.order), NEW t \in Poll!ToSet(config.order)
    PROVE turns[s] <= turns[t] + 1 + reordered
  OBVIOUS
<1>1. config.order \in Orders
  BY DEF PollTypes, Poll!Settings
<1>2. PICK n \in Nat : n = Len(config.order)
  BY <1>1, LengthIs
<1>3. PICK x \in 1 .. n, y \in 1 .. n : s = config.order[x] /\ t = config.order[y]
  BY <1>1, <1>2, LengthIs
<1>4. PICK p \in 0 .. n - 1, q \in 0 .. n - 1 : x = p + 1 /\ y = q + 1
  <2>1. x - 1 \in 0 .. n - 1 /\ y - 1 \in 0 .. n - 1 /\ x = (x - 1) + 1 /\ y = (y - 1) + 1
    OBVIOUS
  <2> QED
    BY <2>1
<1>5. turns[s] \in Nat /\ turns[t] \in Nat /\ reordered \in Nat
  <2>1. s \in Target /\ t \in Target
    BY <1>1, <1>2, <1>3, LengthIs
  <2> QED
    BY <2>1 DEF PollTypes
<1>6. turns[s] <= turns[t] + reordered
        + IF Before(p, q, Poll!Wrapped(Len(config.order))) THEN 0 ELSE 1
  BY <1>2, <1>3, <1>4 DEF Even, EvenFrom
<1> QED
  BY <1>5, <1>6

LEMMA PollInit == ASSUME PollParameters, Poll!Init PROVE PollInv
<1>1. config \in Poll!Settings /\ index \in Nat /\ turns = [t \in Target |-> 0] /\ reordered = 0
  BY DEF Poll!Init, Poll!Zero
<1>2. config.order \in Orders
  BY <1>1 DEF Poll!Settings
<1>3. Even
  BY <1>1, <1>2, EvenAnew DEF Even
<1>4. PollTypes /\ JobKept
  BY <1>1 DEF Poll!Init, PollTypes, JobKept
<1> QED
  BY <1>3, <1>4 DEF PollInv

\* Nothing happens to the settings and the turns.
LEMMA EvenSame ==
  ASSUME Even, config'.order = config.order, UNCHANGED <<index, turns, reordered>>
  PROVE  Even'
BY DEF Even, EvenFrom, Poll!Wrapped

LEMMA PollSame ==
  ASSUME PollInv,
         UNCHANGED <<config, running, starting, index, job, change, turns, reordered, missed>>
  PROVE  PollInv'
<1>1. Even'
  BY EvenSame DEF PollInv
<1> QED
  BY <1>1 DEF PollInv, PollTypes, JobKept, JobOf, Poll!Cycle

-----------------------------------------------------------------------------
\* The next target's turn.
LEMMA EvenTick ==
  ASSUME PollParameters, PollTypes, Even, config.order # <<>>, Poll!TickNext,
         UNCHANGED <<config, reordered>>
  PROVE  Even' /\ index' \in Nat /\ turns' \in [Target -> Nat]
<1>1. PICK ids \in Orders : ids = config.order
  BY DEF PollTypes, Poll!Settings
<1>2. PICK n \in Nat : n = Len(ids)
  BY <1>1, LengthIs
<1>3. n > 0 /\ \A j \in 0 .. n - 1 : ids[j + 1] \in Target
  BY <1>1, <1>2, LengthIs
<1>4. \A j, k \in 0 .. n - 1 : ids[j + 1] = ids[k + 1] => j = k
  BY <1>1, <1>2, LengthIs
<1>5. PICK i \in 0 .. n - 1 : i = Poll!Wrapped(n)
  BY <1>3 DEF Poll!Wrapped, PollTypes
<1>6. index' = (i + 1) % n /\ turns' = [turns EXCEPT ![ids[i + 1]] = @ + 1]
  BY <1>1, <1>2, <1>5 DEF Poll!TickNext
<1>7. PICK k \in 0 .. n - 1 : k = IF i + 1 = n THEN 0 ELSE i + 1
  BY <1>3
<1>8. index' = k
  <2>1. i \in Nat /\ i < n
    BY <1>5
  <2>2. (i + 1) % n = IF i + 1 = n THEN 0 ELSE i + 1
    BY <2>1, NextPosition
  <2> QED
    BY <1>6, <1>7, <2>2
<1>9. Poll!Wrapped(n)' = k
  <2>1. k \in Nat /\ k < n
    BY <1>3
  <2> QED
    BY <1>8, <2>1 DEF Poll!Wrapped
<1>10. /\ turns' \in [Target -> Nat]
       /\ \A j \in 0 .. n - 1 :
            /\ turns[ids[j + 1]] \in Nat
            /\ turns'[ids[j + 1]] = IF j = i THEN turns[ids[j + 1]] + 1 ELSE turns[ids[j + 1]]
  <2>1. PICK t \in Target : t = ids[i + 1]
    BY <1>3
  <2>2. turns \in [Target -> Nat] /\ turns' = [turns EXCEPT ![t] = @ + 1]
    BY <1>6, <2>1 DEF PollTypes
  <2>3. \A u \in Target : turns[u] \in Nat /\ turns'[u] = IF u = t THEN turns[u] + 1 ELSE turns[u]
    BY <2>2
  <2>4. \A j \in 0 .. n - 1 : ids[j + 1] \in Target /\ (ids[j + 1] = t <=> j = i)
    BY <1>3, <1>4, <2>1
  <2> QED
    BY <2>2, <2>3, <2>4
<1>11. \A p, q \in 0 .. n - 1 :
         turns[ids[p + 1]] <= turns[ids[q + 1]] + reordered + IF Before(p, q, i) THEN 0 ELSE 1
  BY <1>1, <1>2, <1>5 DEF Even, EvenFrom
<1>12. ASSUME NEW p \in 0 .. n - 1, NEW q \in 0 .. n - 1
       PROVE  turns'[ids[p + 1]] <= turns'[ids[q + 1]] + reordered + IF Before(p, q, k) THEN 0 ELSE 1
  <2>1. /\ turns[ids[p + 1]] <= turns[ids[q + 1]] + reordered + IF Before(p, q, i) THEN 0 ELSE 1
        /\ turns[ids[p + 1]] \in Nat /\ turns[ids[q + 1]] \in Nat /\ reordered \in Nat
    BY <1>10, <1>11 DEF PollTypes
  <2>2. /\ turns'[ids[p + 1]] = IF p = i THEN turns[ids[p + 1]] + 1 ELSE turns[ids[p + 1]]
        /\ turns'[ids[q + 1]] = IF q = i THEN turns[ids[q + 1]] + 1 ELSE turns[ids[q + 1]]
    BY <1>10
  <2>3. /\ p # i /\ q # i => (Before(p, q, k) <=> Before(p, q, i))
        /\ p # i => Before(p, i, k)
        /\ q # i => Before(i, q, i) /\ ~Before(i, q, k)
    BY <1>7, BeforeNext
  <2>4. CASE p = i /\ q = i
    BY <2>1, <2>2, <2>4
  <2>5. CASE p = i /\ q # i
    BY <2>1, <2>2, <2>3, <2>5
  <2>6. CASE p # i /\ q = i
    BY <2>1, <2>2, <2>3, <2>6
  <2>7. CASE p # i /\ q # i
    BY <2>1, <2>2, <2>3, <2>7
  <2> QED
    BY <2>4, <2>5, <2>6, <2>7
<1>13. EvenFrom(ids, k, turns', reordered)
  BY <1>2, <1>12 DEF EvenFrom
<1>14. Even'
  <2>1. config'.order = ids /\ reordered' = reordered /\ Poll!Wrapped(Len(ids))' = k
    BY <1>1, <1>2, <1>9
  <2> QED
    BY <1>13, <2>1 DEF Even, EvenFrom
<1> QED
  BY <1>8, <1>10, <1>14

LEMMA PollTickStep == ASSUME PollParameters, PollInv, Poll!Tick PROVE PollInv'
<1>1. /\ UNCHANGED <<config, running, starting, job, change, reordered, missed>>
      /\ config.order # <<>> /\ PollTypes /\ JobKept /\ Even
  BY DEF Poll!Tick, PollInv
<1>2. CASE Poll!TickNext
  <2>1. Even' /\ index' \in Nat /\ turns' \in [Target -> Nat]
    BY <1>1, <1>2, EvenTick
  <2> QED
    BY <1>1, <2>1 DEF PollInv, PollTypes, JobKept, JobOf, Poll!Cycle
<1>3. CASE Poll!TickAll
  <2>1. UNCHANGED <<index, turns>>
    BY <1>3 DEF Poll!TickAll
  <2> QED
    BY <1>1, <2>1, PollSame
<1> QED
  BY <1>2, <1>3 DEF Poll!Tick

\* The history of turns is begun anew, for any list and index.
LEMMA AnewStep ==
  ASSUME PollParameters, Poll!Anew, config' \in Poll!Settings
  PROVE  Even' /\ turns' \in [Target -> Nat] /\ reordered' \in Nat
<1>1. turns' = [t \in Target |-> 0] /\ reordered' = 0 /\ config'.order \in Orders
  BY DEF Poll!Anew, Poll!Zero, Poll!Settings
<1>2. PICK i : i = Poll!Wrapped(Len(config.order))'
  OBVIOUS
<1>3. EvenFrom(config'.order, i, turns', 0)
  BY <1>1, EvenAnew
<1>4. Even'
  BY <1>1, <1>2, <1>3 DEF Even, EvenFrom
<1>5. turns' \in [Target -> Nat] /\ reordered' \in Nat
  BY <1>1
<1> QED
  BY <1>4, <1>5

LEMMA PollStartStep == ASSUME PollParameters, PollInv, Poll!Start PROVE PollInv'
<1>1. /\ PollTypes /\ JobKept /\ UNCHANGED <<config, job, change>> /\ Poll!Anew
      /\ index' = 0 /\ running' = TRUE /\ starting' = TRUE
  BY DEF PollInv, Poll!Start
<1>2. config' \in Poll!Settings
  BY <1>1 DEF PollTypes
<1>3. Even' /\ turns' \in [Target -> Nat] /\ reordered' \in Nat
  BY <1>1, <1>2, AnewStep
<1> QED
  BY <1>1, <1>2, <1>3 DEF PollInv, PollTypes, JobKept

LEMMA PollStartedStep == ASSUME PollParameters, PollInv, Poll!Started PROVE PollInv'
<1>1. /\ PollTypes /\ JobKept /\ Even
      /\ UNCHANGED <<config, running, index, change, turns, reordered>>
      /\ starting /\ ~starting' /\ Poll!Schedule(config)
  BY DEF PollInv, Poll!Started
<1>2. Even'
  BY <1>1, EvenSame
<1>3. running'
  BY <1>1 DEF JobKept
<1>4. JobOf(config)' = JobOf(config) /\ JobOf(change.old)' = JobOf(change.old)
  BY <1>1 DEF JobOf, Poll!Cycle
<1>5. CASE config.order # <<>>
  <2>1. job' = JobOf(config) /\ ~missed'
    BY <1>1, <1>5 DEF Poll!Schedule, JobOf
  <2> QED
    BY <1>1, <1>2, <1>3, <1>4, <2>1 DEF PollInv, PollTypes, JobKept
<1>6. CASE config.order = <<>>
  BY <1>1, <1>2, <1>3, <1>6 DEF PollInv, PollTypes, JobKept
<1> QED
  BY <1>5, <1>6

LEMMA PollStopStep == ASSUME PollParameters, PollInv, Poll!StopMonitoring PROVE PollInv'
<1>1. /\ PollTypes /\ JobKept /\ Even
      /\ UNCHANGED <<config, index, starting, turns, reordered>>
      /\ ~starting /\ running' = FALSE /\ job' = Nobody /\ change' = [pc |-> "none"]
  BY DEF PollInv, Poll!StopMonitoring, Poll!history
<1>2. Even'
  BY <1>1, EvenSame
<1> QED
  BY <1>1, <1>2 DEF PollInv, PollTypes, JobKept

\* The settings in force become those before the reload.
LEMMA PollReloadStep ==
  ASSUME PollParameters, PollInv, NEW c \in Poll!Settings, Poll!Reload(c)
  PROVE  PollInv'
<1>1. /\ PollTypes /\ JobKept /\ Even /\ change.pc = "none" /\ config' = c
      /\ UNCHANGED <<running, starting, index, job, missed>>
  BY DEF PollInv, Poll!Reload
<1>2. change' = IF running THEN [pc |-> "reload", old |-> config] ELSE change
  BY DEF Poll!Reload
<1>3. Even' /\ turns' \in [Target -> Nat] /\ reordered' \in Nat
  <2>1. CASE Poll!ToSet(c.order) # Poll!ToSet(config.order)
    <3>1. Poll!Anew
      BY <2>1 DEF Poll!Reload
    <3> QED
      BY <1>1, <3>1, AnewStep
  <2>2. CASE c.order = config.order
    <3>1. UNCHANGED <<turns, reordered>>
      BY <2>2 DEF Poll!Reload
    <3> QED
      BY <1>1, <2>2, <3>1, EvenSame DEF PollTypes
  <2>3. CASE Poll!ToSet(c.order) = Poll!ToSet(config.order) /\ c.order # config.order
    <3>1. turns' = turns /\ reordered' = reordered + 1
      BY <2>3 DEF Poll!Reload
    <3>2. \A s, t \in Poll!ToSet(c.order) : turns[s] <= turns[t] + 1 + reordered
      BY <1>1, <2>3, EvenAll
    <3>3. PICK o \in Orders : o = c.order
      BY DEF Poll!Settings
    <3>4. PICK i : i = Poll!Wrapped(Len(config.order))'
      OBVIOUS
    <3>5. ASSUME NEW p \in 0 .. Len(o) - 1, NEW q \in 0 .. Len(o) - 1
          PROVE  turns[o[p + 1]] <= turns[o[q + 1]] + (reordered + 1)
                                     + IF Before(p, q, i) THEN 0 ELSE 1
      <4>1. /\ Len(o) \in Nat /\ Poll!ToSet(o) = {o[j] : j \in 1 .. Len(o)}
            /\ \A j \in 1 .. Len(o) : o[j] \in Target
        BY LengthIs
      <4>2. p + 1 \in 1 .. Len(o) /\ q + 1 \in 1 .. Len(o)
        BY <4>1
      <4>3. turns[o[p + 1]] \in Nat /\ turns[o[q + 1]] \in Nat /\ reordered \in Nat
        BY <1>1, <4>1, <4>2 DEF PollTypes
      <4>4. turns[o[p + 1]] <= turns[o[q + 1]] + 1 + reordered
        BY <3>2, <3>3, <4>1, <4>2
      <4> QED
        BY <4>3, <4>4
    <3>6. EvenFrom(o, i, turns, reordered + 1)
      BY <3>5 DEF EvenFrom
    <3>7. config'.order = o
      BY <1>1, <3>3
    <3>8. Even'
      BY <3>1, <3>4, <3>6, <3>7 DEF Even, EvenFrom
    <3> QED
      BY <1>1, <3>1, <3>8 DEF PollTypes
  <2> QED
    BY <2>1, <2>2, <2>3
<1>4. PollTypes'
  BY <1>1, <1>2, <1>3 DEF PollTypes
<1>5. JobKept'
  <2>1. CASE ~running
    BY <1>1, <1>2, <2>1 DEF JobKept
  <2>2. CASE running
    <3>1. change'.pc = "reload" /\ change'.old = config
      BY <1>2, <2>2
    <3>2. JobOf(change.old)' = JobOf(config)
      BY <3>1 DEF JobOf, Poll!Cycle
    <3> QED
      BY <1>1, <2>2, <3>1, <3>2 DEF JobKept
  <2> QED
    BY <2>1, <2>2
<1> QED
  BY <1>3, <1>4, <1>5 DEF PollInv

\* What did not move has the same job.
LEMMA PollReloadedStep == ASSUME PollParameters, PollInv, Poll!Reloaded PROVE PollInv'
<1> DEFINE old == change.old
           again == Poll!Moved(old) \/ config.interval # old.interval
<1>1. /\ PollTypes /\ JobKept /\ Even /\ change.pc = "reload"
      /\ UNCHANGED <<config, running, starting>>
      /\ old \in Poll!Settings /\ config \in Poll!Settings
  BY DEF PollInv, PollTypes, Poll!Reloaded
<1>2. change' = [pc |-> IF config.order = <<>> THEN "stop" ELSE "none"]
  BY DEF Poll!Reloaded
<1>3. Even' /\ index' \in Nat /\ turns' \in [Target -> Nat] /\ reordered' \in Nat
  <2>1. CASE Poll!Moved(old)
    <3>1. index' = 0 /\ Poll!Anew
      BY <2>1 DEF Poll!Reloaded
    <3> QED
      BY <1>1, <3>1, AnewStep
  <2>2. CASE ~Poll!Moved(old)
    <3>1. UNCHANGED <<index, turns, reordered>>
      BY <2>2 DEF Poll!Reloaded
    <3> QED
      BY <1>1, <3>1, EvenSame DEF PollTypes
  <2> QED
    BY <2>1, <2>2
<1>4. PollTypes'
  BY <1>1, <1>2, <1>3 DEF PollTypes
<1>5. running
  BY <1>1 DEF JobKept
<1>6. ~starting /\ ~missed' /\ config.order # <<>> => job' = JobOf(config)
  <2> SUFFICES ASSUME ~starting, ~missed', config.order # <<>> PROVE job' = JobOf(config)
    OBVIOUS
  <2>1. CASE again
    BY <2>1 DEF Poll!Reloaded, Poll!Schedule, JobOf
  <2>2. CASE ~again
    <3>1. /\ Poll!ToSet(config.order) = Poll!ToSet(old.order)
          /\ config.stagger = old.stagger /\ config.interval = old.interval
      BY <2>2 DEF Poll!Moved
    <3>2. job' = job /\ missed' = missed
      BY <2>2 DEF Poll!Reloaded
    <3>3. config.order \in Orders /\ old.order \in Orders
      BY <1>1 DEF Poll!Settings
    <3>4. Len(config.order) = Len(old.order)
      BY <3>1, <3>3, SameLength
    <3>5. old.order # <<>>
      <4>1. Len(config.order) > 0
        BY <3>3, LengthIs
      <4> QED
        BY <3>4, <4>1
    <3>6. job \in {JobOf(old), JobOf(config)}
      BY <1>1, <1>5, <3>2, <3>5 DEF JobKept
    <3>7. JobOf(old) = JobOf(config)
      BY <3>1, <3>4 DEF JobOf, Poll!Cycle
    <3> QED
      BY <3>2, <3>6, <3>7
  <2> QED
    BY <2>1, <2>2
<1>7. JobOf(config)' = JobOf(config) /\ change'.pc # "reload"
  BY <1>1, <1>2 DEF JobOf, Poll!Cycle
<1>8. JobKept'
  BY <1>1, <1>5, <1>6, <1>7 DEF JobKept
<1> QED
  BY <1>3, <1>4, <1>8 DEF PollInv

LEMMA PollReloadFailedStep == ASSUME PollParameters, PollInv, Poll!ReloadFailed PROVE PollInv'
<1>1. /\ PollTypes /\ JobKept /\ Even /\ change.pc = "reload"
      /\ change' = [pc |-> "none"] /\ missed' = TRUE
      /\ UNCHANGED <<config, running, starting, index, job, turns, reordered>>
  BY DEF PollInv, Poll!ReloadFailed
<1>2. Even'
  BY <1>1, EvenSame
<1> QED
  BY <1>1, <1>2 DEF PollInv, PollTypes, JobKept

LEMMA PollRecountStep == ASSUME PollParameters, PollInv, Poll!Recount PROVE PollInv'
<1>1. /\ PollTypes /\ JobKept /\ Poll!Anew
      /\ UNCHANGED <<config, running, starting, index, job, change, missed>>
  BY DEF PollInv, Poll!Recount
<1>2. Even' /\ turns' \in [Target -> Nat] /\ reordered' \in Nat
  BY <1>1, AnewStep DEF PollTypes
<1> QED
  BY <1>1, <1>2 DEF PollInv, PollTypes, JobKept, JobOf, Poll!Cycle

LEMMA PollNext == ASSUME PollParameters, PollInv, [Poll!Next]_Poll!vars PROVE PollInv'
<1>1. CASE \/ Poll!Ask \/ UNCHANGED Poll!vars \/ \E r \in Poll!Runner : Poll!Return(r)
           \/ \E r \in Poll!Runner, t \in Target : Poll!Answer(r, t)
  <2>1. UNCHANGED <<config, running, starting, index, job, change, turns, reordered, missed>>
    BY <1>1 DEF Poll!Ask, Poll!vars, Poll!history, Poll!Return, Poll!Answer
  <2> QED
    BY <2>1, PollSame
<1>2. CASE Poll!Stop \/ Poll!ReloadStop
  BY <1>2, PollStopStep DEF Poll!Stop, Poll!ReloadStop
<1>3. CASE Poll!Tick \/ Poll!Start \/ Poll!Started \/ Poll!Recount
  BY <1>3, PollTickStep, PollStartStep, PollStartedStep, PollRecountStep
<1>4. CASE Poll!Reloaded \/ Poll!ReloadFailed \/ \E c \in Poll!Settings : Poll!Reload(c)
  BY <1>4, PollReloadStep, PollReloadedStep, PollReloadFailedStep
<1> QED
  BY <1>1, <1>2, <1>3, <1>4 DEF Poll!Next

\* For any targets and settings and any history of starts, stops, reloads, those that raise
\* too, and manual checks: the registered job is that of the settings in force, unless a
\* reload raised and no job was registered since; no target is checked a second time before
\* the others were checked once, but for one more turn each time the list is put in another
\* order.
THEOREM JobScheduled == ASSUME PollParameters PROVE Poll!Spec => []Scheduled
<1>1. Poll!Init => PollInv
  BY PollInit
<1>2. PollInv /\ [Poll!Next]_Poll!vars => PollInv'
  BY PollNext
<1>3. PollInv => Poll!Scheduled
  BY EvenAll DEF PollInv, JobKept, JobOf, Poll!Scheduled
<1> QED
  BY <1>1, <1>2, <1>3, PTL DEF Poll!Spec, Scheduled

-----------------------------------------------------------------------------
(* Tables of targets *)

\* No row is None; a request gives numbers of groups and users, if any.
TableParameters ==
  /\ None \notin Id
  /\ \A k, n, u, g, p : None # [key |-> k, name |-> n, uid |-> u, groups |-> g, users |-> p]
  /\ \A b \in Bodies : b.groups \in Nat \cup {None} /\ b.users \in Nat \cup {None}

\* A row with somebody to notify.
Row(w) ==
  /\ w = [key |-> w.key, name |-> w.name, uid |-> w.uid, groups |-> w.groups, users |-> w.users]
  /\ w.groups \in Nat /\ w.users \in Nat /\ w.groups + w.users > 0

Own(w) == kind = "x" /\ ~overtook => w.uid \in {None, w.key}

\* A request that looks a profile up, or is about to write.
Form(q) ==
  q = [pc |-> q.pc, op |-> q.op, id |-> q.id, key |-> q.key, name |-> q.name, uid |-> q.uid,
       named |-> q.named, groups |-> q.groups, users |-> q.users, renamed |-> q.renamed,
       body |-> q.body]

Asked(q) ==
  q.pc \in {"lookup", "write"} =>
    /\ Form(q) /\ q.uid \in {None, q.key}
    /\ q.op = "create" => q.groups \in Nat /\ q.users \in Nat /\ q.groups + q.users > 0
    /\ q.op \in {"update", "refresh"} => q.id \in Id
    /\ q.op = "update" =>
         /\ q.body \in Bodies /\ q.body.key \in {None, q.key}
         \* ... whose key the row still has, if it is not to be changed
         /\ kind = "x" /\ ~overtook /\ ~q.renamed => q.id \in Table!Rows /\ table[q.id].key = q.key

TableInv ==
  /\ table = [i \in Id |-> table[i]] /\ req = [r \in AdminRequests |-> req[r]] /\ overtook \in BOOLEAN
  /\ \A i \in Table!Rows : Row(table[i]) /\ Own(table[i])
  /\ \A i, j \in Table!Rows : table[i].key = table[j].key => i = j
  /\ \A r \in AdminRequests : Asked(req[r])
  /\ kind = "x" => \A k \in Key : lookups[k] \in {0, 1} /\ (lookups[k] = 1 => k \in claimed)

-----------------------------------------------------------------------------
\* Fields of a record that is changed.
LEMMA RowChanged ==
  ASSUME NEW w, Row(w), NEW n, NEW u, NEW v, v = [w EXCEPT !.name = n, !.uid = u]
  PROVE  /\ v = [key |-> w.key, name |-> n, uid |-> u, groups |-> w.groups, users |-> w.users]
         /\ Row(v) /\ v.key = w.key /\ v.uid = u
<1>1. PICK a, b, c, d, e : w = [key |-> a, name |-> b, uid |-> c, groups |-> d, users |-> e]
  BY DEF Row
<1>2. v = [key |-> a, name |-> n, uid |-> u, groups |-> d, users |-> e]
  BY <1>1
<1> QED
  BY <1>1, <1>2 DEF Row

LEMMA FormAnswered ==
  ASSUME NEW q, Form(q)
  PROVE  [q EXCEPT !.pc = "reload"].pc = "reload"
<1>1. PICK a, b, c, d, e, f, g, h, i, j, k :
        q = [pc |-> a, op |-> b, id |-> c, key |-> d, name |-> e, uid |-> f,
             named |-> g, groups |-> h, users |-> i, renamed |-> j, body |-> k]
  BY DEF Form
<1> QED
  BY <1>1

LEMMA TableInit == ASSUME TableParameters, Table!Init PROVE TableInv
<1>0. \E k \in Key, u \in {None} \cup (IF kind = "x" THEN Key ELSE {}) :
         /\ u \in {None, k}
         /\ table = [i \in Id |-> IF i # (CHOOSE j \in Id : TRUE) THEN None
                     ELSE [key |-> k, name |-> Manual, uid |-> u, groups |-> 1, users |-> 1]]
  BY Zenon DEF Table!Init
<1>1. PICK k, u :
        /\ u \in {None, k}
        /\ table = [i \in Id |-> IF i # (CHOOSE j \in Id : TRUE) THEN None
                    ELSE [key |-> k, name |-> Manual, uid |-> u, groups |-> 1, users |-> 1]]
  BY Zenon, <1>0
<1>2. PICK w : w = [key |-> k, name |-> Manual, uid |-> u, groups |-> 1, users |-> 1]
  OBVIOUS
<1>3. Row(w) /\ Own(w)
  BY <1>1, <1>2 DEF Row, Own
<1>4. \A i \in Table!Rows : i = (CHOOSE j \in Id : TRUE) /\ table[i] = w
  BY <1>1, <1>2 DEF Table!Rows
<1>5. \A r \in AdminRequests : Asked(req[r])
  BY DEF Table!Init, Table!NoReq, Asked
<1>6. table = [i \in Id |-> table[i]] /\ req = [r \in AdminRequests |-> req[r]] /\ overtook \in BOOLEAN
  BY <1>1 DEF Table!Init
<1>7. \A k1 \in Key : lookups[k1] = 0
  BY DEF Table!Init
<1>8. \A i \in Table!Rows : Row(table[i]) /\ Own(table[i])
  BY <1>3, <1>4
<1>9. \A i, j \in Table!Rows : table[i].key = table[j].key => i = j
  BY <1>4
<1> QED
  BY <1>5, <1>6, <1>7, <1>8, <1>9 DEF TableInv

-----------------------------------------------------------------------------
\* A request changes, and no row.
LEMMA ReqStep ==
  ASSUME TableInv, NEW r \in AdminRequests, NEW q, req' = [req EXCEPT ![r] = q], Asked(q)',
         UNCHANGED <<kind, table, claimed, lookups, overtook>>
  PROVE  TableInv'
<1>1. req' = [s \in AdminRequests |-> req'[s]] /\ req'[r] = q /\ \A s \in AdminRequests \ {r} : req'[s] = req[s]
  BY DEF TableInv
<1>2. Table!Rows' = Table!Rows
  BY DEF Table!Rows
<1>3. ASSUME NEW s \in AdminRequests PROVE Asked(req[s])'
  <2>1. CASE s = r
    BY <1>1, <2>1 DEF Asked
  <2>2. CASE s # r
    BY <1>1, <1>2, <2>2 DEF TableInv, Asked
  <2> QED
    BY <2>1, <2>2
<1> QED
  BY <1>1, <1>2, <1>3 DEF TableInv, Own

\* A request ends.
LEMMA RefuseStep ==
  ASSUME TableInv, NEW r \in AdminRequests, Table!Refuse(r),
         UNCHANGED <<kind, table, claimed, lookups, overtook>>
  PROVE  TableInv'
<1>1. PICK q : q = Table!NoReq
  OBVIOUS
<1>2. req' = [req EXCEPT ![r] = q] /\ q.pc = "idle"
  BY <1>1 DEF Table!Refuse, Table!NoReq
<1>3. Asked(q)'
  BY <1>2 DEF Asked
<1> QED
  BY <1>2, <1>3, ReqStep

-----------------------------------------------------------------------------
\* A first transaction writes nothing.
LEMMA CreateStep ==
  ASSUME TableInv, NEW r \in AdminRequests, NEW k \in Key, NEW n, NEW g \in 0 .. 1,
         Table!Create(r, k, n, g, 0)
  PROVE  TableInv'
<1>1. CASE g + 0 = 0 \/ Table!Taken(k, None)
  <2>1. Table!Refuse(r) /\ UNCHANGED <<kind, table, claimed, lookups, overtook>>
    BY <1>1 DEF Table!Create
  <2> QED
    BY <2>1, RefuseStep
<1>2. CASE ~(g + 0 = 0 \/ Table!Taken(k, None))
  <2>1. PICK p : p = IF n = None \/ kind = "x" THEN "lookup" ELSE "write"
    OBVIOUS
  <2>2. PICK q : q = [pc |-> p, op |-> "create",
                  id |-> None, key |-> k, name |-> n, uid |-> None, named |-> FALSE,
                  groups |-> g, users |-> 0, renamed |-> FALSE, body |-> None]
    OBVIOUS
  <2>3. req' = [req EXCEPT ![r] = q] /\ UNCHANGED <<kind, table, claimed, lookups, overtook>>
    BY <1>2, <2>1, <2>2 DEF Table!Create, Table!Ask
  <2>4. Form(q)
    BY <2>2 DEF Form
  <2>5. Asked(q)'
    BY <1>2, <2>2, <2>4 DEF Asked
  <2> QED
    BY <2>3, <2>5, ReqStep
<1> QED
  BY <1>1, <1>2

LEMMA UpdateStep ==
  ASSUME TableInv, NEW r \in AdminRequests, NEW i \in Id, NEW b \in Bodies, Table!Update(r, i, b)
  PROVE  TableInv'
<1>1. PICK w : w = table[i]
  OBVIOUS
<1>2. PICK k : k = IF b.key = None THEN w.key ELSE b.key
  OBVIOUS
<1>3. PICK n : n = IF b.name = None THEN w.name ELSE IF b.name = "" THEN None ELSE b.name
  OBVIOUS
<1>4. CASE w = None \/ (k # w.key /\ Table!Taken(k, i))
  <2>1. Table!Refuse(r) /\ UNCHANGED <<kind, table, claimed, lookups, overtook>>
    BY <1>1, <1>2, <1>4 DEF Table!Update
  <2> QED
    BY <2>1, RefuseStep
<1>5. CASE ~(w = None \/ (k # w.key /\ Table!Taken(k, i)))
  <2>1. PICK p : p = IF Table!Asks(b, n, w) THEN "lookup" ELSE "write"
    OBVIOUS
  <2>2. PICK c : c = (k # w.key)
    OBVIOUS
  <2>3. PICK q : q = [pc |-> p, op |-> "update",
                  id |-> i, key |-> k, name |-> n, uid |-> None, named |-> FALSE,
                  groups |-> None, users |-> None, renamed |-> c, body |-> b]
    OBVIOUS
  <2>4. req' = [req EXCEPT ![r] = q] /\ UNCHANGED <<kind, table, claimed, lookups, overtook>>
    BY <1>1, <1>2, <1>3, <1>5, <2>1, <2>2, <2>3 DEF Table!Update, Table!Ask
  <2>5. Form(q)
    BY <2>3 DEF Form
  <2>6. q.id \in Table!Rows' /\ (~q.renamed => table'[q.id].key = q.key)
    BY <1>1, <1>5, <2>2, <2>3, <2>4 DEF Table!Rows
  <2>7. Asked(q)'
    BY <1>2, <2>3, <2>5, <2>6 DEF Asked
  <2> QED
    BY <2>4, <2>7, ReqStep
<1> QED
  BY <1>4, <1>5

LEMMA RefreshStep ==
  ASSUME TableInv, NEW r \in AdminRequests, NEW i \in Id, Table!Refresh(r, i)
  PROVE  TableInv'
<1>1. PICK k : k = table[i].key
  OBVIOUS
<1>2. CASE table[i] = None
  <2>1. Table!Refuse(r) /\ UNCHANGED <<kind, table, claimed, lookups, overtook>>
    BY <1>2 DEF Table!Refresh
  <2> QED
    BY <2>1, RefuseStep
<1>3. CASE table[i] # None
  <2>1. PICK q : q = [pc |-> "lookup", op |-> "refresh", id |-> i, key |-> k, name |-> None,
                  uid |-> None, named |-> FALSE, groups |-> None, users |-> None,
                  renamed |-> FALSE, body |-> None]
    OBVIOUS
  <2>2. req' = [req EXCEPT ![r] = q] /\ UNCHANGED <<kind, table, claimed, lookups, overtook>>
    BY <1>1, <1>3, <2>1 DEF Table!Refresh, Table!Ask
  <2>3. Form(q)
    BY <2>1 DEF Form
  <2>4. Asked(q)'
    BY <2>1, <2>3 DEF Asked
  <2> QED
    BY <2>2, <2>4, ReqStep
<1> QED
  BY <1>2, <1>3

\* A lookup answers with the account it asked for, or with nothing.
LEMMA LookedStep ==
  ASSUME TableInv, NEW r \in AdminRequests, NEW found \in BOOLEAN, Table!Looked(r, found)
  PROVE  TableInv'
<1>1. PICK q : q = req[r]
  OBVIOUS
<1>2. Asked(q) /\ q.pc = "lookup"
  BY <1>1 DEF TableInv, Table!Looked, Table!At
<1>3. Form(q)
  BY <1>2 DEF Asked
<1>4. CASE ~found /\ q.name = None
  <2>1. Table!Refuse(r) /\ UNCHANGED <<kind, table, claimed, lookups, overtook>>
    BY <1>1, <1>4 DEF Table!Looked
  <2> QED
    BY <2>1, RefuseStep
<1>5. CASE ~(~found /\ q.name = None)
  <2>1. PICK m : m = (found /\ q.name = None)
    OBVIOUS
  <2>2. PICK u : u = IF found /\ kind = "x" THEN q.key ELSE None
    OBVIOUS
  <2>3. PICK v : v = [q EXCEPT !.pc = "write", !.named = m, !.uid = u]
    OBVIOUS
  <2>4. req' = [req EXCEPT ![r] = v] /\ UNCHANGED <<kind, table, claimed, lookups, overtook>>
    BY <1>1, <1>5, <2>1, <2>2, <2>3 DEF Table!Looked, Table!Ask
  <2>5. /\ Form(v) /\ v.pc = "write" /\ v.uid = u
        /\ v.op = q.op /\ v.id = q.id /\ v.key = q.key /\ v.groups = q.groups /\ v.users = q.users
        /\ v.renamed = q.renamed /\ v.body = q.body
    <3>1. PICK a, b, c, d, e, f, g, h, i, j, k :
            q = [pc |-> a, op |-> b, id |-> c, key |-> d, name |-> e, uid |-> f,
                 named |-> g, groups |-> h, users |-> i, renamed |-> j, body |-> k]
      BY <1>3 DEF Form
    <3>2. v = [pc |-> "write", op |-> b, id |-> c, key |-> d, name |-> e, uid |-> u,
               named |-> m, groups |-> h, users |-> i, renamed |-> j, body |-> k]
      BY <2>3, <3>1
    <3> QED
      BY <3>1, <3>2 DEF Form
  <2>6. Table!Rows' = Table!Rows
    BY <2>4 DEF Table!Rows
  <2>7. v.uid \in {None, v.key}
    BY <2>2, <2>5
  <2>8. /\ kind' = kind /\ overtook' = overtook /\ table' = table
        /\ (v.op = "update" =>
             /\ v.body \in Bodies /\ v.body.key \in {None, v.key}
             /\ (kind = "x" /\ ~overtook /\ ~v.renamed =>
                   v.id \in Table!Rows /\ table[v.id].key = v.key))
        /\ (v.op = "create" => v.groups \in Nat /\ v.users \in Nat /\ v.groups + v.users > 0)
        /\ (v.op \in {"update", "refresh"} => v.id \in Id)
    <3>1. kind' = kind /\ overtook' = overtook /\ table' = table
      BY <2>4
    <3> QED
      BY <1>2, <2>5, <3>1 DEF Asked
  <2>9. Asked(v)'
    BY <2>5, <2>6, <2>7, <2>8 DEF Asked
  <2> QED
    BY <2>4, <2>9, ReqStep
<1> QED
  BY <1>4, <1>5

-----------------------------------------------------------------------------
\* Rows change.  Nobody is overtaken unless a key changed or a row went.
LEMMA RowsStep ==
  ASSUME TableInv, table' = [i \in Id |-> table'[i]], req' = [r \in AdminRequests |-> req'[r]],
         UNCHANGED <<kind, claimed, lookups>>, overtook' \in BOOLEAN, overtook => overtook',
         \A i \in Table!Rows' : Row(table[i])' /\ Own(table[i])',
         \A i, j \in Table!Rows' : table'[i].key = table'[j].key => i = j,
         \A r \in AdminRequests : req'[r] = req[r] \/ req'[r].pc \notin {"lookup", "write"},
         ~overtook' => \A r \in AdminRequests :
            req'[r].pc \in {"lookup", "write"} /\ req'[r].id \in Table!Rows =>
              req'[r].id \in Table!Rows' /\ table'[req'[r].id].key = table[req'[r].id].key
  PROVE  TableInv'
<1>1. ASSUME NEW r \in AdminRequests PROVE Asked(req[r])'
  <2>1. CASE req'[r].pc \notin {"lookup", "write"}
    BY <2>1 DEF Asked
  <2>2. CASE req'[r].pc \in {"lookup", "write"}
    <3>1. PICK q : q = req[r] /\ q = req'[r]
      BY <2>2
    <3>2. Asked(q)
      BY <3>1 DEF TableInv
    <3>3. q.pc \in {"lookup", "write"}
      BY <2>2, <3>1
    <3>4. ~overtook' /\ q.id \in Table!Rows =>
            q.id \in Table!Rows' /\ table'[q.id].key = table[q.id].key
      BY <3>1, <3>3
    <3>5. kind' = kind /\ (overtook => overtook') /\ overtook' \in BOOLEAN
      OBVIOUS
    <3>6. /\ Form(q) /\ q.uid \in {None, q.key}
          /\ (q.op = "create" => q.groups \in Nat /\ q.users \in Nat /\ q.groups + q.users > 0)
          /\ (q.op \in {"update", "refresh"} => q.id \in Id)
          /\ (q.op = "update" => q.body \in Bodies /\ q.body.key \in {None, q.key})
      BY <3>2, <3>3 DEF Asked
    <3>7. q.op = "update" /\ kind' = "x" /\ ~overtook' /\ ~q.renamed =>
            q.id \in Table!Rows' /\ table'[q.id].key = q.key
      BY <3>2, <3>3, <3>4, <3>5 DEF Asked
    <3>8. Asked(q)'
      BY <3>6, <3>7 DEF Asked
    <3> QED
      BY <3>1, <3>8
  <2> QED
    BY <2>1, <2>2
<1>2. \A r \in AdminRequests : Asked(req[r])'
  BY <1>1
<1>3. /\ \A i \in Table!Rows' : Row(table[i])' /\ Own(table[i])'
      /\ \A i, j \in Table!Rows' : table'[i].key = table'[j].key => i = j
      /\ table' = [i \in Id |-> table'[i]] /\ req' = [r \in AdminRequests |-> req'[r]]
      /\ overtook' \in BOOLEAN
  OBVIOUS
<1>4. kind' = "x" => \A k \in Key : lookups'[k] \in {0, 1} /\ (lookups'[k] = 1 => k \in claimed')
  BY DEF TableInv
<1> QED
  BY <1>2, <1>3, <1>4 DEF TableInv

\* One row is written.
LEMMA RowWritten ==
  ASSUME TableParameters, TableInv, NEW i \in Id, NEW w, Row(w), table' = [table EXCEPT ![i] = w],
         \A j \in Table!Rows \ {i} : table[j].key # w.key,
         kind' = kind, overtook => overtook', overtook' \in BOOLEAN, Own(w)'
  PROVE  /\ table' = [j \in Id |-> table'[j]] /\ Table!Rows' = Table!Rows \cup {i}
         /\ table'[i] = w /\ \A j \in Table!Rows \ {i} : table'[j] = table[j]
         /\ \A j \in Table!Rows' : Row(table[j])' /\ Own(table[j])'
         /\ \A j, k \in Table!Rows' : table'[j].key = table'[k].key => j = k
<1>1. table = [j \in Id |-> table[j]]
  BY DEF TableInv
<1>2. /\ table' = [j \in Id |-> table'[j]] /\ table'[i] = w
      /\ \A j \in Id \ {i} : table'[j] = table[j]
  BY <1>1
<1>3. w # None
  BY DEF TableParameters, Row
<1>4. Table!Rows' = Table!Rows \cup {i}
  BY <1>2, <1>3 DEF Table!Rows
<1>5. \A j \in Table!Rows : j \in Id
  BY DEF Table!Rows
<1>6. ASSUME NEW j \in Table!Rows' PROVE Row(table[j])' /\ Own(table[j])'
  <2>1. CASE j = i
    BY <1>2, <2>1 DEF Own, Row
  <2>2. CASE j # i
    <3>1. j \in Table!Rows /\ table'[j] = table[j]
      BY <1>2, <1>4, <1>5, <2>2
    <3>2. Row(table[j]) /\ Own(table[j])
      BY <3>1 DEF TableInv
    <3>3. Row(table'[j])
      BY <3>1, <3>2
    <3> QED
      BY <3>1, <3>2, <3>3 DEF Own, Row
  <2> QED
    BY <2>1, <2>2
<1>7. \A j, k \in Table!Rows' : table'[j].key = table'[k].key => j = k
  BY <1>2, <1>4, <1>5 DEF TableInv
<1> QED
  BY <1>2, <1>4, <1>5, <1>6, <1>7

\* The request that wrote is to be answered.
LEMMA Answers ==
  ASSUME TableInv, NEW r \in AdminRequests, Form(req[r]), req' = [req EXCEPT ![r] = [req[r] EXCEPT !.pc = "reload"]]
  PROVE  /\ req' = [s \in AdminRequests |-> req'[s]] /\ req'[r].pc = "reload"
         /\ \A s \in AdminRequests \ {r} : req'[s] = req[s]
<1>1. PICK q : q = [req[r] EXCEPT !.pc = "reload"]
  OBVIOUS
<1>2. PICK a, b, c, d, e, f, g, h, i, j, k :
        req[r] = [pc |-> a, op |-> b, id |-> c, key |-> d, name |-> e, uid |-> f,
                  named |-> g, groups |-> h, users |-> i, renamed |-> j, body |-> k]
  BY DEF Form
<1>3. q.pc = "reload"
  BY <1>1, <1>2
<1>4. req' = [req EXCEPT ![r] = q] /\ req = [s \in AdminRequests |-> req[s]]
  BY <1>1 DEF TableInv
<1> QED
  BY <1>3, <1>4

LEMMA CreatedStep ==
  ASSUME TableParameters, TableInv, NEW r \in AdminRequests, Table!Created(r)
  PROVE  TableInv'
<1>1. PICK q : q = req[r]
  OBVIOUS
<1>2. Asked(q) /\ q.pc = "write" /\ q.op = "create"
  BY <1>1 DEF TableInv, Table!Created, Table!At
<1>3. Form(q) /\ q.uid \in {None, q.key} /\ q.groups \in Nat /\ q.users \in Nat /\ q.groups + q.users > 0
  BY <1>2 DEF Asked
<1>4. UNCHANGED <<kind, claimed, lookups, overtook>> /\ overtook \in BOOLEAN
  BY DEF Table!Created, TableInv
<1>5. CASE Table!Taken(q.key, None)
  <2>1. Table!Refuse(r) /\ UNCHANGED <<kind, table, claimed, lookups, overtook>>
    BY <1>1, <1>4, <1>5 DEF Table!Created
  <2> QED
    BY <2>1, RefuseStep
<1>6. CASE ~Table!Taken(q.key, None)
  <2>1. PICK n : n = IF q.named THEN q.key ELSE q.name
    OBVIOUS
  <2>2. PICK w : w = [key |-> q.key, name |-> n, uid |-> q.uid, groups |-> q.groups, users |-> q.users]
    OBVIOUS
  <2>3. PICK i \in Id \ Table!Rows : table' = [table EXCEPT ![i] = w]
    BY <1>1, <1>6, <2>1, <2>2 DEF Table!Created
  <2>4. req' = [req EXCEPT ![r] = [req[r] EXCEPT !.pc = "reload"]]
    BY <1>1, <1>6 DEF Table!Created, Table!Ask
  <2>5. Row(w) /\ w.key = q.key /\ w.uid = q.uid
    BY <1>3, <2>2 DEF Row
  <2>6. Own(w)'
    BY <1>3, <2>5 DEF Own
  <2>7. \A j \in Table!Rows \ {i} : table[j].key # w.key
    BY <1>6, <2>5 DEF Table!Taken, TableParameters, Table!Rows
  <2>8. /\ table' = [j \in Id |-> table'[j]] /\ Table!Rows' = Table!Rows \cup {i}
        /\ \A j \in Table!Rows \ {i} : table'[j] = table[j]
        /\ \A j \in Table!Rows' : Row(table[j])' /\ Own(table[j])'
        /\ \A j, k \in Table!Rows' : table'[j].key = table'[k].key => j = k
    BY <1>4, <2>3, <2>5, <2>6, <2>7, RowWritten
  <2>9. /\ req' = [s \in AdminRequests |-> req'[s]] /\ req'[r].pc = "reload"
        /\ \A s \in AdminRequests \ {r} : req'[s] = req[s]
    BY <1>1, <1>3, <2>4, Answers
  <2> QED
    BY <1>4, <2>3, <2>8, <2>9, RowsStep
<1> QED
  BY <1>5, <1>6

LEMMA UpdatedStep ==
  ASSUME TableParameters, TableInv, NEW r \in AdminRequests, Table!Updated(r)
  PROVE  TableInv'
<1>1. PICK q : q = req[r]
  OBVIOUS
<1>2. Asked(q) /\ q.pc = "write" /\ q.op = "update"
  BY <1>1 DEF TableInv, Table!Updated, Table!At
<1>3. /\ Form(q) /\ q.uid \in {None, q.key} /\ q.id \in Id /\ q.body \in Bodies
      /\ q.body.key \in {None, q.key}
      /\ (kind = "x" /\ ~overtook /\ ~q.renamed => q.id \in Table!Rows /\ table[q.id].key = q.key)
  BY <1>2 DEF Asked
<1>4. UNCHANGED <<kind, claimed, lookups>> /\ overtook \in BOOLEAN
  BY DEF Table!Updated, TableInv
<1>5. PICK i : i = q.id /\ i \in Id
  BY <1>3
<1>6. PICK row : row = table[i]
  OBVIOUS
<1>7. PICK k : k = IF q.body.key = None THEN row.key ELSE q.body.key
  OBVIOUS
<1>8. PICK n : n = IF q.named THEN q.key
              ELSE IF q.body.name = None THEN row.name
              ELSE IF q.body.name = "" THEN None ELSE q.body.name
  OBVIOUS
<1>9. PICK u : u = Table!UserId(q, row)
  OBVIOUS
<1>10. PICK g : g = IF q.body.groups = None THEN row.groups ELSE q.body.groups
  OBVIOUS
<1>11. PICK p : p = IF q.body.users = None THEN row.users ELSE q.body.users
  OBVIOUS
<1>12. PICK w : w = [key |-> k, name |-> n, uid |-> u, groups |-> g, users |-> p]
  OBVIOUS
<1>13. w = Table!Patched(q, row)
  BY <1>7, <1>8, <1>9, <1>10, <1>11, <1>12 DEF Table!Patched
<1>15. CASE \/ row = None
            \/ w.key # row.key /\ Table!Taken(w.key, i)
            \/ kind = "x" /\ (q.named \/ q.uid # None) /\ w.key # q.key
            \/ ~Table!Reachable(q, w)
  <2>1. Table!Refuse(r) /\ UNCHANGED <<kind, table, claimed, lookups, overtook>>
    BY <1>1, <1>4, <1>5, <1>6, <1>13, <1>15 DEF Table!Updated
  <2> QED
    BY <2>1, RefuseStep
<1>16. CASE ~(\/ row = None
              \/ w.key # row.key /\ Table!Taken(w.key, i)
              \/ kind = "x" /\ (q.named \/ q.uid # None) /\ w.key # q.key
              \/ ~Table!Reachable(q, w))
  <2>1. /\ table' = [table EXCEPT ![i] = w]
        /\ req' = [req EXCEPT ![r] = [req[r] EXCEPT !.pc = "reload"]]
        /\ overtook' = (overtook \/ \E s \in AdminRequests \ {r} :
              req[s].pc \in {"lookup", "write"} /\ req[s].id = i /\ w.key # row.key)
    BY <1>1, <1>5, <1>6, <1>13, <1>16 DEF Table!Updated, Table!Ask
  <2>2. i \in Table!Rows /\ row = table[i]
    BY <1>5, <1>6, <1>16 DEF Table!Rows
  <2>3. Row(row) /\ Own(row)
    BY <2>2 DEF TableInv
  <2>4. w.key = k /\ w.uid = u /\ w.groups = g /\ w.users = p
    BY <1>12
  <2>5. g \in Nat /\ p \in Nat
    BY <1>3, <1>10, <1>11, <2>3 DEF Row, TableParameters
  <2>6. g + p > 0
    BY <1>10, <1>11, <1>16, <2>3, <2>4 DEF Row, Table!Reachable
  <2>7. Row(w)
    BY <1>12, <2>4, <2>5, <2>6 DEF Row
  <2>8. overtook' \in BOOLEAN /\ (overtook => overtook')
    BY <1>4, <2>1
  <2>9. Own(w)'
    <3> SUFFICES ASSUME kind = "x", ~overtook PROVE u \in {None, k}
      BY <1>4, <2>4, <2>8 DEF Own
    <3>1. CASE q.uid # None
      BY <1>3, <1>9, <1>16, <2>4, <3>1 DEF Table!UserId
    <3>2. CASE q.uid = None /\ q.renamed
      BY <1>9, <3>2 DEF Table!UserId
    <3>3. CASE q.uid = None /\ ~q.renamed
      <4>1. row.key = q.key /\ u = row.uid
        BY <1>3, <1>5, <1>6, <1>9, <3>3 DEF Table!UserId
      <4> QED
        BY <1>3, <1>7, <2>3, <4>1 DEF Own
    <3> QED
      BY <3>1, <3>2, <3>3
  <2>10. \A j \in Table!Rows \ {i} : table[j].key # w.key
    <3>1. CASE w.key = row.key
      BY <2>2, <3>1 DEF TableInv
    <3>2. CASE w.key # row.key
      BY <1>16, <3>2 DEF Table!Taken
    <3> QED
      BY <3>1, <3>2
  <2>11. /\ table' = [j \in Id |-> table'[j]] /\ Table!Rows' = Table!Rows \cup {i} /\ table'[i] = w
         /\ \A j \in Table!Rows \ {i} : table'[j] = table[j]
         /\ \A j \in Table!Rows' : Row(table[j])' /\ Own(table[j])'
         /\ \A j, l \in Table!Rows' : table'[j].key = table'[l].key => j = l
    BY <1>4, <1>5, <2>1, <2>7, <2>8, <2>9, <2>10, RowWritten
  <2>12. /\ req' = [s \in AdminRequests |-> req'[s]] /\ req'[r].pc = "reload"
         /\ \A s \in AdminRequests \ {r} : req'[s] = req[s]
    BY <1>1, <1>3, <2>1, Answers
  <2>13. ~overtook' => \A s \in AdminRequests :
            req'[s].pc \in {"lookup", "write"} /\ req'[s].id \in Table!Rows =>
              req'[s].id \in Table!Rows' /\ table'[req'[s].id].key = table[req'[s].id].key
    <3> SUFFICES ASSUME ~overtook', NEW s \in AdminRequests, req'[s].pc \in {"lookup", "write"},
                        req'[s].id \in Table!Rows
                 PROVE  table'[req'[s].id].key = table[req'[s].id].key
      BY <2>11
    <3>1. s # r /\ req'[s] = req[s]
      BY <2>12
    <3>2. CASE req[s].id = i
      <4>1. w.key = row.key
        BY <2>1, <3>1, <3>2
      <4> QED
        BY <2>2, <2>11, <3>1, <3>2, <4>1
    <3>3. CASE req[s].id # i
      BY <2>11, <3>1, <3>3
    <3> QED
      BY <3>2, <3>3
  <2> QED
    BY <1>4, <2>8, <2>11, <2>12, <2>13, RowsStep
<1> QED
  BY <1>15, <1>16

LEMMA RefreshedStep ==
  ASSUME TableParameters, TableInv, NEW r \in AdminRequests, Table!Refreshed(r)
  PROVE  TableInv'
<1>1. PICK q : q = req[r]
  OBVIOUS
<1>2. Asked(q) /\ q.pc = "write" /\ q.op = "refresh"
  BY <1>1 DEF TableInv, Table!Refreshed, Table!At
<1>3. Form(q) /\ q.uid \in {None, q.key} /\ q.id \in Id
  BY <1>2 DEF Asked
<1>4. UNCHANGED <<kind, claimed, lookups, overtook>> /\ overtook \in BOOLEAN
  BY DEF Table!Refreshed, TableInv
<1>5. PICK i : i = q.id /\ i \in Id
  BY <1>3
<1>6. PICK row : row = table[i]
  OBVIOUS
<1>7. CASE row = None \/ row.key # q.key
  <2>1. Table!Refuse(r) /\ UNCHANGED <<kind, table, claimed, lookups, overtook>>
    BY <1>1, <1>4, <1>5, <1>6, <1>7 DEF Table!Refreshed
  <2> QED
    BY <2>1, RefuseStep
<1>8. CASE ~(row = None \/ row.key # q.key)
  <2>1. PICK n, u : n = q.key /\ u = q.uid
    OBVIOUS
  <2>2. PICK w : w = [row EXCEPT !.name = n, !.uid = u]
    OBVIOUS
  <2>3. /\ table' = [table EXCEPT ![i].name = n, ![i].uid = u]
        /\ req' = [req EXCEPT ![r] = [req[r] EXCEPT !.pc = "reload"]]
    BY <1>1, <1>5, <1>6, <1>8, <2>1 DEF Table!Refreshed, Table!Ask
  <2>4. i \in Table!Rows /\ row = table[i]
    BY <1>5, <1>6, <1>8 DEF Table!Rows
  <2>5. Row(row) /\ table = [j \in Id |-> table[j]]
    BY <2>4 DEF TableInv
  <2>6. table' = [table EXCEPT ![i] = w]
    BY <1>5, <1>6, <2>2, <2>3, <2>5
  <2>7. /\ w = [key |-> row.key, name |-> n, uid |-> u, groups |-> row.groups, users |-> row.users]
        /\ Row(w) /\ w.key = row.key /\ w.uid = u
    <3>1. PICK a, b, c, d, e : row = [key |-> a, name |-> b, uid |-> c, groups |-> d, users |-> e]
      BY <2>5 DEF Row
    <3>2. w = [key |-> a, name |-> n, uid |-> u, groups |-> d, users |-> e]
      BY <2>2, <3>1
    <3> QED
      BY <2>5, <3>1, <3>2 DEF Row
  <2>8. Own(w)'
    BY <1>3, <1>8, <2>1, <2>7 DEF Own
  <2>9. \A j \in Table!Rows \ {i} : table[j].key # w.key
    BY <2>4, <2>7 DEF TableInv
  <2>10. /\ table' = [j \in Id |-> table'[j]] /\ Table!Rows' = Table!Rows \cup {i} /\ table'[i] = w
         /\ \A j \in Table!Rows \ {i} : table'[j] = table[j]
         /\ \A j \in Table!Rows' : Row(table[j])' /\ Own(table[j])'
         /\ \A j, l \in Table!Rows' : table'[j].key = table'[l].key => j = l
    BY <1>4, <1>5, <2>6, <2>7, <2>8, <2>9, RowWritten
  <2>11. /\ req' = [s \in AdminRequests |-> req'[s]] /\ req'[r].pc = "reload"
         /\ \A s \in AdminRequests \ {r} : req'[s] = req[s]
    BY <1>1, <1>3, <2>3, Answers
  <2>12. \A j \in Table!Rows : j \in Table!Rows' /\ table'[j].key = table[j].key
    BY <2>4, <2>7, <2>10
  <2> QED
    BY <1>4, <2>10, <2>11, <2>12, RowsStep
<1> QED
  BY <1>7, <1>8

LEMMA DeleteStep ==
  ASSUME TableInv, NEW r \in AdminRequests, NEW i \in Id, Table!Delete(r, i)
  PROVE  TableInv'
<1>1. UNCHANGED <<kind, claimed, lookups>> /\ overtook \in BOOLEAN
  BY DEF Table!Delete, TableInv
<1>2. CASE table[i] = None
  <2>1. Table!Refuse(r) /\ UNCHANGED <<kind, table, claimed, lookups, overtook>>
    BY <1>1, <1>2 DEF Table!Delete
  <2> QED
    BY <2>1, RefuseStep
<1>3. CASE table[i] # None
  <2>1. PICK q : q = [pc |-> "reload", id |-> i]
    OBVIOUS
  <2>2. /\ table' = [table EXCEPT ![i] = None] /\ req' = [req EXCEPT ![r] = q]
        /\ overtook' = (overtook \/ \E s \in AdminRequests : req[s].pc \in {"lookup", "write"} /\ req[s].id = i)
    BY <1>3, <2>1 DEF Table!Delete, Table!Overtakes, Table!Ask
  <2>3. /\ table' = [j \in Id |-> table'[j]] /\ table'[i] = None
        /\ \A j \in Id \ {i} : table'[j] = table[j]
    BY <2>2 DEF TableInv
  <2>4. /\ req' = [s \in AdminRequests |-> req'[s]] /\ req'[r].pc = "reload"
        /\ \A s \in AdminRequests \ {r} : req'[s] = req[s]
    BY <2>1, <2>2 DEF TableInv
  <2>5. Table!Rows' = Table!Rows \ {i} /\ \A j \in Table!Rows' : j \in Id \ {i}
    BY <2>3 DEF Table!Rows
  <2>6. overtook' \in BOOLEAN /\ (overtook => overtook')
    BY <1>1, <2>2
  <2>7. ASSUME NEW j \in Table!Rows' PROVE Row(table[j])' /\ Own(table[j])'
    <3>1. table'[j] = table[j] /\ j \in Table!Rows
      BY <2>3, <2>5
    <3>2. Row(table[j]) /\ Own(table[j])
      BY <3>1 DEF TableInv
    <3> QED
      BY <1>1, <2>6, <3>1, <3>2 DEF Row, Own
  <2>8. \A j, k \in Table!Rows' : table'[j].key = table'[k].key => j = k
    BY <2>3, <2>5 DEF TableInv
  <2>9. ~overtook' => \A s \in AdminRequests :
            req'[s].pc \in {"lookup", "write"} /\ req'[s].id \in Table!Rows =>
              req'[s].id \in Table!Rows' /\ table'[req'[s].id].key = table[req'[s].id].key
    <3> SUFFICES ASSUME ~overtook', NEW s \in AdminRequests, req'[s].pc \in {"lookup", "write"},
                        req'[s].id \in Table!Rows
                 PROVE  req'[s].id \in Table!Rows' /\ table'[req'[s].id].key = table[req'[s].id].key
      OBVIOUS
    <3>1. req'[s] = req[s]
      BY <2>4
    <3>2. req[s].id # i
      BY <2>2, <3>1
    <3> QED
      BY <2>3, <2>5, <3>1, <3>2
  <2> QED
    BY <1>1, <2>3, <2>4, <2>6, <2>7, <2>8, <2>9, RowsStep
<1> QED
  BY <1>2, <1>3

LEMMA TableReloadStep ==
  ASSUME TableInv, NEW r \in AdminRequests, Table!Reload(r)
  PROVE  TableInv'
BY RefuseStep DEF Table!Reload

-----------------------------------------------------------------------------
\* A row is completed, and no request is touched.
LEMMA CompletedStep ==
  ASSUME TableInv, table' = [i \in Id |-> table'[i]], UNCHANGED <<kind, req, claimed, lookups, overtook>>,
         Table!Rows' = Table!Rows,
         \A i \in Table!Rows : Row(table[i])' /\ Own(table[i])' /\ table'[i].key = table[i].key
  PROVE  TableInv'
<1>1. /\ req' = req /\ req = [r \in AdminRequests |-> req[r]] /\ overtook' = overtook /\ overtook \in BOOLEAN
      /\ UNCHANGED <<kind, claimed, lookups>>
  BY DEF TableInv
<1>2. req' = [r \in AdminRequests |-> req'[r]]
  BY <1>1
<1>3. \A i, j \in Table!Rows' : table'[i].key = table'[j].key => i = j
  BY DEF TableInv
<1> QED
  BY <1>1, <1>2, <1>3, RowsStep

LEMMA FilledStep ==
  ASSUME TableParameters, TableInv, NEW f, NEW found \in BOOLEAN, Table!Filled(f, found)
  PROVE  TableInv'
<1>1. UNCHANGED <<kind, req, claimed, lookups, overtook>> /\ table = [j \in Id |-> table[j]]
  BY DEF Table!Filled, TableInv
<1>2. PICK i, k : i = f.id /\ k = f.key
  OBVIOUS
<1>3. CASE ~(found /\ i \in Table!Rows /\ table[i].key = k)
  <2>1. table' = table
    BY <1>2, <1>3 DEF Table!Filled
  <2>2. Table!Rows' = Table!Rows
    BY <2>1 DEF Table!Rows
  <2>3. \A j \in Table!Rows : Row(table[j])' /\ Own(table[j])' /\ table'[j].key = table[j].key
    BY <1>1, <2>1 DEF TableInv, Row, Own
  <2> QED
    BY <1>1, <2>1, <2>2, <2>3, CompletedStep
<1>4. CASE found /\ i \in Table!Rows /\ table[i].key = k
  <2>1. PICK row : row = table[i]
    OBVIOUS
  <2>2. PICK n : n = IF row.name = None THEN k ELSE row.name
    OBVIOUS
  <2>3. PICK u : u = IF kind = "x" /\ row.uid = None THEN k ELSE row.uid
    OBVIOUS
  <2>4. PICK w : w = [row EXCEPT !.name = n, !.uid = u]
    OBVIOUS
  <2>5. Row(row) /\ Own(row) /\ i \in Id
    BY <1>4, <2>1 DEF TableInv, Table!Rows
  <2>6. table' = [table EXCEPT ![i] = w]
    <3>1. table' = [table EXCEPT ![i].name = IF @ = None THEN k ELSE @,
                                 ![i].uid = IF kind = "x" /\ @ = None THEN k ELSE @]
      BY <1>2, <1>4 DEF Table!Filled
    <3>2. PICK a, b, c, d, e : row = [key |-> a, name |-> b, uid |-> c, groups |-> d, users |-> e]
      BY <2>5 DEF Row
    <3>3. [table[i] EXCEPT !.name = IF @ = None THEN k ELSE @].uid = row.uid
      BY <2>1, <3>2
    <3> QED
      BY <1>1, <2>1, <2>2, <2>3, <2>4, <2>5, <3>1, <3>2, <3>3
  <2>7. /\ w = [key |-> row.key, name |-> n, uid |-> u, groups |-> row.groups, users |-> row.users]
        /\ Row(w) /\ w.key = row.key /\ w.uid = u
    <3>1. PICK a, b, c, d, e : row = [key |-> a, name |-> b, uid |-> c, groups |-> d, users |-> e]
      BY <2>5 DEF Row
    <3>2. w = [key |-> a, name |-> n, uid |-> u, groups |-> d, users |-> e]
      BY <2>4, <3>1
    <3> QED
      BY <2>5, <3>1, <3>2 DEF Row
  <2>8. Own(w)'
    BY <1>1, <1>4, <2>1, <2>3, <2>5, <2>7 DEF Own
  <2>9. \A j \in Table!Rows \ {i} : table[j].key # w.key
    BY <1>4, <2>1, <2>7 DEF TableInv
  <2>10. overtook' = overtook /\ overtook \in BOOLEAN /\ kind' = kind
    BY <1>1 DEF TableInv
  <2>11. /\ table' = [j \in Id |-> table'[j]] /\ Table!Rows' = Table!Rows \cup {i} /\ table'[i] = w
         /\ \A j \in Table!Rows \ {i} : table'[j] = table[j]
         /\ \A j \in Table!Rows' : Row(table[j])' /\ Own(table[j])'
    BY <2>5, <2>6, <2>7, <2>8, <2>9, <2>10, RowWritten
  <2>12. Table!Rows' = Table!Rows
    BY <1>4, <2>11
  <2>13. \A j \in Table!Rows : Row(table[j])' /\ Own(table[j])' /\ table'[j].key = table[j].key
    BY <2>1, <2>7, <2>11, <2>12
  <2> QED
    BY <1>1, <2>11, <2>12, <2>13, CompletedStep
<1> QED
  BY <1>3, <1>4

LEMMA FoundStep ==
  ASSUME TableParameters, TableInv, NEW k \in Key, Table!Found(k)
  PROVE  TableInv'
<1>1. /\ UNCHANGED <<kind, req, claimed, lookups, overtook>>
      /\ table' = [i \in Id |-> IF i \in Table!Rows /\ table[i].key = k
                            THEN [table[i] EXCEPT !.uid = k, !.name = IF @ = None THEN k ELSE @]
                            ELSE table[i]]
  BY DEF Table!Found
<1>2. table' = [i \in Id |-> table'[i]]
  BY <1>1
<1>3. ASSUME NEW i \in Table!Rows
      PROVE  Row(table[i])' /\ Own(table[i])' /\ table'[i].key = table[i].key /\ table'[i] # None
  <2>1. i \in Id /\ Row(table[i]) /\ Own(table[i]) /\ table[i] # None
    BY DEF TableInv, Table!Rows
  <2>2. PICK a, b, c, d, e : table[i] = [key |-> a, name |-> b, uid |-> c, groups |-> d, users |-> e]
    BY <2>1 DEF Row
  <2>3. CASE a # k
    <3>1. table'[i] = table[i]
      <4>1. table[i].key = a
        BY <2>2
      <4>2. table'[i] = IF i \in Table!Rows /\ table[i].key = k
                        THEN [table[i] EXCEPT !.uid = k, !.name = IF @ = None THEN k ELSE @]
                        ELSE table[i]
        BY Zenon, <1>1, <2>1
      <4> QED
        BY <2>3, <4>1, <4>2
    <3> QED
      BY <1>1, <2>1, <3>1 DEF Row, Own
  <2>4. CASE a = k
    <3>1. PICK n : n = IF b = None THEN k ELSE b
      OBVIOUS
    <3>2. PICK v : v = [key |-> a, name |-> n, uid |-> k, groups |-> d, users |-> e]
      OBVIOUS
    <3>3. PICK row : row = table[i]
      OBVIOUS
    <3>4. table'[i] = v
      <4>1. PICK mid : mid = [row EXCEPT !.uid = k]
        OBVIOUS
      <4>2. mid = [key |-> a, name |-> b, uid |-> k, groups |-> d, users |-> e]
        BY <2>2, <3>3, <4>1
      <4>3. [mid EXCEPT !.name = IF @ = None THEN k ELSE @] = v
        BY <3>1, <3>2, <4>2
      <4>4. row.key = k
        BY <2>2, <2>4, <3>3
      <4>5. table'[i] = [row EXCEPT !.uid = k, !.name = IF @ = None THEN k ELSE @]
        BY <1>1, <2>1, <3>3, <4>4
      <4>6. [row EXCEPT !.uid = k, !.name = IF @ = None THEN k ELSE @] = [mid EXCEPT !.name = IF @ = None THEN k ELSE @]
        BY <4>1
      <4> QED
        BY <4>3, <4>5, <4>6
    <3>5. Row(v) /\ v.uid = v.key /\ v.key = table[i].key
      BY <2>1, <2>2, <2>4, <3>2 DEF Row
    <3>6. v # None
      BY <3>2 DEF TableParameters
    <3> QED
      BY <3>4, <3>5, <3>6 DEF Row, Own
  <2> QED
    BY <2>3, <2>4
<1>4. Table!Rows' = Table!Rows
  BY <1>1, <1>3 DEF Table!Rows
<1> QED
  BY <1>1, <1>2, <1>3, <1>4, CompletedStep

-----------------------------------------------------------------------------
\* Requests and rows stay.
LEMMA ListsStep ==
  ASSUME TableInv, UNCHANGED <<kind, table, req, overtook>>,
         kind = "x" => \A k \in Key : lookups'[k] \in {0, 1} /\ (lookups'[k] = 1 => k \in claimed')
  PROVE  TableInv'
<1>1. Table!Rows' = Table!Rows
  BY DEF Table!Rows
<1>2. ASSUME NEW r \in AdminRequests PROVE Asked(req[r])'
  BY <1>1 DEF TableInv, Asked
<1>3. \A i \in Table!Rows : Row(table[i])' /\ Own(table[i])'
  BY DEF TableInv, Row, Own
<1> QED
  BY <1>1, <1>2, <1>3 DEF TableInv

LEMMA RowCountIs == \A S : Table!Cardinality(S) = Cardinality(S)
BY DEF Table!Cardinality, Cardinality

\* The list looks up a username that nobody looked up in the last ten minutes.
LEMMA ListStep ==
  ASSUME TableInv, Table!List
  PROVE  TableInv'
<1>1. UNCHANGED <<kind, table, req, overtook>>
  BY DEF Table!List
<1>2. PICK new : new = {i \in Id : Table!Missing(i) /\ table[i].key \notin claimed}
  OBVIOUS
<1>3. PICK keys : keys = {table[i].key : i \in new}
  OBVIOUS
<1>4. ASSUME kind = "x", NEW k \in Key
      PROVE  lookups'[k] \in {0, 1} /\ (lookups'[k] = 1 => k \in claimed')
  <2>1. claimed' = claimed \cup keys
    BY <1>2, <1>3, <1>4 DEF Table!List, Table!Claim
  <2>2. PICK those : those = {i \in new : table[i].key = k}
    OBVIOUS
  <2>3. lookups'[k] = lookups[k] + Table!Cardinality(those)
    BY <1>2, <1>4, <2>2 DEF Table!List
  <2>4. lookups'[k] = lookups[k] + Cardinality(those)
    BY <2>3, RowCountIs
  <2>5. lookups[k] \in {0, 1} /\ (lookups[k] = 1 => k \in claimed)
    BY <1>4 DEF TableInv
  <2>6. CASE those = {}
    BY <2>1, <2>4, <2>5, <2>6, FS_EmptySet
  <2>7. CASE those # {}
    <3>1. PICK i : i \in those
      BY <2>7
    <3>2. \A j \in those : j = i
      BY <1>2, <2>2, <3>1 DEF TableInv, Table!Missing
    <3>3. those = {i}
      BY <3>1, <3>2
    <3>4. Cardinality(those) = 1
      BY <3>3, FS_Singleton
    <3>5. k \notin claimed /\ k \in keys
      BY <1>2, <1>3, <2>2, <3>1
    <3> QED
      BY <2>1, <2>4, <2>5, <3>4, <3>5
  <2> QED
    BY <2>6, <2>7
<1> QED
  BY <1>1, <1>4, ListsStep

LEMMA CooldownStep == ASSUME TableInv, Table!Cooldown PROVE TableInv'
<1>1. UNCHANGED <<kind, table, req, overtook>> /\ \A k \in Key : lookups'[k] = 0
  BY DEF Table!Cooldown
<1> QED
  BY <1>1, ListsStep

LEMMA TableNext ==
  ASSUME TableParameters, TableInv, [Table!Next]_Table!vars
  PROVE  TableInv'
<1>1. CASE UNCHANGED Table!vars
  <2>1. UNCHANGED <<kind, table, req, overtook, lookups, claimed>>
    BY <1>1 DEF Table!vars
  <2> QED
    BY <2>1, ListsStep DEF TableInv
<1>2. ASSUME NEW r \in AdminRequests, NEW k \in Key, NEW n \in {None, Manual}, NEW g \in 0 .. 1,
             Table!Create(r, k, n, g, 0)
      PROVE  TableInv'
  BY <1>2, CreateStep
<1>3. ASSUME NEW r \in AdminRequests, NEW i \in Id, NEW b \in Bodies, Table!Update(r, i, b) PROVE TableInv'
  BY <1>3, UpdateStep
<1>4. ASSUME NEW r \in AdminRequests, NEW i \in Id, Table!Refresh(r, i) \/ Table!Delete(r, i) PROVE TableInv'
  BY <1>4, RefreshStep, DeleteStep
<1>5. ASSUME NEW r \in AdminRequests, NEW found \in BOOLEAN, Table!Looked(r, found) PROVE TableInv'
  BY <1>5, LookedStep
<1>6. ASSUME NEW r \in AdminRequests, Table!Created(r) \/ Table!Updated(r) \/ Table!Refreshed(r) \/ Table!Reload(r)
      PROVE  TableInv'
  BY <1>6, CreatedStep, UpdatedStep, RefreshedStep, TableReloadStep
<1>7. ASSUME NEW f, NEW found \in BOOLEAN, Table!Filled(f, found) PROVE TableInv'
  BY <1>7, FilledStep
<1>8. ASSUME NEW k \in Key, Table!Found(k) PROVE TableInv'
  BY <1>8, FoundStep
<1> QED
  BY <1>1, <1>2, <1>3, <1>4, <1>5, <1>6, <1>7, <1>8, ListStep, CooldownStep DEF Table!Next

LEMMA TableSafe == ASSUME TableInv PROVE Table!Kept /\ Table!OwnProfile
<1>1. \A i \in Table!Rows : Row(table[i]) /\ Own(table[i])
  BY DEF TableInv
<1>2. \A i \in Table!Rows : ~Table!Taken(table[i].key, i)
  BY DEF TableInv, Table!Taken
<1>3. kind = "x" => \A k \in Key : lookups[k] <= 1
  BY DEF TableInv
<1>4. Table!Kept
  BY <1>1, <1>2, <1>3 DEF Table!Kept, Row
<1>5. Table!OwnProfile
  BY <1>1 DEF Table!OwnProfile, Own
<1> QED
  BY <1>4, <1>5

\* However requests, the completion of names and the X monitor interleave: keys stay unique,
\* every target has somebody to notify, an X username is looked up once between cooldowns
\* for the list, and an X target has the id of its own account.
THEOREM TargetsKept ==
  ASSUME TableParameters
  PROVE  Table!Spec => []Kept
<1>1. Table!Init => TableInv
  BY TableInit
<1>2. TableInv /\ [Table!Next]_Table!vars => TableInv'
  BY TableNext
<1>3. TableInv => Table!Kept /\ Table!OwnProfile
  BY TableSafe
<1> QED
  BY <1>1, <1>2, <1>3, PTL DEF Table!Spec, Kept

-----------------------------------------------------------------------------
(* The account of the admin page *)

\* A transaction is of a request, and neither none nor committed.
AuthParameters == None \notin AdminRequests /\ "committed" \notin AdminRequests /\ None # "committed"

\* The hashes are numbered.
Hashes == 1 .. Len(hashes)

\* The fields of a request, whatever they hold.
Fields(q) ==
  q = [pc |-> q.pc, kind |-> q.kind, addr |-> q.addr, pw |-> q.pw, new |-> q.new,
       hash |-> q.hash, stamp |-> q.stamp, at |-> q.at]

\* What a request has read, and proved.
Proved(r, q) ==
  /\ Fields(q)
  /\ q.pc = "insert" => claim = r
  /\ q.pc = "read" => accounts # <<>>
  /\ q.pc \in {"verify", "compare", "update"} => q.hash \in Hashes /\ accounts # <<>>
  /\ q.pc = "update" => hashes[q.hash] = q.pw
  /\ q.pc \in {"claim", "insert"} => q.pw \in Password
  /\ q.pc \in {"compare", "update"} => q.new \in Password

AuthInv ==
  /\ hashes \in Seq(Password) /\ accounts \in Seq(Hashes) /\ Len(accounts) <= 1
  /\ accounts # <<>> <=> claim = "committed"
  /\ \A t \in tokens : t.hash \in Hashes /\ t.pw = hashes[t.hash]
  /\ ~lost
  /\ auth = [r \in AdminRequests |-> auth[r]] /\ \A r \in AdminRequests : Proved(r, auth[r])

LEMMA AuthInit == ASSUME AuthParameters, Auth!Init PROVE AuthInv
BY DEF AuthParameters, Auth!Init, Auth!Idle, AuthInv, Proved, Fields, Hashes

-----------------------------------------------------------------------------
\* A request changes.
LEMMA RequestStep ==
  ASSUME AuthInv, NEW r \in AdminRequests, NEW q, auth' = [auth EXCEPT ![r] = q], Proved(r, q)',
         UNCHANGED <<accounts, claim, hashes, tokens, lost>>
  PROVE  AuthInv'
<1>1. /\ accounts' = accounts /\ claim' = claim /\ hashes' = hashes /\ tokens' = tokens /\ lost' = lost
  OBVIOUS
<1>2. auth' = [s \in AdminRequests |-> auth'[s]] /\ auth'[r] = q /\ \A s \in AdminRequests \ {r} : auth'[s] = auth[s]
  BY DEF AuthInv
<1>3. ASSUME NEW s \in AdminRequests PROVE Proved(s, auth[s])'
  <2>1. CASE s = r
    BY <1>2, <2>1 DEF Proved, Fields, Hashes
  <2>2. CASE s # r
    BY <1>1, <1>2, <2>2 DEF AuthInv, Proved, Fields, Hashes
  <2> QED
    BY <2>1, <2>2
<1> QED
  BY <1>1, <1>2, <1>3 DEF AuthInv, Hashes

\* A request is over.
LEMMA EndStep ==
  ASSUME AuthInv, NEW r \in AdminRequests, Auth!End(r), UNCHANGED <<accounts, claim, hashes, tokens, lost>>
  PROVE  AuthInv'
<1>1. PICK q : q = Auth!Idle
  OBVIOUS
<1>2. auth' = [auth EXCEPT ![r] = q] /\ Proved(r, q)'
  BY <1>1 DEF Auth!End, Auth!Idle, Proved, Fields
<1> QED
  BY <1>2, RequestStep

LEMMA SetupBeginStep ==
  ASSUME AuthInv, NEW r \in AdminRequests, NEW p \in Password, Auth!SetupBegin(r, p) PROVE AuthInv'
<1>1. PICK a, b, c, d, e, f, g, h :
        auth[r] = [pc |-> a, kind |-> b, addr |-> c, pw |-> d, new |-> e, hash |-> f,
                  stamp |-> g, at |-> h]
  BY DEF AuthInv, Proved, Fields
<1>2. PICK u : u = [auth[r] EXCEPT !.kind = "setup"]
  OBVIOUS
<1>3. PICK v : v = [u EXCEPT !.pc = "claim"]
  OBVIOUS
<1>4. PICK q : q = [v EXCEPT !.pw = p]
  OBVIOUS
<1>5. u = [pc |-> a, kind |-> "setup", addr |-> c, pw |-> d, new |-> e, hash |-> f,
           stamp |-> g, at |-> h]
  BY <1>1, <1>2
<1>6. v = [pc |-> "claim", kind |-> "setup", addr |-> c, pw |-> d, new |-> e, hash |-> f,
           stamp |-> g, at |-> h]
  BY <1>3, <1>5
<1>7. q = [pc |-> "claim", kind |-> "setup", addr |-> c, pw |-> p, new |-> e, hash |-> f,
           stamp |-> g, at |-> h]
  BY <1>4, <1>6
<1>8. auth' = [auth EXCEPT ![r] = q]
  <2>1. auth' = [auth EXCEPT ![r].kind = "setup", ![r].pc = "claim", ![r].pw = p]
    BY DEF Auth!SetupBegin
  <2>2. auth = [s \in AdminRequests |-> auth[s]]
    BY DEF AuthInv
  <2>3. q = [auth[r] EXCEPT !.kind = "setup", !.pc = "claim", !.pw = p]
    BY <1>2, <1>3, <1>4
  <2> QED
    BY <2>1, <2>2, <2>3
<1>9. Proved(r, q)'
  BY <1>7 DEF Proved, Fields
<1>10. UNCHANGED <<accounts, claim, hashes, tokens, lost>>
  BY DEF Auth!SetupBegin
<1> QED
  BY <1>8, <1>9, <1>10, RequestStep

\* One field of a request changes.
LEMMA FieldSet ==
  ASSUME NEW q, Fields(q), NEW x, NEW y
  PROVE  /\ [q EXCEPT !.pc = x] = [pc |-> x, kind |-> q.kind, addr |-> q.addr, pw |-> q.pw,
                 new |-> q.new, hash |-> q.hash, stamp |-> q.stamp, at |-> q.at]
         /\ [q EXCEPT !.pc = x, !.hash = y] = [pc |-> x, kind |-> q.kind, addr |-> q.addr,
                 pw |-> q.pw, new |-> q.new, hash |-> y, stamp |-> q.stamp, at |-> q.at]
<1>1. PICK a, b, c, d, e, f, g, h :
        q = [pc |-> a, kind |-> b, addr |-> c, pw |-> d, new |-> e, hash |-> f,
             stamp |-> g, at |-> h]
  BY DEF Fields
<1>2. /\ q.kind = b /\ q.addr = c /\ q.pw = d /\ q.new = e /\ q.hash = f /\ q.stamp = g
      /\ q.at = h
  BY <1>1
<1>3. [q EXCEPT !.pc = x] = [pc |-> x, kind |-> b, addr |-> c, pw |-> d, new |-> e, hash |-> f,
                            stamp |-> g, at |-> h]
  BY <1>1
<1>4. PICK u : u = [q EXCEPT !.pc = x]
  OBVIOUS
<1>5. PICK v : v = [u EXCEPT !.hash = y]
  OBVIOUS
<1>6. v = [pc |-> x, kind |-> b, addr |-> c, pw |-> d, new |-> e, hash |-> y, stamp |-> g, at |-> h]
  BY <1>3, <1>4, <1>5
<1>7. v = [q EXCEPT !.pc = x, !.hash = y]
  BY <1>4, <1>5
<1> QED
  BY <1>2, <1>3, <1>6, <1>7

\* The first to insert the row makes the account.
LEMMA SetupClaimStep ==
  ASSUME AuthParameters, AuthInv, NEW r \in AdminRequests, Auth!SetupClaim(r) PROVE AuthInv'
<1>1. CASE claim = "committed" /\ Auth!End(r) /\ UNCHANGED claim
  BY <1>1, EndStep DEF Auth!SetupClaim
<1>2. CASE claim = None /\ claim' = r /\ auth' = [auth EXCEPT ![r].pc = "insert"]
  <2>1. Proved(r, auth[r]) /\ auth[r].pc = "claim"
    BY DEF AuthInv, Auth!SetupClaim
  <2>2. PICK q : q = [auth[r] EXCEPT !.pc = "insert"]
    OBVIOUS
  <2>3. Fields(q) /\ q.pc = "insert" /\ q.pw = auth[r].pw
    BY <2>1, <2>2, FieldSet DEF Proved, Fields
  <2>4. auth' = [auth EXCEPT ![r] = q] /\ auth = [s \in AdminRequests |-> auth[s]]
    BY <1>2, <2>2 DEF AuthInv
  <2>5. accounts' = accounts /\ hashes' = hashes /\ tokens' = tokens /\ lost' = lost /\ claim' = r
    BY <1>2 DEF Auth!SetupClaim
  <2>6. accounts = <<>> /\ r # "committed"
    BY <1>2 DEF AuthInv, AuthParameters
  <2>7. ASSUME NEW s \in AdminRequests PROVE Proved(s, auth[s])'
    <3>1. CASE s = r
      <4>1. auth'[s] = q /\ q.pw \in Password
        BY <2>1, <2>3, <2>4, <3>1 DEF Proved
      <4> QED
        BY <2>3, <2>5, <3>1, <4>1 DEF Proved, Fields
    <3>2. CASE s # r
      <4>1. auth'[s] = auth[s] /\ Proved(s, auth[s]) /\ claim # s
        BY <1>2, <2>4, <3>2 DEF AuthInv, AuthParameters
      <4> QED
        BY <2>5, <4>1 DEF Proved, Fields, Hashes
    <3> QED
      BY <3>1, <3>2
  <2>8. auth' = [s \in AdminRequests |-> auth'[s]]
    BY <2>4
  <2> QED
    BY <2>5, <2>6, <2>7, <2>8 DEF AuthInv, Hashes
<1> QED
  BY <1>1, <1>2 DEF Auth!SetupClaim

\* While a transaction runs, nobody else has the row, and there is no account.
LEMMA OneClaim ==
  ASSUME AuthParameters, AuthInv, NEW r \in AdminRequests, auth[r].pc = "insert"
  PROVE  /\ claim = r /\ accounts = <<>> /\ \A s \in AdminRequests \ {r} : auth[s].pc # "insert"
         /\ \A s \in AdminRequests : auth[s].pc \notin {"read", "verify", "compare", "update"}
BY DEF AuthParameters, AuthInv, Proved

LEMMA SetupFailedStep ==
  ASSUME AuthParameters, AuthInv, NEW r \in AdminRequests, Auth!SetupFailed(r) PROVE AuthInv'
<1>1. /\ auth[r].pc = "insert" /\ accounts' = accounts /\ hashes' = hashes /\ tokens' = tokens
      /\ lost' = lost /\ claim' = None
  BY DEF Auth!SetupFailed
<1>2. /\ accounts = <<>> /\ \A s \in AdminRequests \ {r} : auth[s].pc # "insert"
      /\ \A s \in AdminRequests : auth[s].pc \notin {"read", "verify", "compare", "update"}
  BY <1>1, OneClaim
<1>3. PICK q : q = Auth!Idle
  OBVIOUS
<1>4. auth' = [auth EXCEPT ![r] = q] /\ auth = [s \in AdminRequests |-> auth[s]]
  BY <1>3 DEF Auth!SetupFailed, Auth!End, AuthInv
<1>5. ASSUME NEW s \in AdminRequests PROVE Proved(s, auth[s])'
  <2>1. CASE s = r
    BY <1>3, <1>4, <2>1 DEF Auth!Idle, Proved, Fields
  <2>2. CASE s # r
    <3>1. auth'[s] = auth[s] /\ Proved(s, auth[s]) /\ auth[s].pc # "insert"
      BY <1>2, <1>4, <2>2 DEF AuthInv
    <3> QED
      BY <1>1, <3>1 DEF Proved, Fields, Hashes
  <2> QED
    BY <2>1, <2>2
<1>6. auth' = [s \in AdminRequests |-> auth'[s]]
  BY <1>4
<1> QED
  BY <1>1, <1>2, <1>5, <1>6 DEF AuthInv, Hashes, AuthParameters

\* Another hash.
LEMMA Hashed ==
  ASSUME NEW hs \in Seq(Password), NEW p \in Password
  PROVE  /\ Append(hs, p) \in Seq(Password) /\ Len(Append(hs, p)) = Len(hs) + 1
         /\ Append(hs, p)[Len(hs) + 1] = p
         /\ \A i \in 1 .. Len(hs) : Append(hs, p)[i] = hs[i]
OBVIOUS

LEMMA SetupCommitStep ==
  ASSUME AuthParameters, AuthInv, NEW r \in AdminRequests, Auth!SetupCommit(r) PROVE AuthInv'
<1>1. PICK h : h = Len(hashes) + 1
  OBVIOUS
<1>2. /\ auth[r].pc = "insert" /\ accounts' = Append(accounts, h) /\ lost' = lost /\ claim' = "committed"
      /\ hashes' = Append(hashes, auth[r].pw) /\ tokens' = tokens \cup {Auth!Token(h, auth[r].pw)}
  BY <1>1 DEF Auth!SetupCommit
<1>3. /\ accounts = <<>> /\ \A s \in AdminRequests \ {r} : auth[s].pc # "insert"
      /\ \A s \in AdminRequests : auth[s].pc \notin {"read", "verify", "compare", "update"}
  BY <1>2, OneClaim
<1>4. PICK p : p = auth[r].pw /\ p \in Password
  BY <1>2 DEF AuthInv, Proved
<1>5. /\ hashes' \in Seq(Password) /\ Len(hashes') = h /\ hashes'[h] = p /\ h \in Nat /\ h > 0
      /\ \A i \in Hashes : hashes'[i] = hashes[i] /\ i \in Hashes'
  BY <1>1, <1>2, <1>4, Hashed DEF AuthInv, Hashes
<1>6. accounts' = <<h>>
  BY <1>2, <1>3
<1>7. accounts' \in Seq(Hashes') /\ Len(accounts') = 1 /\ accounts' # <<>>
  BY <1>5, <1>6 DEF Hashes
<1>8. \A t \in tokens' : t.hash \in Hashes' /\ t.pw = hashes'[t.hash]
  BY <1>2, <1>4, <1>5 DEF AuthInv, Auth!Token, Hashes
<1>9. PICK q : q = Auth!Idle
  OBVIOUS
<1>10. auth' = [auth EXCEPT ![r] = q] /\ auth = [s \in AdminRequests |-> auth[s]]
  BY <1>9 DEF Auth!SetupCommit, Auth!End, AuthInv
<1>11. ASSUME NEW s \in AdminRequests PROVE Proved(s, auth[s])'
  <2>1. CASE s = r
    BY <1>9, <1>10, <2>1 DEF Auth!Idle, Proved, Fields
  <2>2. CASE s # r
    <3>1. /\ auth'[s] = auth[s] /\ Proved(s, auth[s])
          /\ auth[s].pc \notin {"insert", "read", "verify", "compare", "update"}
      BY <1>3, <1>10, <2>2 DEF AuthInv
    <3> QED
      BY <3>1 DEF Proved, Fields
  <2> QED
    BY <2>1, <2>2
<1>12. auth' = [s \in AdminRequests |-> auth'[s]]
  BY <1>10
<1>13. ~lost' /\ (accounts' # <<>> <=> claim' = "committed") /\ Len(accounts') <= 1
  BY <1>2, <1>7 DEF AuthInv
<1> QED
  BY <1>5, <1>7, <1>8, <1>11, <1>12, <1>13 DEF AuthInv

-----------------------------------------------------------------------------
LEMMA LoginStep ==
  ASSUME AuthInv, NEW r \in AdminRequests, NEW a \in Address, NEW p \in Password, Auth!Login(r, a, p)
  PROVE  AuthInv'
<1>1. accounts # <<>> /\ UNCHANGED <<accounts, claim, hashes, tokens, lost>>
  BY DEF Auth!Login
<1>2. CASE auth' = auth
  <2>1. PICK q : q = auth[r] /\ Proved(r, q)
    BY DEF AuthInv
  <2>2. auth' = [auth EXCEPT ![r] = q] /\ Proved(r, q)'
    BY <1>1, <1>2, <2>1 DEF AuthInv, Proved, Hashes
  <2> QED
    BY <1>1, <2>2, RequestStep
<1>3. CASE auth' # auth
  <2>1. PICK n, m : n = now /\ m = Len(log) + 1
    OBVIOUS
  <2>2. PICK q : q = [Auth!Idle EXCEPT !.kind = "login", !.pc = "read",
                            !.addr = a, !.pw = p, !.stamp = n, !.at = m]
    OBVIOUS
  <2>3. auth' = [auth EXCEPT ![r] = q]
    BY <1>3, <2>1, <2>2 DEF Auth!Login
  <2>4. q = [pc |-> "read", kind |-> "login", addr |-> a, pw |-> p, new |-> None,
             hash |-> None, stamp |-> n, at |-> m]
    BY <2>2 DEF Auth!Idle
  <2>5. accounts' # <<>>
    BY <1>1
  <2>6. Proved(r, q)'
    BY <2>4, <2>5 DEF Proved, Fields
  <2> QED
    BY <1>1, <2>3, <2>6, RequestStep
<1> QED
  BY <1>2, <1>3

\* The hash of the account.
LEMMA AccountHash == ASSUME AuthInv, accounts # <<>> PROVE accounts[1] \in Hashes
BY DEF AuthInv

LEMMA LoginReadStep ==
  ASSUME AuthInv, NEW r \in AdminRequests, Auth!LoginRead(r) PROVE AuthInv'
<1>1. Proved(r, auth[r]) /\ auth[r].pc = "read"
  BY DEF AuthInv, Auth!LoginRead
<1>2. PICK h : h = accounts[1]
  OBVIOUS
<1>3. h \in Hashes /\ accounts # <<>>
  BY <1>1, <1>2, AccountHash DEF Proved
<1>4. PICK q : q = [auth[r] EXCEPT !.pc = "verify", !.hash = h]
  OBVIOUS
<1>5. Fields(q) /\ q.pc = "verify" /\ q.hash = h
  BY <1>1, <1>4, FieldSet DEF Proved, Fields
<1>6. auth' = [auth EXCEPT ![r] = q] /\ UNCHANGED <<accounts, claim, hashes, tokens, lost>>
  <2>1. auth' = [auth EXCEPT ![r].pc = "verify", ![r].hash = h] /\ auth = [s \in AdminRequests |-> auth[s]]
    BY <1>2 DEF Auth!LoginRead, AuthInv
  <2> QED
    BY <1>4, <2>1 DEF Auth!LoginRead
<1>7. h \in Hashes' /\ accounts' # <<>>
  BY <1>3, <1>6 DEF Hashes
<1>8. Proved(r, q)'
  BY <1>5, <1>7 DEF Proved, Fields
<1> QED
  BY <1>6, <1>8, RequestStep

LEMMA LoginVerifiedStep ==
  ASSUME AuthInv, NEW r \in AdminRequests, Auth!LoginVerified(r) PROVE AuthInv'
<1>1. Proved(r, auth[r]) /\ auth[r].pc = "verify"
  BY DEF AuthInv, Auth!LoginVerified
<1>2. PICK h, p : h = auth[r].hash /\ p = auth[r].pw
  OBVIOUS
<1>3. h \in Hashes
  BY <1>1, <1>2 DEF Proved
<1>4. Auth!End(r) /\ UNCHANGED <<accounts, claim, hashes, lost>>
  BY DEF Auth!LoginVerified
<1>5. tokens' = tokens \/ (hashes[h] = p /\ tokens' = tokens \cup {Auth!Token(h, p)})
  BY <1>2 DEF Auth!LoginVerified, Auth!Bound
<1>6. \A t \in tokens' : t.hash \in Hashes /\ t.pw = hashes[t.hash]
  BY <1>3, <1>5 DEF AuthInv, Auth!Token
<1>7. PICK q : q = Auth!Idle
  OBVIOUS
<1>8. auth' = [auth EXCEPT ![r] = q] /\ auth = [s \in AdminRequests |-> auth[s]]
  BY <1>4, <1>7 DEF Auth!End, AuthInv
<1>9. ASSUME NEW s \in AdminRequests PROVE Proved(s, auth[s])'
  <2>1. CASE s = r
    BY <1>7, <1>8, <2>1 DEF Auth!Idle, Proved, Fields
  <2>2. CASE s # r
    <3>1. auth'[s] = auth[s] /\ Proved(s, auth[s])
      BY <1>8, <2>2 DEF AuthInv
    <3> QED
      BY <1>4, <3>1 DEF Proved, Fields, Hashes
  <2> QED
    BY <2>1, <2>2
<1>10. auth' = [s \in AdminRequests |-> auth'[s]]
  BY <1>8
<1> QED
  BY <1>4, <1>6, <1>9, <1>10 DEF AuthInv, Hashes

LEMMA OneElement ==
  ASSUME NEW S, NEW s \in Seq(S), s # <<>>, Len(s) <= 1
  PROVE  Len(s) = 1
<1>1. Len(s) \in Nat
  OBVIOUS
<1>2. CASE Len(s) = 0
  <2>1. s = <<>>
    BY <1>2, EmptySeq
  <2> QED
    BY <2>1
<1> QED
  BY <1>1, <1>2

LEMMA ChangeStep ==
  ASSUME AuthInv, NEW r \in AdminRequests, NEW p \in Password, NEW new \in Password,
         Auth!Change(r, p, new)
  PROVE  AuthInv'
<1>1. accounts # <<>> /\ UNCHANGED <<accounts, claim, hashes, tokens, lost>>
  BY DEF Auth!Change, Auth!Accepted
<1>2. PICK h : h = accounts[1]
  OBVIOUS
<1>3. h \in Hashes /\ h \in Hashes' /\ accounts' # <<>>
  BY <1>1, <1>2, AccountHash DEF Hashes
<1>4. PICK q : q = [Auth!Idle EXCEPT !.kind = "change", !.pc = "compare", !.pw = p,
                                      !.new = new, !.hash = h]
  OBVIOUS
<1>5. q = [pc |-> "compare", kind |-> "change", addr |-> None, pw |-> p, new |-> new,
           hash |-> h, stamp |-> 0, at |-> 0]
  BY <1>4 DEF Auth!Idle
<1>6. auth' = [auth EXCEPT ![r] = q]
  BY <1>2, <1>4 DEF Auth!Change
<1>7. Proved(r, q)'
  BY <1>3, <1>5 DEF Proved, Fields
<1> QED
  BY <1>1, <1>6, <1>7, RequestStep

LEMMA ChangeHashedStep ==
  ASSUME AuthInv, NEW r \in AdminRequests, Auth!ChangeHashed(r) PROVE AuthInv'
<1>1. Proved(r, auth[r]) /\ auth[r].pc = "compare" /\ hashes[auth[r].hash] = auth[r].pw
  BY DEF AuthInv, Auth!ChangeHashed
<1>2. PICK q : q = [auth[r] EXCEPT !.pc = "update"]
  OBVIOUS
<1>3. /\ Fields(q) /\ q.pc = "update" /\ q.hash = auth[r].hash /\ q.pw = auth[r].pw
      /\ q.new = auth[r].new
  BY <1>1, <1>2, FieldSet DEF Proved, Fields
<1>4. auth' = [auth EXCEPT ![r] = q] /\ UNCHANGED <<accounts, claim, hashes, tokens, lost>>
  <2>1. auth' = [auth EXCEPT ![r].pc = "update"] /\ auth = [s \in AdminRequests |-> auth[s]]
    BY DEF Auth!ChangeHashed, AuthInv
  <2> QED
    BY <1>2, <2>1 DEF Auth!ChangeHashed
<1>5. /\ q.hash \in Hashes /\ accounts # <<>> /\ hashes[q.hash] = q.pw /\ q.new \in Password
  BY <1>1, <1>3 DEF Proved
<1>6. /\ q.hash \in Hashes' /\ accounts' # <<>> /\ hashes'[q.hash] = q.pw
  BY <1>4, <1>5 DEF Hashes
<1>7. Proved(r, q)'
  BY <1>3, <1>5, <1>6 DEF Proved, Fields
<1> QED
  BY <1>4, <1>7, RequestStep

\* The hash that was read is the one that is replaced, and its password was proved.
LEMMA ChangeUpdateStep ==
  ASSUME AuthInv, NEW r \in AdminRequests, Auth!ChangeUpdate(r) PROVE AuthInv'
<1>1. /\ Proved(r, auth[r]) /\ auth[r].pc = "update" /\ Auth!End(r) /\ claim' = claim
  BY DEF AuthInv, Auth!ChangeUpdate
<1>2. PICK h, old, p, new :
        h = Len(hashes) + 1 /\ old = auth[r].hash /\ p = auth[r].pw /\ new = auth[r].new
  OBVIOUS
<1>3. old \in Hashes /\ accounts # <<>> /\ hashes[old] = p /\ new \in Password
  BY <1>1, <1>2 DEF Proved
<1>4. CASE accounts[1] # old
  <2>1. UNCHANGED <<accounts, claim, hashes, tokens, lost>>
    BY <1>1, <1>2, <1>4 DEF Auth!ChangeUpdate, Auth!Unchanged
  <2> QED
    BY <1>1, <2>1, EndStep
<1>5. CASE accounts[1] = old
  <2>1. /\ hashes' = Append(hashes, new) /\ accounts' = [accounts EXCEPT ![1] = h]
        /\ tokens' = tokens \cup {Auth!Token(h, new)} /\ lost' = (lost \/ hashes[old] # p)
    BY <1>2, <1>5 DEF Auth!ChangeUpdate, Auth!Unchanged
  <2>2. /\ hashes' \in Seq(Password) /\ Len(hashes') = h /\ hashes'[h] = new /\ h \in Nat /\ h > 0
        /\ \A i \in Hashes : hashes'[i] = hashes[i] /\ i \in Hashes'
    BY <1>2, <1>3, <2>1, Hashed DEF AuthInv, Hashes
  <2>3. accounts \in Seq(Hashes) /\ Len(accounts) = 1
    <3>1. accounts \in Seq(Hashes) /\ accounts # <<>> /\ Len(accounts) <= 1
      BY <1>3 DEF AuthInv
    <3> QED
      BY <3>1, OneElement
  <2>4. /\ accounts' \in Seq(Hashes') /\ Len(accounts') = 1 /\ accounts' # <<>>
    <3>1. accounts' = <<h>>
      BY <2>1, <2>3
    <3> QED
      BY <2>2, <3>1 DEF Hashes
  <2>5. \A t \in tokens' : t.hash \in Hashes' /\ t.pw = hashes'[t.hash]
    BY <2>1, <2>2 DEF AuthInv, Auth!Token, Hashes
  <2>6. ~lost'
    BY <1>3, <2>1 DEF AuthInv
  <2>7. accounts' # <<>> <=> claim' = "committed"
    BY <1>1, <1>3, <2>4 DEF AuthInv
  <2>8. PICK q : q = Auth!Idle
    OBVIOUS
  <2>9. auth' = [auth EXCEPT ![r] = q] /\ auth = [s \in AdminRequests |-> auth[s]]
    BY <1>1, <2>8 DEF Auth!End, AuthInv
  <2>10. ASSUME NEW s \in AdminRequests PROVE Proved(s, auth[s])'
    <3>1. CASE s = r
      BY <2>8, <2>9, <3>1 DEF Auth!Idle, Proved, Fields
    <3>2. CASE s # r
      <4>1. auth'[s] = auth[s] /\ Proved(s, auth[s])
        BY <2>9, <3>2 DEF AuthInv
      <4> QED
        BY <1>1, <2>2, <2>4, <4>1 DEF Proved, Fields
    <3> QED
      BY <3>1, <3>2
  <2>11. auth' = [s \in AdminRequests |-> auth'[s]]
    BY <2>9
  <2>12. Len(accounts') <= 1
    BY <2>4
  <2> QED
    BY <2>2, <2>4, <2>5, <2>6, <2>7, <2>10, <2>11, <2>12 DEF AuthInv
<1> QED
  BY <1>4, <1>5

LEMMA AuthUnchanged == ASSUME AuthInv, UNCHANGED Auth!vars PROVE AuthInv'
<1>1. /\ accounts' = accounts /\ claim' = claim /\ hashes' = hashes /\ tokens' = tokens
      /\ lost' = lost /\ auth' = auth
  BY DEF Auth!vars
<1> QED
  BY <1>1 DEF AuthInv, Proved, Fields, Hashes

LEMMA AuthTick == ASSUME AuthInv, Auth!Tick PROVE AuthInv'
<1>1. /\ accounts' = accounts /\ claim' = claim /\ hashes' = hashes /\ tokens' = tokens
      /\ lost' = lost /\ auth' = auth
  BY DEF Auth!Tick
<1> QED
  BY <1>1 DEF AuthInv, Proved, Fields, Hashes

LEMMA AuthNext == ASSUME AuthParameters, AuthInv, [Auth!Next]_Auth!vars PROVE AuthInv'
<1>1. CASE Auth!Tick
  BY <1>1, AuthTick
<1>2. CASE UNCHANGED Auth!vars
  BY <1>2, AuthUnchanged
<1>3. ASSUME NEW r \in AdminRequests, NEW p \in Password, Auth!SetupBegin(r, p) PROVE AuthInv'
  BY <1>3, SetupBeginStep
<1>4. ASSUME NEW r \in AdminRequests, Auth!SetupClaim(r) PROVE AuthInv'
  BY <1>4, SetupClaimStep
<1>5. ASSUME NEW r \in AdminRequests, Auth!SetupCommit(r) PROVE AuthInv'
  BY <1>5, SetupCommitStep
<1>6. ASSUME NEW r \in AdminRequests, Auth!SetupFailed(r) PROVE AuthInv'
  BY <1>6, SetupFailedStep
<1>7. ASSUME NEW r \in AdminRequests, NEW a \in Address, NEW p \in Password, Auth!Login(r, a, p)
      PROVE  AuthInv'
  BY <1>7, LoginStep
<1>8. ASSUME NEW r \in AdminRequests, Auth!LoginRead(r) PROVE AuthInv'
  BY <1>8, LoginReadStep
<1>9. ASSUME NEW r \in AdminRequests, Auth!LoginVerified(r) PROVE AuthInv'
  BY <1>9, LoginVerifiedStep
<1>10. ASSUME NEW r \in AdminRequests, NEW p \in Password, NEW new \in Password, Auth!Change(r, p, new)
       PROVE  AuthInv'
  BY <1>10, ChangeStep
<1>11. ASSUME NEW r \in AdminRequests, Auth!ChangeRefused(r) PROVE AuthInv'
  <2>1. Auth!End(r) /\ UNCHANGED <<accounts, claim, hashes, tokens, lost>>
    BY <1>11 DEF Auth!ChangeRefused
  <2> QED
    BY <2>1, EndStep
<1>12. ASSUME NEW r \in AdminRequests, Auth!ChangeHashed(r) PROVE AuthInv'
  BY <1>12, ChangeHashedStep
<1>13. ASSUME NEW r \in AdminRequests, Auth!ChangeUpdate(r) PROVE AuthInv'
  BY <1>13, ChangeUpdateStep
<1> QED
  BY <1>1, <1>2, <1>3, <1>4, <1>5, <1>6, <1>7, <1>8, <1>9, <1>10, <1>11, <1>12, <1>13
  DEF Auth!Next

LEMMA AuthSafe == ASSUME AuthInv PROVE Auth!Guarded
BY DEF AuthInv, Auth!Guarded, Auth!Accepted

\* For any requests, addresses and passwords: concurrent setups make one account, a token
\* that is accepted belongs to somebody who proved the password in force, and a password is
\* replaced only by somebody who proved it.
THEOREM AccountGuarded == ASSUME AuthParameters PROVE Auth!Spec => []Guarded
<1>1. Auth!Init => AuthInv
  BY AuthInit
<1>2. AuthInv /\ [Auth!Next]_Auth!vars => AuthInv'
  BY AuthNext
<1>3. AuthInv => Auth!Guarded
  BY AuthSafe
<1> QED
  BY <1>1, <1>2, <1>3, PTL DEF Auth!Spec, Guarded
=============================================================================
