------------------------ MODULE RefreshTokensProofs ------------------------
(***************************************************************************)
(* Proofs about RefreshTokens for any number of request slots and rows.    *)
(***************************************************************************)
EXTENDS RefreshTokens, TLAPS, FiniteSetTheorems

\* Every row belongs to a session that is itself a row; the rows to come are
\* blank.
RowInv ==
  /\ \A t \in Rows : session[t] \in Rows
  /\ \A t \in Tokens \ Rows : replacedBy[t] = None

\* A login presents nothing.
LoginInv == \A c \in Callers : pc[c] \in {"idle", "login"} => presented[c] = None

TypeInv == TypeOK /\ RowInv /\ LoginInv

\* Between Issue and RevokeParent the new row descends from the presented one.
LinkInv ==
  \A c \in Callers : pc[c] = "issued" => parent[child[c]] = presented[c]

\* A caller past its validity check presents a row that no alarm has ended, or
\* it is known for having read the row before that alarm, or the row was created
\* by one of those.
PassedInv ==
  \A c \in Callers :
    pc[c] = "valid" /\ session[presented[c]] <= cutoff
      => c \in stale \/ presented[c] \in late

\* c has a request with a cookie of session s under way.
Presents(c, s) ==
  pc[c] # "idle" /\ presented[c] # None /\ session[presented[c]] = s

\* c has a new row, which its browser does not know yet.
Made(c) == pc[c] \in {"issued", "ok"}

\* Cookies are held; a new row is not, and it has one maker.
SecretInv ==
  /\ jar # None => jar \in held
  /\ \A c \in Callers : presented[c] # None => presented[c] \in held
  /\ \A c \in Callers : Made(c) =>
       /\ child[c] \notin held
       /\ \A d \in Callers \ {c} : Made(d) => child[d] # child[c]

\* The row of a rotation continues the session, the row of a login is all there
\* is of its own.
HeirInv ==
  \A c \in Callers : Made(c) =>
    IF presented[c] # None THEN session[child[c]] = session[presented[c]]
    ELSE \A t \in Rows : session[t] = session[child[c]] => t = child[c]

\* At most one request presents a cookie of an undisturbed session.
AloneInv ==
  \A c, d \in Callers : \A s \in Rows \ disturbed :
    Presents(c, s) /\ Presents(d, s) => c = d

\* The cookie of an undisturbed session is live unless a request presents it.
JarInv ==
  jar # None /\ session[jar] \notin disturbed =>
    /\ \A c \in Callers : Presents(c, session[jar]) => presented[c] = jar
    /\ (\A c \in Callers : ~Presents(c, session[jar])) => jar \in Live

\* What a request of an undisturbed session presents is live until the request
\* itself revokes it, and so is the row it creates.
RequestInv ==
  \A c \in Callers :
    /\ presented[c] # None /\ session[presented[c]] \notin disturbed =>
         /\ pc[c] \in {"refresh", "valid", "issued", "logout", "leaving"}
              => presented[c] \in Live
         /\ pc[c] # "reuse"
         /\ pc[c] = "ok" => presented[c] \in revoked
    /\ Made(c) /\ session[child[c]] \notin disturbed => child[c] \in Live

\* An undisturbed session has at most one live row the browser has seen, the one
\* a request of the session presents.
UniqueInv ==
  \A t, u \in Live \cap held :
    session[t] = session[u] /\ session[t] \notin disturbed =>
      /\ t = u
      /\ \A c \in Callers : Presents(c, session[t]) => presented[c] = t

SessionInv ==
  /\ SecretInv /\ HeirInv /\ AloneInv /\ JarInv /\ RequestInv /\ UniqueInv
-----------------------------------------------------------------------------
(* Types *)

\* A step of c.  A request that ends with the browser keeping its cookie is as
\* good as lost, whether it was answered (AccessTokenFails) or not.
Step(c) ==
  \/ SendLogin(c) \/ SendWithCookie(c)
  \/ ReadRow(c) \/ RevokeAll(c) \/ Issue(c) \/ IssueFails(c)
  \/ RevokeParent(c) \/ UnknownUser(c)
  \/ LogoutRead(c) \/ LogoutRevoke(c)
  \/ AnswerOk(c) \/ AnswerCleared(c) \/ Lost(c)

\* Every step is a step of one caller.
LEMMA StepCases ==
  ASSUME [Next]_vars
  PROVE  UNCHANGED vars \/ \E c \in Callers : Step(c)
<1>1. ASSUME NEW c \in Callers, AccessTokenFails(c) PROVE Lost(c)
  BY <1>1 DEF AccessTokenFails, Lost
<1> QED
  BY <1>1 DEF Next, Step

\* The conjuncts of TypeInv by the part of the system they are about.
TableTypes ==
  /\ issued \in 0..MaxTokens /\ revoked \subseteq Rows
  /\ replacedBy \in [Tokens -> 0..issued]
  /\ parent \in [Tokens -> 0..issued] /\ session \in [Tokens -> 0..issued]
  /\ RowInv

RequestTypes ==
  /\ pc \in [Callers -> States]
  /\ presented \in [Callers -> 0..issued] /\ child \in [Callers -> 0..issued]
  /\ \A c \in Callers :
       /\ pc[c] \in {"issued", "ok"} => child[c] # None
       /\ pc[c] \in {"refresh", "valid", "reuse", "issued", "logout", "leaving"}
            => presented[c] # None
       /\ pc[c] \in {"idle", "login"} => presented[c] = None

OtherTypes ==
  /\ jar \in 0..issued /\ held \subseteq Rows /\ disturbed \subseteq Rows
  /\ cutoff \in 0..issued /\ stale \subseteq Callers /\ late \subseteq Rows

LEMMA TypeParts == TypeInv <=> TableTypes /\ RequestTypes /\ OtherTypes
  BY DEF TypeInv, TypeOK, TableTypes, RequestTypes, OtherTypes, LoginInv

LEMMA TypePartsPrimed == TypeInv' <=> TableTypes' /\ RequestTypes' /\ OtherTypes'
  BY DEF TypeInv, TypeOK, TableTypes, RequestTypes, OtherTypes, LoginInv

LEMMA TypeInit == Init => TypeInv
  BY TokenAssumption
     DEF Init, TypeInv, TypeOK, RowInv, LoginInv, Rows, Tokens, None, States

LEMMA TableTypesStep ==
  ASSUME TypeInv, [Next]_vars PROVE TableTypes'
<1> TableTypes /\ RequestTypes /\ OtherTypes
  BY TypeParts
<1> USE TokenAssumption DEF Rows, Tokens, None, tableVars
<1>1. CASE UNCHANGED tableVars
  BY <1>1 DEF TableTypes, RowInv
<1>2. ASSUME NEW c \in Callers, RevokeAll(c) PROVE TableTypes'
  BY <1>2 DEF RevokeAll, TableTypes, RowInv
<1>3. ASSUME NEW c \in Callers, Issue(c) PROVE TableTypes'
  <2> DEFINE root == IF presented[c] = None THEN issued + 1 ELSE session[presented[c]]
  <2>1. /\ issued' = issued + 1 /\ issued < MaxTokens
        /\ UNCHANGED <<revoked, replacedBy>>
        /\ parent' = [parent EXCEPT ![issued + 1] = presented[c]]
        /\ session' = [session EXCEPT ![issued + 1] = root]
    BY <1>3 DEF Issue
  <2>2. presented[c] \in 0..issued
    BY DEF RequestTypes
  <2>3. /\ issued' \in 0..MaxTokens /\ issued + 1 \in Tokens
        /\ 0..issued \subseteq 0..issued' /\ 1..issued' = (1..issued) \cup {issued + 1}
    BY <2>1 DEF TableTypes
  <2>4. root \in 1..issued'
    <3>1. presented[c] # None => session[presented[c]] \in 1..issued
      BY <2>2 DEF TableTypes, RowInv
    <3> QED
      BY <2>1, <2>3, <3>1 DEF TableTypes
  <2> HIDE DEF root
  <2>5. /\ replacedBy' \in [Tokens -> 0..issued']
        /\ parent' \in [Tokens -> 0..issued'] /\ session' \in [Tokens -> 0..issued']
    <3>1. root \in 0..issued'
      BY <2>3, <2>4
    <3> QED
      BY <2>1, <2>2, <2>3, <3>1 DEF TableTypes
  <2>6. ASSUME NEW t \in Rows' PROVE session'[t] \in Rows'
    <3>1. CASE t = issued + 1
      BY <2>1, <2>3, <2>4, <3>1 DEF TableTypes
    <3>2. CASE t \in 1..issued
      BY <2>1, <2>3, <2>4, <3>2 DEF TableTypes, RowInv
    <3> QED
      BY <2>3, <3>1, <3>2
  <2> QED
    BY <2>1, <2>3, <2>5, <2>6 DEF TableTypes, RowInv
<1>4. ASSUME NEW c \in Callers, RevokeParent(c) \/ LogoutRevoke(c) PROVE TableTypes'
  <2>1. /\ presented[c] \in 1..issued
        /\ pc[c] = "issued" => child[c] \in 0..issued
    BY <1>4 DEF RequestTypes, RevokeParent, LogoutRevoke
  <2>2. UNCHANGED <<issued, parent, session>>
    BY <1>4 DEF RevokeParent, LogoutRevoke
  <2>3. revoked' \subseteq Rows
    BY <1>4, <2>1 DEF RevokeParent, LogoutRevoke, TableTypes
  <2>4. \E v \in 0..issued :
          replacedBy' \in {replacedBy, [replacedBy EXCEPT ![presented[c]] = v]}
    BY <1>4, <2>1 DEF RevokeParent, LogoutRevoke, TableTypes
  <2> QED
    BY <2>1, <2>2, <2>3, <2>4 DEF TableTypes, RowInv
<1>5. ASSUME NEW c \in Callers, AnswerOk(c) \/ AnswerCleared(c) \/ Lost(c)
      PROVE  UNCHANGED tableVars
  BY <1>5 DEF AnswerOk, AnswerCleared, Lost, KeepsCookie
<1> QED
  BY <1>1, <1>2, <1>3, <1>4, <1>5, StepCases
     DEF Step, SendLogin, SendWithCookie, ReadRow, IssueFails, LoginFails, UnknownUser,
        LogoutRead,
          vars

\* Rows are never taken back.
LEMMA IssuedGrows ==
  ASSUME TypeInv, [Next]_vars PROVE issued' \in Nat /\ issued <= issued' /\ issued \in Nat
<1>1. issued \in Nat
  BY TypeParts, TokenAssumption DEF TableTypes
<1>2. issued' \in {issued, issued + 1}
  BY StepCases DEF Step, SendLogin, SendWithCookie, ReadRow, RevokeAll, Issue,
     IssueFails, LoginFails,
     RevokeParent, UnknownUser, LogoutRead, LogoutRevoke, AnswerOk, AnswerCleared, Lost,
     KeepsCookie,
     vars, tableVars
<1> QED
  BY <1>1, <1>2

LEMMA RequestTypesStep ==
  ASSUME TypeInv, [Next]_vars PROVE RequestTypes'
<1>1. TableTypes /\ RequestTypes /\ OtherTypes
  BY TypeParts
<1>2. issued \in Nat /\ issued' \in Nat /\ issued <= issued'
  BY IssuedGrows
<1>3. 0..issued \subseteq 0..issued'
  BY <1>2
<1>4. CASE UNCHANGED <<pc, presented, child>>
  BY <1>1, <1>3, <1>4 DEF RequestTypes
<1>5. ASSUME NEW c \in Callers, NEW state \in States,
             NEW p \in 0..issued', NEW k \in 0..issued',
             pc' = [pc EXCEPT ![c] = state],
             presented' \in {presented, [presented EXCEPT ![c] = p]},
             child' \in {child, [child EXCEPT ![c] = k]},
             state \in {"issued", "ok"} => child'[c] # None,
             state \in {"refresh", "valid", "reuse", "issued", "logout", "leaving"}
               => presented'[c] # None,
             state \in {"idle", "login"} => presented'[c] = None
      PROVE  RequestTypes'
  BY <1>1, <1>3, <1>5 DEF RequestTypes
<1>6. ASSUME NEW c \in Callers, SendLogin(c) PROVE RequestTypes'
  <2>1. /\ pc[c] = "idle" /\ pc' = [pc EXCEPT ![c] = "login"]
        /\ UNCHANGED <<presented, child>>
    BY <1>6 DEF SendLogin, Goto
  <2> QED
    BY <1>1, <1>3, <2>1 DEF RequestTypes, States
<1>7. ASSUME NEW c \in Callers, SendWithCookie(c) PROVE RequestTypes'
  <2>1. jar \in 0..issued' /\ jar # None /\ presented' = [presented EXCEPT ![c] = jar]
        /\ presented'[c] = jar /\ child' = child
    BY <1>1, <1>3, <1>7 DEF SendWithCookie, OtherTypes, RequestTypes
  <2> QED
    BY <1>5, <1>7, <2>1 DEF SendWithCookie, Goto, States
<1>8. ASSUME NEW c \in Callers,
             \/ ReadRow(c) \/ RevokeAll(c) \/ IssueFails(c) \/ UnknownUser(c)
             \/ LogoutRead(c) \/ LogoutRevoke(c) \/ RevokeParent(c)
      PROVE  RequestTypes'
  <2>1. PICK state \in States :
          /\ pc' = [pc EXCEPT ![c] = state]
          /\ state \in {"refresh", "valid", "reuse", "issued", "logout", "leaving"}
               => pc[c] \in {"refresh", "logout"}
          /\ state \in {"issued", "ok"} => pc[c] = "issued"
          /\ state = "idle" => pc[c] = "login"
          /\ state # "login"
    BY <1>8 DEF ReadRow, RevokeAll, IssueFails, LoginFails, UnknownUser, LogoutRead,
       LogoutRevoke,
                RevokeParent, Goto, States
  <2>2. UNCHANGED <<presented, child>>
    BY <1>8 DEF ReadRow, RevokeAll, IssueFails, LoginFails, UnknownUser, LogoutRead,
       LogoutRevoke,
                RevokeParent
  <2> QED
    BY <1>1, <1>3, <2>1, <2>2 DEF RequestTypes
<1>9. ASSUME NEW c \in Callers, Issue(c) PROVE RequestTypes'
  <2>1. /\ issued' = issued + 1 /\ child' = [child EXCEPT ![c] = issued + 1]
        /\ presented' = presented
        /\ pc' = [pc EXCEPT ![c] = IF pc[c] = "login" THEN "ok" ELSE "issued"]
        /\ pc[c] \in {"login", "valid"}
    BY <1>9 DEF Issue, Goto
  <2> QED
    BY <1>1, <1>2, <1>3, <2>1 DEF RequestTypes, None, States
<1>10. ASSUME NEW c \in Callers, Done(c) PROVE RequestTypes'
  <2>1. /\ pc' = [pc EXCEPT ![c] = "idle"] /\ presented' = [presented EXCEPT ![c] = 0]
        /\ child' = [child EXCEPT ![c] = 0]
    BY <1>10 DEF Done, Goto, None
  <2>2. 0 \in 0..issued'
    BY <1>2
  <2>3. /\ presented' \in [Callers -> 0..issued'] /\ child' \in [Callers -> 0..issued']
        /\ pc' \in [Callers -> States]
    BY <1>1, <1>3, <2>1, <2>2 DEF RequestTypes, States
  <2>4. pc'[c] = "idle" /\ presented'[c] = None
    BY <1>1, <2>1 DEF RequestTypes, None
  <2>5. \A d \in Callers \ {c} :
          pc'[d] = pc[d] /\ presented'[d] = presented[d] /\ child'[d] = child[d]
    BY <1>1, <2>1 DEF RequestTypes
  <2> QED
    BY <1>1, <2>3, <2>4, <2>5 DEF RequestTypes
<1> QED
  BY <1>4, <1>6, <1>7, <1>8, <1>9, <1>10, StepCases
     DEF Step, SendLogin, AnswerOk, AnswerCleared, Lost, KeepsCookie, vars, requestVars

LEMMA OtherTypesStep ==
  ASSUME TypeInv, [Next]_vars PROVE OtherTypes'
<1>1. TableTypes /\ RequestTypes /\ OtherTypes
  BY TypeParts
<1>2. issued \in Nat /\ issued' \in Nat /\ issued <= issued'
  BY IssuedGrows
<1>3. 0..issued \subseteq 0..issued' /\ Rows \subseteq Rows'
  BY <1>2 DEF Rows
<1>4. \A t \in 1..issued : session[t] \in Rows
  BY <1>1 DEF TableTypes, RowInv, Rows
<1>5. CASE UNCHANGED <<jar, held, disturbed, alarmVars>>
  BY <1>1, <1>3, <1>5 DEF OtherTypes, alarmVars
<1>6. ASSUME NEW c \in Callers, SendWithCookie(c) PROVE OtherTypes'
  <2>1. disturbed' = disturbed \cup Overlaps(c) /\ jar \in 1..issued
        /\ UNCHANGED <<jar, held, alarmVars>>
    BY <1>1, <1>6 DEF SendWithCookie, OtherTypes, None
  <2>2. Overlaps(c) \subseteq Rows
    BY <1>4, <2>1 DEF Overlaps
  <2> QED
    BY <1>1, <1>3, <2>1, <2>2 DEF OtherTypes, alarmVars
<1>7. ASSUME NEW c \in Callers, RevokeAll(c) PROVE OtherTypes'
  <2>1. {session[t] : t \in Live} \subseteq Rows
    BY <1>4 DEF Live, Rows
  <2>2. UNCHANGED <<issued, jar, held, late>>
    BY <1>7 DEF RevokeAll
  <2>3. /\ disturbed' \in {disturbed, disturbed \cup {session[t] : t \in Live}}
        /\ cutoff' \in {cutoff, issued} /\ stale' \subseteq Callers
    BY <1>1, <1>7 DEF RevokeAll, OtherTypes
  <2> QED
    BY <1>1, <1>2, <1>3, <2>1, <2>2, <2>3 DEF OtherTypes, Rows
<1>8. ASSUME NEW c \in Callers, Issue(c) PROVE OtherTypes'
  <2>1. /\ issued' = issued + 1 /\ late' \subseteq late \cup {issued + 1}
        /\ UNCHANGED <<jar, held, disturbed, cutoff, stale>>
    BY <1>8 DEF Issue
  <2>2. issued + 1 \in Rows'
    BY <1>2, <2>1 DEF Rows
  <2> QED
    BY <1>1, <1>3, <2>1, <2>2 DEF OtherTypes
<1>9. ASSUME NEW c \in Callers, AnswerOk(c) PROVE OtherTypes'
  <2>1. /\ jar' = child[c] /\ held' = held \cup {child[c]} /\ stale' = stale \ {c}
        /\ UNCHANGED <<issued, disturbed, cutoff, late>>
    BY <1>9 DEF AnswerOk, Done, tableVars
  <2>2. child[c] \in 1..issued
    BY <1>1, <1>9 DEF AnswerOk, RequestTypes, None
  <2>3. Rows' = Rows /\ child[c] \in Rows /\ child[c] \in 0..issued
    BY <1>1, <2>1, <2>2 DEF Rows
  <2> QED
    BY <1>1, <2>1, <2>3 DEF OtherTypes
<1>10. ASSUME NEW c \in Callers, AnswerCleared(c) PROVE OtherTypes'
  BY <1>1, <1>2, <1>3, <1>10 DEF AnswerCleared, Done, OtherTypes, None
<1>11. ASSUME NEW c \in Callers, Lost(c) PROVE OtherTypes'
  <2>1. disturbed' \subseteq disturbed \cup {session[t] : t \in revoked}
    BY <1>11 DEF Lost, KeepsCookie
  <2>2. {session[t] : t \in revoked} \subseteq Rows
    BY <1>1, <1>4 DEF TableTypes, Rows
  <2>3. stale' \subseteq stale /\ UNCHANGED <<issued, jar, held, cutoff, late>>
    BY <1>11 DEF Lost, KeepsCookie, Done, tableVars
  <2> QED
    BY <1>1, <1>3, <2>1, <2>2, <2>3 DEF OtherTypes
<1> QED
  BY <1>5, <1>6, <1>7, <1>8, <1>9, <1>10, <1>11, StepCases
     DEF Step, SendLogin, ReadRow, IssueFails, LoginFails, RevokeParent, UnknownUser,
        LogoutRead,
         LogoutRevoke, vars

LEMMA TypeStep ==
  ASSUME TypeInv, [Next]_vars PROVE TypeInv'
  BY TableTypesStep, RequestTypesStep, OtherTypesStep, TypePartsPrimed

\* Types, and what TypeOK says of a request past a statement, for every number of
\* request slots and rows (refresh.go, auth.go).
THEOREM TypeCorrect == Spec => []TypeOK
<1>1. Init => TypeInv
  BY TypeInit
<1>2. TypeInv /\ [Next]_vars => TypeInv'
  BY TypeStep
<1> QED
  BY <1>1, <1>2, PTL DEF Spec, TypeInv
-----------------------------------------------------------------------------
(* Chains of rotations *)

\* What every step keeps of the rows that are there: nothing is unrevoked and no
\* row is created twice.
LEMMA RowsKept ==
  ASSUME TypeInv, [Next]_vars
  PROVE  /\ Rows \subseteq Rows' /\ revoked \subseteq revoked'
         /\ \A t \in Rows : parent'[t] = parent[t] /\ session'[t] = session[t]
<1>1. TableTypes /\ RequestTypes /\ OtherTypes /\ issued \in Nat
  BY TypeParts, IssuedGrows
<1>2. CASE UNCHANGED tableVars
  BY <1>2 DEF tableVars, Rows
<1>3. ASSUME NEW c \in Callers, RevokeAll(c) \/ RevokeParent(c) \/ LogoutRevoke(c)
      PROVE  revoked \subseteq revoked' /\ UNCHANGED <<issued, parent, session>>
  BY <1>1, <1>3 DEF RevokeAll, RevokeParent, LogoutRevoke, TableTypes
<1>4. ASSUME NEW c \in Callers, Issue(c)
      PROVE  /\ Rows \subseteq Rows' /\ revoked' = revoked
             /\ \A t \in Rows : parent'[t] = parent[t] /\ session'[t] = session[t]
  BY <1>1, <1>4 DEF Issue, TableTypes, Rows, Tokens
<1> QED
  BY <1>2, <1>3, <1>4, StepCases
     DEF Step, SendLogin, SendWithCookie, ReadRow, IssueFails, LoginFails, UnknownUser,
        LogoutRead,
         AnswerOk, AnswerCleared, Lost, KeepsCookie, vars, Rows

LEMMA NextRows ==
  ASSUME TypeInv, [Next]_vars
  PROVE  Rows' \subseteq Tokens /\ replacedBy' \in [Tokens -> 0..issued']
<1>1. TableTypes'
  BY TypeStep, TypePartsPrimed
<1> QED
  BY <1>1, TokenAssumption DEF TableTypes, Rows, Tokens

ChainInv == ChainIsTruthful /\ LinkInv

LEMMA LinkStep ==
  ASSUME TypeInv, LinkInv, [Next]_vars PROVE LinkInv'
<1>1. TableTypes /\ RequestTypes /\ OtherTypes /\ issued \in Nat
  BY TypeParts, IssuedGrows
<1>2. ASSUME NEW d \in Callers, pc[d] = "issued",
             presented'[d] = presented[d], child'[d] = child[d]
      PROVE  parent'[child'[d]] = presented'[d]
  <2>1. child[d] \in Rows
    BY <1>1, <1>2 DEF RequestTypes, Rows, None
  <2> QED
    BY <1>2, <2>1, RowsKept DEF LinkInv
<1>3. ASSUME NEW c \in Callers, Issue(c) PROVE LinkInv'
  <2>1. /\ issued' = issued + 1 /\ issued + 1 \in Tokens
        /\ parent' = [parent EXCEPT ![issued + 1] = presented[c]]
        /\ child' = [child EXCEPT ![c] = issued + 1]
        /\ presented' = presented
    BY <1>1, <1>3, TokenAssumption DEF Issue, TableTypes, Tokens
  <2>3. \A d \in Callers \ {c} : pc'[d] = pc[d]
    BY <1>1, <1>3 DEF Issue, Goto, RequestTypes
  <2>2. parent'[child'[c]] = presented'[c]
    BY <1>1, <2>1 DEF TableTypes, RequestTypes
  <2> QED
    BY <1>1, <1>2, <2>1, <2>2, <2>3 DEF LinkInv, RequestTypes
<1>4. ASSUME NEW c \in Callers, ~Issue(c),
             \/ SendLogin(c) \/ SendWithCookie(c) \/ ReadRow(c) \/ RevokeAll(c)
             \/ IssueFails(c) \/ RevokeParent(c) \/ UnknownUser(c) \/ LogoutRead(c)
             \/ LogoutRevoke(c) \/ AnswerOk(c) \/ AnswerCleared(c) \/ Lost(c)
      PROVE  LinkInv'
  <2>1. pc'[c] # "issued"
    BY <1>1, <1>4
       DEF SendLogin, SendWithCookie, ReadRow, RevokeAll, IssueFails, LoginFails,
          RevokeParent,
            UnknownUser,
       LogoutRead, LogoutRevoke, AnswerOk, AnswerCleared, Lost, KeepsCookie, Done, Goto,
       RequestTypes
  <2>2. ASSUME NEW d \in Callers, d # c
        PROVE  pc'[d] = pc[d] /\ presented'[d] = presented[d] /\ child'[d] = child[d]
    BY <1>1, <1>4, <2>2 DEF SendLogin, SendWithCookie, ReadRow, RevokeAll, IssueFails,
       LoginFails,
       RevokeParent, UnknownUser, LogoutRead, LogoutRevoke, AnswerOk, AnswerCleared,
       Lost, KeepsCookie,
       Done, Goto, RequestTypes
  <2> QED
    BY <1>2, <2>1, <2>2 DEF LinkInv
<1>5. CASE UNCHANGED vars
  BY <1>2, <1>5 DEF LinkInv, vars, requestVars
<1> QED
  BY <1>3, <1>4, <1>5, StepCases DEF Step

LEMMA ChainStep ==
  ASSUME TypeInv, ChainInv, [Next]_vars PROVE ChainIsTruthful'
<1>1. TableTypes /\ RequestTypes /\ OtherTypes /\ issued \in Nat
  BY TypeParts, IssuedGrows
<1>2. /\ Rows \subseteq Rows' /\ revoked \subseteq revoked'
      /\ \A t \in Rows : parent'[t] = parent[t]
  BY RowsKept
<1>3. ASSUME NEW t \in Rows', replacedBy'[t] = replacedBy[t], replacedBy'[t] # None
      PROVE  t \in revoked' /\ parent'[replacedBy'[t]] = t
  <2>1. t \in Tokens /\ replacedBy[t] \in Rows
    BY <1>1, <1>3, NextRows DEF TableTypes, Rows, None
  <2>2. t \in Rows
    BY <1>1, <1>3, <2>1 DEF TableTypes, RowInv
  <2> QED
    BY <1>2, <1>3, <2>1, <2>2 DEF ChainInv, ChainIsTruthful
<1>4. CASE replacedBy' = replacedBy
  BY <1>3, <1>4 DEF ChainIsTruthful
<1>5. ASSUME NEW c \in Callers, RevokeParent(c), replacedBy' # replacedBy
      PROVE  ChainIsTruthful'
  <2>1. /\ replacedBy' = [replacedBy EXCEPT ![presented[c]] = child[c]]
        /\ presented[c] \in revoked' /\ pc[c] = "issued"
        /\ parent' = parent
    BY <1>5 DEF RevokeParent
  <2>2. parent'[child[c]] = presented[c]
    BY <2>1 DEF ChainInv, LinkInv
  <2>3. ASSUME NEW t \in Rows', replacedBy'[t] # None
        PROVE  t \in revoked' /\ parent'[replacedBy'[t]] = t
    <3>1. CASE t = presented[c]
      <4>1. t \in Tokens
        BY <2>3, NextRows
      <4>2. replacedBy'[t] = child[c]
        BY <1>1, <2>1, <3>1, <4>1 DEF TableTypes
      <4> QED
        BY <2>1, <2>2, <3>1, <4>2
    <3>2. CASE t # presented[c]
      BY <1>1, <1>3, <2>1, <2>3, <3>2 DEF TableTypes
    <3> QED
      BY <3>1, <3>2
  <2> QED
    BY <2>3 DEF ChainIsTruthful
<1>6. ASSUME NEW c \in Callers, LogoutRevoke(c), replacedBy' # replacedBy
      PROVE  ChainIsTruthful'
  <2>1. replacedBy' = [replacedBy EXCEPT ![presented[c]] = None]
    BY <1>6 DEF LogoutRevoke
  <2>2. presented[c] \in DOMAIN replacedBy => replacedBy'[presented[c]] = None
    BY <1>1, <2>1 DEF TableTypes
  <2>3. ASSUME NEW t \in Rows', replacedBy'[t] # None
        PROVE  t \in revoked' /\ parent'[replacedBy'[t]] = t
    <3>1. t \in Tokens
      BY <2>3, NextRows
    <3>2. t # presented[c]
      BY <1>1, <2>2, <2>3, <3>1 DEF TableTypes
    <3> QED
      BY <1>1, <1>3, <2>1, <2>3, <3>2 DEF TableTypes
  <2> QED
    BY <2>3 DEF ChainIsTruthful
<1> QED
  BY <1>4, <1>5, <1>6, StepCases
     DEF Step, SendLogin, SendWithCookie, ReadRow, RevokeAll, Issue, IssueFails,
        LoginFails,
          UnknownUser,
         LogoutRead, AnswerOk, AnswerCleared, Lost, KeepsCookie, vars, tableVars

\* In every interleaving of rotations, logouts, failures and alarms only revoked
\* rows name a replacement, and it was made from that very row (refresh.go,
\* Rotate).
THEOREM ChainsAreTruthful == Spec => []ChainIsTruthful
<1>1. Init => TypeInv /\ ChainInv
  BY TypeInit DEF Init, ChainInv, ChainIsTruthful, LinkInv, Rows, Tokens, None
<1>2. TypeInv /\ ChainInv /\ [Next]_vars => (TypeInv /\ ChainInv)'
  BY TypeStep, ChainStep, LinkStep DEF ChainInv
<1> QED
  BY <1>1, <1>2, PTL DEF Spec, ChainInv
-----------------------------------------------------------------------------
(* Alarms *)

\* The other callers stay where they are.
LEMMA OthersStay ==
  ASSUME TypeInv, NEW c \in Callers, Step(c), NEW d \in Callers \ {c}
  PROVE  pc'[d] = pc[d] /\ presented'[d] = presented[d] /\ child'[d] = child[d]
<1>1. RequestTypes
  BY TypeParts
<1> QED
  BY <1>1 DEF Step, SendLogin, SendWithCookie, ReadRow, RevokeAll, Issue, IssueFails,
     LoginFails,
     RevokeParent, UnknownUser, LogoutRead, LogoutRevoke, AnswerOk, AnswerCleared, Lost,
     KeepsCookie,
     Done, Goto, RequestTypes

\* What Issue makes: a live row, whose session is that of the presented cookie or
\* itself.
LEMMA IssuedRow ==
  ASSUME TypeInv, NEW c \in Callers, Issue(c)
  PROVE  /\ issued + 1 \in Tokens /\ issued + 1 \notin Rows
         /\ Rows' = Rows \cup {issued + 1} /\ revoked' = revoked
         /\ issued + 1 \notin revoked
         /\ child'[c] = issued + 1 /\ presented'[c] = presented[c]
         /\ session'[issued + 1] =
              IF presented[c] = None THEN issued + 1 ELSE session[presented[c]]
         /\ \A t \in Rows : session'[t] = session[t]
<1>1. TableTypes /\ RequestTypes /\ issued \in Nat
  BY TypeParts, TokenAssumption DEF TableTypes
<1>2. /\ issued < MaxTokens /\ issued' = issued + 1 /\ revoked' = revoked
      /\ session' = [session EXCEPT ![issued + 1] =
                       IF presented[c] = None THEN issued + 1 ELSE session[presented[c]]]
      /\ child' = [child EXCEPT ![c] = issued + 1] /\ presented' = presented
  BY DEF Issue
<1>3. issued + 1 \in Tokens /\ issued + 1 \notin Rows /\ Rows' = Rows \cup {issued + 1}
  BY <1>1, <1>2, TokenAssumption DEF Rows, Tokens
<1>4. child'[c] = issued + 1 /\ issued + 1 \notin revoked
  BY <1>1, <1>2, <1>3 DEF RequestTypes, TableTypes
<1>5. session'[issued + 1] =
        IF presented[c] = None THEN issued + 1 ELSE session[presented[c]]
  BY <1>1, <1>2, <1>3 DEF TableTypes
<1>6. \A t \in Rows : session'[t] = session[t]
  BY <1>1, <1>2, <1>3 DEF TableTypes
<1> QED
  BY <1>2, <1>3, <1>4, <1>5, <1>6

AlarmInv == AlarmEndsSessions /\ PassedInv

LEMMA AlarmStep ==
  ASSUME TypeInv, AlarmInv, NEW c \in Callers, Step(c) PROVE AlarmEndsSessions'
<1>1. TableTypes /\ RequestTypes /\ OtherTypes /\ [Next]_vars
  BY TypeParts DEF Step, Next
<1>2. CASE UNCHANGED <<issued, revoked, session, cutoff, late>>
  BY <1>2 DEF AlarmInv, AlarmEndsSessions, Live, Rows
<1>3. CASE RevokeAll(c)
  <2>1. \/ revoked' = Rows /\ issued' = issued
        \/ UNCHANGED <<issued, revoked, session, cutoff, late>>
    BY <1>3 DEF RevokeAll
  <2> QED
    BY <1>2, <2>1 DEF AlarmEndsSessions, Live, Rows
<1>4. CASE RevokeParent(c) \/ LogoutRevoke(c)
  <2>1. revoked \subseteq revoked' /\ UNCHANGED <<issued, session, cutoff, late>>
    BY <1>4 DEF RevokeParent, LogoutRevoke, alarmVars
  <2> QED
    BY <2>1 DEF AlarmInv, AlarmEndsSessions, Live, Rows
<1>5. CASE Issue(c)
  <2>1. /\ cutoff' = cutoff /\ pc[c] \in {"login", "valid"}
        /\ late' = IF c \in stale \/ presented[c] \in late THEN late \cup {issued + 1}
                   ELSE late
    BY <1>5 DEF Issue
  <2>2. ASSUME NEW t \in Live', session'[t] <= cutoff PROVE t \in late'
    <3>1. CASE t \in Rows
      <4>1. t \in Live /\ session[t] <= cutoff
        BY <1>5, <2>2, <3>1, IssuedRow DEF Live
      <4> QED
        BY <2>1, <4>1 DEF AlarmInv, AlarmEndsSessions
    <3>2. CASE t = issued + 1
      <4>1. session'[t] # t
        BY <1>1, <2>2, <3>2, TokenAssumption DEF OtherTypes, TableTypes
      <4>2. presented[c] # None /\ session'[t] = session[presented[c]]
        BY <1>5, <3>2, <4>1, IssuedRow
      <4>3. pc[c] = "valid"
        BY <1>1, <2>1, <4>2 DEF RequestTypes
      <4> QED
        BY <2>1, <2>2, <3>2, <4>2, <4>3 DEF AlarmInv, PassedInv
    <3> QED
      BY <1>5, <2>2, <3>1, <3>2, IssuedRow DEF Live
  <2> QED
    BY <2>1, <2>2 DEF AlarmEndsSessions
<1> QED
  BY <1>2, <1>3, <1>4, <1>5
     DEF Step, SendLogin, SendWithCookie, ReadRow, IssueFails, LoginFails, UnknownUser,
        LogoutRead,
         AnswerOk, AnswerCleared, Lost, KeepsCookie, tableVars, alarmVars

LEMMA PassedStep ==
  ASSUME TypeInv, AlarmInv, NEW c \in Callers, Step(c) PROVE PassedInv'
<1>1. TableTypes /\ RequestTypes /\ OtherTypes /\ [Next]_vars
  BY TypeParts DEF Step, Next
<1>2. \A d \in Callers : pc[d] = "valid" => presented[d] \in Rows
  BY <1>1 DEF RequestTypes, Rows, None
<1>3. CASE pc'[c] = "valid"
  <2>1. ReadRow(c)
    BY <1>1, <1>3 DEF Step, SendLogin, SendWithCookie, RevokeAll, Issue, IssueFails,
       LoginFails,
       RevokeParent, UnknownUser, LogoutRead, LogoutRevoke, AnswerOk, AnswerCleared,
       Lost, KeepsCookie,
       Done, Goto, RequestTypes
  <2>2. presented[c] \in Live /\ UNCHANGED <<presented, session, cutoff, late, stale>>
    BY <1>1, <1>3, <2>1
       DEF ReadRow, Goto, RequestTypes, Live, Rows, None, tableVars, alarmVars
  <2>3. session[presented[c]] <= cutoff => presented[c] \in late
    BY <2>2 DEF AlarmInv, AlarmEndsSessions
  <2>4. \A d \in Callers \ {c} : pc'[d] = pc[d]
    BY OthersStay
  <2> QED
    BY <2>2, <2>3, <2>4 DEF AlarmInv, PassedInv
<1>4. CASE pc'[c] # "valid"
  <2>1. ASSUME NEW d \in Callers \ {c}, pc[d] = "valid", session'[presented[d]] <= cutoff'
        PROVE  d \in stale' \/ presented[d] \in late'
    <3>1. session'[presented[d]] = session[presented[d]]
      BY <1>1, <1>2, <2>1, RowsKept
    <3>2. CASE UNCHANGED <<cutoff, late>> /\ stale \ {c} \subseteq stale'
      BY <2>1, <3>1, <3>2 DEF AlarmInv, PassedInv
    <3>3. CASE Issue(c)
      BY <2>1, <3>1, <3>3 DEF AlarmInv, PassedInv, Issue
    <3>4. CASE RevokeAll(c)
      BY <2>1, <3>1, <3>4 DEF AlarmInv, PassedInv, RevokeAll
    <3> QED
      BY <3>2, <3>3, <3>4
         DEF Step, SendLogin, SendWithCookie, ReadRow, IssueFails, LoginFails,
            RevokeParent,
             UnknownUser, LogoutRead, LogoutRevoke, AnswerOk, AnswerCleared, Lost,
             KeepsCookie,
              Done, alarmVars
  <2> QED
    BY <1>4, <2>1, OthersStay DEF PassedInv
<1> QED
  BY <1>3, <1>4

LEMMA AlarmInvStep ==
  ASSUME TypeInv, AlarmInv, [Next]_vars PROVE AlarmInv'
<1>1. CASE UNCHANGED vars
  BY <1>1 DEF vars, tableVars, requestVars, alarmVars, AlarmInv, AlarmEndsSessions,
     PassedInv, Live, Rows
<1>2. ASSUME NEW c \in Callers, Step(c) PROVE AlarmInv'
  BY <1>2, AlarmStep, PassedStep DEF AlarmInv
<1> QED
  BY <1>1, <1>2, StepCases

\* Once the reuse of a token has revoked everything, the only valid tokens of
\* sessions from before come from rotations that had read their row before
\* (refresh.go, Rotate: the check and RevokeAllUserRefreshTokens are separate
\* statements).
THEOREM AlarmsEndSessions == Spec => []AlarmEndsSessions
<1>1. Init => TypeInv /\ AlarmInv
  BY TypeInit DEF Init, AlarmInv, AlarmEndsSessions, PassedInv, Live, Rows
<1>2. TypeInv /\ AlarmInv /\ [Next]_vars => (TypeInv /\ AlarmInv)'
  BY TypeStep, AlarmInvStep
<1> QED
  BY <1>1, <1>2, PTL DEF Spec, AlarmInv
-----------------------------------------------------------------------------
(* Undisturbed sessions *)

\* What the proofs below need of the types.
LEMMA Numbers ==
  ASSUME TypeInv
  PROVE  /\ \A t \in Rows : session[t] \in Rows
         /\ jar # None => jar \in Rows
         /\ \A c \in Callers :
              /\ presented[c] # None => presented[c] \in Rows
              /\ Made(c) => child[c] \in Rows
              /\ pc[c] \in {"idle", "login"} => presented[c] = None
         /\ held \subseteq Rows /\ revoked \subseteq Rows /\ None \notin Rows
<1>1. TableTypes /\ RequestTypes /\ OtherTypes
  BY TypeParts
<1> QED
  BY <1>1 DEF TableTypes, RequestTypes, OtherTypes, RowInv, Made, Rows, None

\* A step of c that moves it between two states and touches nothing else.
LEMMA SessionInvOfMove ==
  ASSUME TypeInv, SessionInv, NEW c \in Callers,
         UNCHANGED <<tableVars, jar, presented, child, held, disturbed>>,
         \A d \in Callers \ {c} : pc'[d] = pc[d],
         pc[c] = "idle" \/ pc'[c] = "idle" => presented[c] = None,
         pc'[c] \in {"login", "idle", "failed", "out", "valid", "reuse", "leaving"},
         pc'[c] = "valid" => pc[c] = "refresh",
         pc'[c] = "reuse" => pc[c] = "refresh" /\ presented[c] \in revoked,
         pc'[c] = "leaving" => pc[c] = "logout"
  PROVE  SessionInv'
<1>1. UNCHANGED <<issued, revoked, session, Rows, Live>>
  BY DEF tableVars, Rows, Live
<1>2. \A d \in Callers : \A s : Presents(d, s)' <=> Presents(d, s)
  BY <1>1 DEF Presents
<1>3. \A d \in Callers : Made(d)' => Made(d) /\ d # c
  BY DEF Made
<1>4. SecretInv'
  BY <1>3 DEF SessionInv, SecretInv
<1>5. HeirInv'
  BY <1>1, <1>3 DEF SessionInv, HeirInv
<1>6. AloneInv' /\ UniqueInv' /\ JarInv'
  BY <1>1, <1>2 DEF SessionInv, AloneInv, UniqueInv, JarInv
<1>7. RequestInv'
  BY <1>1, <1>3 DEF SessionInv, RequestInv, Live
<1> QED
  BY <1>4, <1>5, <1>6, <1>7 DEF SessionInv

LEMMA SessionInvOfSend ==
  ASSUME TypeInv, SessionInv, NEW c \in Callers, SendWithCookie(c) PROVE SessionInv'
<1>1. /\ pc[c] = "idle" /\ jar \in Rows /\ jar # None /\ jar \in held
      /\ pc'[c] \in {"refresh", "logout"} /\ presented'[c] = jar
      /\ disturbed' = disturbed \cup Overlaps(c)
      /\ UNCHANGED <<Rows, revoked, Live, session, jar, child, held>>
  BY TypeParts, Numbers
     DEF SendWithCookie, Goto, RequestTypes, SessionInv, SecretInv, tableVars, Rows, Live
<1>2. \A d \in Callers \ {c} : pc'[d] = pc[d] /\ presented'[d] = presented[d]
  BY OthersStay DEF Step
<1>3. \A s : ~Presents(c, s) /\ (Presents(c, s)' => s = session[jar])
  BY <1>1 DEF Presents
<1>4. \A d \in Callers \ {c} : \A s : Presents(d, s)' <=> Presents(d, s)
  BY <1>1, <1>2 DEF Presents
<1>5. \A d \in Callers \ {c} : Presents(d, session[jar]) => session[jar] \in disturbed'
  BY <1>1 DEF Presents, Overlaps
<1>6. session[jar] \notin disturbed' => jar \in Live
  BY <1>1, <1>3, <1>5 DEF SessionInv, JarInv
<1>7. \A d \in Callers : Made(d)' <=> Made(d) /\ d # c
  BY <1>1, <1>2 DEF Made
<1>8. SecretInv'
  BY <1>1, <1>2, <1>7 DEF SessionInv, SecretInv
<1>9. HeirInv'
  BY <1>1, <1>2, <1>7 DEF SessionInv, HeirInv
<1>10. AloneInv'
  BY <1>1, <1>3, <1>4, <1>5 DEF SessionInv, AloneInv
<1>11. JarInv'
  BY <1>1, <1>3, <1>4, <1>5 DEF JarInv, Presents
<1>12. RequestInv'
  BY <1>1, <1>2, <1>6, <1>7 DEF SessionInv, RequestInv
<1>13. UniqueInv'
  <2>1. ASSUME NEW t \in Live \cap held, session[t] = session[jar],
               session[t] \notin disturbed'
        PROVE  t = jar
    BY <1>1, <1>6, <2>1 DEF SessionInv, UniqueInv
  <2>2. ASSUME NEW t \in Live \cap held, session[t] \notin disturbed', NEW d \in Callers,
               Presents(d, session[t])'
        PROVE  presented'[d] = t
    BY <1>1, <1>2, <1>3, <1>4, <2>1, <2>2 DEF SessionInv, UniqueInv
  <2> QED
    BY <1>1, <2>2 DEF SessionInv, UniqueInv
<1> QED
  BY <1>8, <1>9, <1>10, <1>11, <1>12, <1>13 DEF SessionInv

LEMMA SessionInvOfAlarm ==
  ASSUME TypeInv, SessionInv, NEW c \in Callers, RevokeAll(c), revoked' = Rows,
         disturbed' = disturbed \cup {session[t] : t \in Live}
  PROVE  SessionInv'
<1>1. /\ pc[c] = "reuse" /\ pc'[c] = "failed" /\ Live' = {}
      /\ UNCHANGED <<Rows, session, jar, presented, child, held>>
  BY TypeParts DEF RevokeAll, Goto, RequestTypes, Rows, Live
<1>2. \A d \in Callers \ {c} : pc'[d] = pc[d]
  BY OthersStay DEF Step
<1>3. \A d \in Callers : \A s : Presents(d, s)' <=> Presents(d, s)
  BY <1>1, <1>2 DEF Presents
<1>4. \A d \in Callers : Made(d)' <=> Made(d)
  BY <1>1, <1>2 DEF Made
<1>5. \A t \in Live : session[t] \in disturbed'
  OBVIOUS
<1>6. SecretInv' /\ HeirInv' /\ AloneInv' /\ UniqueInv'
  BY <1>1, <1>3, <1>4 DEF SessionInv, SecretInv, HeirInv, AloneInv, UniqueInv
<1>7. JarInv'
  BY <1>1, <1>3, <1>5 DEF SessionInv, JarInv
<1>8. RequestInv'
  BY <1>1, <1>2, <1>4, <1>5, Numbers DEF SessionInv, RequestInv
<1> QED
  BY <1>6, <1>7, <1>8 DEF SessionInv

LEMMA SessionInvOfIssue ==
  ASSUME TypeInv, SessionInv, NEW c \in Callers, Issue(c) PROVE SessionInv'
<1> DEFINE n == issued + 1
<1>1. /\ n \notin Rows /\ Rows' = Rows \cup {n} /\ revoked' = revoked /\ n \notin revoked
      /\ child'[c] = n /\ presented' = presented
      /\ session'[n] = IF presented[c] = None THEN n ELSE session[presented[c]]
      /\ \A t \in Rows : session'[t] = session[t]
  BY IssuedRow DEF Issue
<1> HIDE DEF n
<1>2. /\ pc[c] \in {"login", "valid"} /\ UNCHANGED <<jar, held, disturbed>>
      /\ pc'[c] = IF pc[c] = "login" THEN "ok" ELSE "issued"
  BY TypeParts DEF Issue, Goto, RequestTypes
<1>3. \A d \in Callers \ {c} : pc'[d] = pc[d] /\ child'[d] = child[d]
  BY OthersStay DEF Step
<1>4. Live' = Live \cup {n}
  BY <1>1 DEF Live
<1>5. \A d \in Callers : \A s : Presents(d, s)' <=> Presents(d, s)
  BY <1>1, <1>2, <1>3, Numbers DEF Presents
<1>6. Made(c)' /\ ~Made(c) /\ \A d \in Callers \ {c} : Made(d)' <=> Made(d)
  BY <1>2, <1>3 DEF Made
<1>7. SecretInv'
  BY <1>1, <1>2, <1>3, <1>6, Numbers DEF SessionInv, SecretInv
<1>8. HeirInv'
  <2>1. CASE presented[c] # None
    <3>1. session'[n] = session'[presented[c]]
      BY <1>1, <2>1, Numbers
    <3>2. ASSUME NEW d \in Callers \ {c}, Made(d), presented[d] = None
          PROVE  session[presented[c]] # session[child[d]]
      BY <2>1, <3>2, Numbers DEF SessionInv, HeirInv, SecretInv
    <3> QED
      BY <1>1, <1>3, <1>6, <2>1, <3>1, <3>2, Numbers DEF SessionInv, HeirInv
  <2>2. CASE presented[c] = None
    BY <1>1, <1>3, <1>6, <2>2, Numbers DEF SessionInv, HeirInv
  <2> QED
    BY <2>1, <2>2
<1>9. AloneInv'
  <2>1. \A d \in Callers : ~Presents(d, n)
    BY <1>1, Numbers DEF Presents
  <2> QED
    BY <1>1, <1>2, <1>5, <2>1 DEF SessionInv, AloneInv
<1>10. JarInv'
  BY <1>1, <1>2, <1>4, <1>5, Numbers DEF SessionInv, JarInv
<1>11. RequestInv'
  BY <1>1, <1>2, <1>3, <1>4, <1>6, Numbers DEF SessionInv, RequestInv
<1>12. UniqueInv'
  BY <1>1, <1>2, <1>4, <1>5, Numbers DEF SessionInv, UniqueInv
<1> QED
  BY <1>7, <1>8, <1>9, <1>10, <1>11, <1>12 DEF SessionInv

\* RevokeParent and LogoutRevoke when they succeed.
LEMMA SessionInvOfRevoke ==
  ASSUME TypeInv, SessionInv, NEW c \in Callers,
         revoked' = revoked \cup {presented[c]}, presented[c] # None,
         \/ pc[c] = "issued" /\ pc'[c] = "ok"
         \/ pc[c] = "leaving" /\ pc'[c] = "out",
         \A d \in Callers \ {c} : pc'[d] = pc[d],
         UNCHANGED <<issued, session, jar, presented, child, held, disturbed>>
  PROVE  SessionInv'
<1>1. Rows' = Rows /\ Live' = Live \ {presented[c]}
  BY DEF Rows, Live
<1>2. \A d \in Callers : \A s : Presents(d, s)' <=> Presents(d, s)
  BY DEF Presents
<1>3. \A d \in Callers : Made(d)' <=> Made(d)
  BY DEF Made
<1>4. Presents(c, session[presented[c]])
  BY DEF Presents
<1>5. SecretInv' /\ HeirInv' /\ AloneInv' /\ UniqueInv'
  BY <1>1, <1>2, <1>3 DEF SessionInv, SecretInv, HeirInv, AloneInv, UniqueInv
<1>6. JarInv'
  BY <1>1, <1>2, <1>4 DEF SessionInv, JarInv
<1>7. ASSUME NEW d \in Callers, Made(d) PROVE child[d] # presented[c]
  BY <1>7 DEF SessionInv, SecretInv
<1>8. ASSUME NEW d \in Callers \ {c}, presented[d] # None, pc[d] # "idle",
             session[presented[d]] \notin disturbed
      PROVE  presented[d] # presented[c]
  BY <1>4, <1>8, Numbers DEF SessionInv, AloneInv, Presents
<1>9. RequestInv'
  BY <1>1, <1>3, <1>7, <1>8 DEF SessionInv, RequestInv
<1> QED
  BY <1>5, <1>6, <1>9 DEF SessionInv

\* A request that ends presents nothing any more.
LEMMA EndedPresents ==
  ASSUME TypeInv, NEW c \in Callers, Done(c), session' = session,
         \A d \in Callers \ {c} : pc'[d] = pc[d] /\ presented'[d] = presented[d]
  PROVE  /\ \A s : ~Presents(c, s)'
         /\ \A d \in Callers \ {c} : \A s : Presents(d, s)' <=> Presents(d, s)
         /\ pc'[c] = "idle" /\ presented'[c] = None /\ ~Made(c)'
  BY TypeParts DEF Done, Goto, Presents, RequestTypes, Made

LEMMA SessionInvOfOk ==
  ASSUME TypeInv, SessionInv, NEW c \in Callers, AnswerOk(c) PROVE SessionInv'
<1>1. /\ pc[c] = "ok" /\ Made(c) /\ Done(c)
      /\ jar' = child[c] /\ held' = held \cup {child[c]}
      /\ UNCHANGED <<Rows, Live, revoked, session, disturbed>>
  BY DEF AnswerOk, Made, tableVars, Rows, Live
<1>2. \A d \in Callers \ {c} :
        pc'[d] = pc[d] /\ presented'[d] = presented[d] /\ child'[d] = child[d]
  BY OthersStay DEF Step
<1>3. /\ \A s : ~Presents(c, s)'
      /\ \A d \in Callers \ {c} : \A s : Presents(d, s)' <=> Presents(d, s)
      /\ presented'[c] = None /\ pc'[c] = "idle" /\ ~Made(c)'
  BY <1>1, <1>2, EndedPresents
<1>4. \A d \in Callers \ {c} : Made(d)' <=> Made(d)
  BY <1>2 DEF Made
<1>5. child[c] \in Rows /\ session[child[c]] \in Rows
  BY <1>1, Numbers
<1>6. ASSUME NEW d \in Callers \ {c}, session[child[c]] \notin disturbed
      PROVE  ~Presents(d, session[child[c]])
  <2>1. CASE presented[c] # None
    <3>1. Presents(c, session[child[c]])
      BY <1>1, <2>1 DEF SessionInv, HeirInv, Presents
    <3> QED
      BY <1>5, <1>6, <3>1 DEF SessionInv, AloneInv
  <2>2. CASE presented[c] = None
    BY <1>1, <2>2, Numbers DEF SessionInv, HeirInv, SecretInv, Presents
  <2> QED
    BY <2>1, <2>2
<1>7. ASSUME NEW t \in Live \cap held, session[t] = session[child[c]],
             session[t] \notin disturbed
      PROVE  t = child[c]
  <2>1. CASE presented[c] # None
    <3>1. Presents(c, session[t]) /\ presented[c] \in revoked
      BY <1>1, <1>7, <2>1 DEF SessionInv, HeirInv, Presents, RequestInv
    <3> QED
      BY <1>7, <3>1 DEF SessionInv, UniqueInv, Live
  <2>2. CASE presented[c] = None
    BY <1>1, <1>7, <2>2 DEF SessionInv, HeirInv, Live
  <2> QED
    BY <2>1, <2>2
<1>8. SecretInv'
  BY <1>1, <1>2, <1>3, <1>4 DEF SessionInv, SecretInv
<1>9. HeirInv'
  BY <1>1, <1>2, <1>3, <1>4 DEF SessionInv, HeirInv
<1>10. AloneInv'
  BY <1>1, <1>3 DEF SessionInv, AloneInv
<1>11. JarInv'
  BY <1>1, <1>3, <1>6 DEF SessionInv, JarInv, RequestInv
<1>12. RequestInv'
  BY <1>1, <1>2, <1>3, <1>4 DEF SessionInv, RequestInv
<1>13. UniqueInv'
  <2>1. ASSUME NEW t \in Live \cap held', NEW u \in Live \cap held',
               session[t] = session[u], session[t] \notin disturbed
        PROVE  t = u
    BY <1>1, <1>7, <2>1 DEF SessionInv, UniqueInv
  <2>2. ASSUME NEW t \in Live \cap held', session[t] \notin disturbed, NEW d \in Callers,
               Presents(d, session[t])'
        PROVE  presented'[d] = t
    <3>1. d # c /\ Presents(d, session[t])
      BY <1>1, <1>3, <2>2
    <3>2. t \in held
      BY <1>1, <1>6, <2>2, <3>1
    <3> QED
      BY <1>2, <2>2, <3>1, <3>2 DEF SessionInv, UniqueInv
  <2> QED
    BY <1>1, <2>1, <2>2 DEF UniqueInv
<1> QED
  BY <1>8, <1>9, <1>10, <1>11, <1>12, <1>13 DEF SessionInv

LEMMA SessionInvOfEnd ==
  ASSUME TypeInv, SessionInv, NEW c \in Callers, AnswerCleared(c) \/ Lost(c)
  PROVE  SessionInv'
<1>1. /\ Done(c) /\ UNCHANGED <<Rows, Live, revoked, session, held>>
      /\ disturbed \subseteq disturbed'
  BY DEF AnswerCleared, Lost, KeepsCookie, tableVars, Rows, Live
<1>2. \A d \in Callers \ {c} :
        pc'[d] = pc[d] /\ presented'[d] = presented[d] /\ child'[d] = child[d]
  BY OthersStay DEF Step
<1>3. /\ \A s : ~Presents(c, s)'
      /\ \A d \in Callers \ {c} : \A s : Presents(d, s)' <=> Presents(d, s)
      /\ presented'[c] = None /\ pc'[c] = "idle" /\ ~Made(c)'
  BY <1>1, <1>2, EndedPresents
<1>4. \A d \in Callers \ {c} : Made(d)' <=> Made(d)
  BY <1>2 DEF Made
<1>5. jar' = None \/ (jar' = jar /\ Lost(c))
  BY DEF AnswerCleared, Lost, KeepsCookie
<1>6. SecretInv'
  BY <1>1, <1>2, <1>3, <1>4, <1>5 DEF SessionInv, SecretInv
<1>7. HeirInv'
  BY <1>1, <1>2, <1>3, <1>4 DEF SessionInv, HeirInv
<1>8. AloneInv'
  BY <1>1, <1>3 DEF SessionInv, AloneInv
<1>12. UniqueInv'
  <2>1. ASSUME NEW t \in Live \cap held, session[t] \notin disturbed', NEW d \in Callers,
               Presents(d, session[t])'
        PROVE  presented'[d] = t
    BY <1>1, <1>2, <1>3, <2>1 DEF SessionInv, UniqueInv
  <2> QED
    BY <1>1, <2>1 DEF SessionInv, UniqueInv
<1>9. RequestInv'
  BY <1>1, <1>2, <1>3, <1>4 DEF SessionInv, RequestInv
<1>10. ASSUME jar' = jar, Lost(c), jar # None, session[jar] \notin disturbed'
       PROVE  JarInv'
  <2>0. \A d \in Callers : Presents(d, session[jar])' => presented'[d] = jar
    BY <1>1, <1>2, <1>3, <1>10 DEF SessionInv, JarInv
  <2>1. CASE Presents(c, session[jar])
    <3>1. presented[c] = jar
      BY <1>1, <1>10, <2>1 DEF SessionInv, JarInv
    <3>2. jar \in Live
      BY <1>10, <3>1, Numbers DEF Lost, KeepsCookie, Live
    <3> QED
      BY <1>1, <1>10, <2>0, <3>2 DEF JarInv
  <2>2. CASE ~Presents(c, session[jar])
    <3>1. (\A d \in Callers : ~Presents(d, session[jar])') => jar \in Live
      BY <1>1, <1>3, <1>10, <2>2 DEF SessionInv, JarInv
    <3> QED
      BY <1>1, <1>10, <2>0, <3>1 DEF JarInv
  <2> QED
    BY <2>1, <2>2
<1>11. JarInv'
  BY <1>1, <1>5, <1>10 DEF JarInv
<1> QED
  BY <1>6, <1>7, <1>8, <1>9, <1>11, <1>12 DEF SessionInv

LEMMA SessionInvStep ==
  ASSUME TypeInv, SessionInv, [Next]_vars PROVE SessionInv'
<1>1. CASE UNCHANGED vars
  BY <1>1
     DEF vars, tableVars, requestVars, SessionInv, SecretInv, HeirInv, AloneInv, JarInv,
          RequestInv,
     UniqueInv, Presents, Made, Live, Rows
<1>2. ASSUME NEW c \in Callers, Step(c) PROVE SessionInv'
  <2>1. RequestTypes /\ TableTypes
    BY TypeParts
  <2>2. \A d \in Callers \ {c} : pc'[d] = pc[d]
    BY <1>2, OthersStay
  <2>3. CASE UNCHANGED <<tableVars, jar, presented, child, held, disturbed>>
    <3>1. CASE SendWithCookie(c)
      BY <3>1, SessionInvOfSend
    <3>2. CASE Issue(c)
      BY <3>2, SessionInvOfIssue
    <3>3. CASE AnswerOk(c) \/ AnswerCleared(c) \/ Lost(c)
      BY <3>3, SessionInvOfOk, SessionInvOfEnd
    <3>4. CASE SendLogin(c) \/ IssueFails(c) \/ UnknownUser(c) \/ LogoutRead(c)
      BY <2>1, <2>2, <2>3, <3>4, SessionInvOfMove
         DEF SendLogin, IssueFails, LoginFails, UnknownUser, LogoutRead, Goto,
            RequestTypes
    <3>5. CASE ReadRow(c)
      BY <2>1, <2>2, <2>3, <3>5, SessionInvOfMove DEF ReadRow, Goto, RequestTypes
    <3>6. CASE RevokeAll(c)
      BY <2>1, <2>2, <2>3, <3>6, SessionInvOfMove DEF RevokeAll, Goto, RequestTypes
    <3>7. CASE RevokeParent(c) /\ pc'[c] = "failed"
      BY <2>1, <2>2, <2>3, <3>7, SessionInvOfMove DEF RevokeParent, Goto, RequestTypes
    <3>8. CASE RevokeParent(c) /\ pc'[c] = "ok"
      BY <2>1, <2>2, <2>3, <3>8, SessionInvOfRevoke
         DEF RevokeParent, Goto, RequestTypes, tableVars
    <3>9. CASE LogoutRevoke(c)
      BY <2>1, <2>2, <2>3, <3>9, SessionInvOfMove DEF LogoutRevoke, Goto, RequestTypes
    <3>10. RevokeParent(c) => pc'[c] \in {"ok", "failed"}
      BY <2>1 DEF RevokeParent, Goto, RequestTypes
    <3> QED
      BY <1>2, <3>1, <3>2, <3>3, <3>4, <3>5, <3>6, <3>7, <3>8, <3>9, <3>10 DEF Step
  <2>4. CASE SendWithCookie(c) \/ Issue(c) \/ AnswerOk(c) \/ AnswerCleared(c) \/ Lost(c)
    BY <2>4, SessionInvOfSend, SessionInvOfIssue, SessionInvOfOk, SessionInvOfEnd
  <2>5. ASSUME RevokeAll(c),
               ~UNCHANGED <<tableVars, jar, presented, child, held, disturbed>>
        PROVE  SessionInv'
    <3>1. revoked' = Rows /\ disturbed' = disturbed \cup {session[t] : t \in Live}
      BY <2>5 DEF RevokeAll, tableVars
    <3> QED
      BY <2>5, <3>1, SessionInvOfAlarm
  <2>6. ASSUME RevokeParent(c) \/ LogoutRevoke(c),
               ~UNCHANGED <<tableVars, jar, presented, child, held, disturbed>>
        PROVE  SessionInv'
    <3>1. /\ revoked' = revoked \cup {presented[c]}
          /\ \/ pc[c] = "issued" /\ pc'[c] = "ok"
             \/ pc[c] = "leaving" /\ pc'[c] = "out"
          /\ UNCHANGED <<issued, session, jar, presented, child, held, disturbed>>
      BY <2>1, <2>6 DEF RevokeParent, LogoutRevoke, Goto, RequestTypes, tableVars
    <3>2. presented[c] # None
      BY <2>1, <3>1 DEF RequestTypes
    <3> QED
      BY <2>2, <3>1, <3>2, SessionInvOfRevoke
  <2> QED
    BY <1>2, <2>3, <2>4, <2>5, <2>6
       DEF Step, SendLogin, ReadRow, IssueFails, LoginFails, UnknownUser, LogoutRead
<1> QED
  BY <1>1, <1>2, StepCases

LEMMA SessionInvariant == Spec => [](TypeInv /\ SessionInv)
<1>1. Init => TypeInv /\ SessionInv
  BY TypeInit DEF Init, SessionInv, SecretInv, HeirInv, AloneInv, JarInv, RequestInv,
     UniqueInv, Presents, Made, Live, Rows
<1>2. TypeInv /\ SessionInv /\ [Next]_vars => (TypeInv /\ SessionInv)'
  BY TypeStep, SessionInvStep
<1> QED
  BY <1>1, <1>2, PTL DEF Spec

\* Failing statements and answers may cost a browser its cookie, but between
\* requests never leave it a dead one, whose next use would end every session of
\* the user (auth.go, handleRefresh and handleLogout; refresh.go, Rotate).
THEOREM CookiesStayValid == Spec => []CookieStaysValid
<1>1. TypeInv /\ SessionInv => CookieStaysValid
  BY DEF SessionInv, JarInv, CookieStaysValid, Presents
<1> QED
  BY <1>1, SessionInvariant, PTL

\* A set in which any two elements are equal has at most one.
LEMMA AtMostOne ==
  ASSUME NEW S, \A x, y \in S : x = y PROVE Cardinality(S) <= 1
<1>1. CASE S = {}
  BY <1>1, FS_EmptySet
<1>2. ASSUME NEW x \in S PROVE Cardinality(S) <= 1
  <2>1. S = {x}
    BY <1>2
  <2> QED
    BY <2>1, FS_Singleton
<1> QED
  BY <1>1, <1>2

\* Of the tokens of an undisturbed session that the browser has seen at most one
\* is valid, however rotations fail or are abandoned (refresh.go, Rotate).
THEOREM RotationConsumes == Spec => []OneValidToken
<1>1. ASSUME SessionInv, NEW s \in Rows \ disturbed
      PROVE  Cardinality({t \in Live \cap held : session[t] = s}) <= 1
  <2>1. \A t, u \in {v \in Live \cap held : session[v] = s} : t = u
    BY <1>1 DEF SessionInv, UniqueInv
  <2> QED
    BY <2>1, AtMostOne
<1>2. TypeInv /\ SessionInv => OneValidToken
  BY <1>1 DEF OneValidToken
<1> QED
  BY <1>2, SessionInvariant, PTL
=============================================================================
