--------------------------- MODULE RefreshTokens ---------------------------
(***************************************************************************)
(* Refresh-token rotation (api/internal/auth/refresh.go and its handlers   *)
(* in api/internal/httpx/auth.go) for one user and one browser.            *)
(*                                                                         *)
(* Tokens are numbered in the order their rows are created; 0 stands for   *)
(* none.  A caller is a request slot of the browser: frontend/src/lib/     *)
(* api.ts keeps one refresh in flight per tab, all tabs share the cookie   *)
(* jar.  Every statement on the table refresh_tokens is a step of its own, *)
(* as nothing in the code puts two of them in a transaction.               *)
(***************************************************************************)
EXTENDS Integers, FiniteSets

CONSTANTS Callers,
          MaxTokens   \* bound on the rows of refresh_tokens

ASSUME TokenAssumption == MaxTokens \in Nat

VARIABLES
  issued,      \* number of rows
  revoked,     \* rows with revoked_at
  replacedBy,  \* column replaced_by
  jar,         \* the refresh cookie of the browser
  pc,          \* control state of a caller's request
  presented,   \* the cookie the request carries
  child,       \* the row the request created
  parent,      \* history: the token whose rotation created a row
  session,     \* history: the first token of the row's chain of rotations
  held,        \* history: tokens that reached the browser
  disturbed,   \* history: sessions with overlapping requests, with an answer
               \* that was lost or left the cookie alone, or ended by an alarm
  cutoff,      \* history: number of rows at the last alarm
  stale,       \* history: callers that read their row before the last alarm
  late         \* history: tokens created by those callers, and their heirs

tableVars   == <<issued, revoked, replacedBy, parent, session>>
requestVars == <<pc, presented, child>>
alarmVars   == <<cutoff, stale, late>>
vars == <<tableVars, jar, requestVars, held, disturbed, alarmVars>>

Tokens == 1..MaxTokens
None == 0
Rows == 1..issued
Live == Rows \ revoked

States == {"idle", "login", "refresh", "valid", "reuse", "issued", "ok",
           "failed", "logout", "leaving", "out"}

Init ==
  /\ issued = 0 /\ revoked = {}
  /\ replacedBy = [t \in Tokens |-> None]
  /\ parent = [t \in Tokens |-> None] /\ session = [t \in Tokens |-> None]
  /\ jar = None
  /\ pc = [c \in Callers |-> "idle"]
  /\ presented = [c \in Callers |-> None]
  /\ child = [c \in Callers |-> None]
  /\ held = {} /\ disturbed = {}
  /\ cutoff = 0 /\ stale = {} /\ late = {}

Goto(c, state) == pc' = [pc EXCEPT ![c] = state]
-----------------------------------------------------------------------------
(* The browser sends a request *)

\* Sessions whose requests the new request of c overlaps with.
Overlaps(c) ==
  {session[jar]} \cap {session[presented[d]] :
     d \in {e \in Callers \ {c} : pc[e] # "idle" /\ presented[e] # None}}

SendLogin(c) ==
  /\ pc[c] = "idle" /\ Goto(c, "login")
  /\ UNCHANGED <<tableVars, jar, presented, child, held, disturbed, alarmVars>>

\* Without a cookie neither handler touches the table.
SendWithCookie(c) ==
  /\ pc[c] = "idle" /\ jar # None
  /\ Goto(c, "refresh") \/ Goto(c, "logout")
  /\ presented' = [presented EXCEPT ![c] = jar]
  /\ disturbed' = disturbed \cup Overlaps(c)
  /\ UNCHANGED <<tableVars, jar, child, held, alarmVars>>
-----------------------------------------------------------------------------
(* Rotate *)

\* GetRefreshTokenByHash.  An expired token and a failed query end alike.
ReadRow(c) ==
  /\ pc[c] = "refresh"
  /\ \/ presented[c] \in revoked /\ Goto(c, "reuse")
     \/ presented[c] \notin revoked /\ Goto(c, "valid")
     \/ Goto(c, "failed")
  /\ UNCHANGED <<tableVars, jar, presented, child, held, disturbed, alarmVars>>

\* Mutation: only the row that was presented and its replacement are revoked.
RevokeAllOnlyChild(c) ==
  /\ pc[c] = "reuse" /\ Goto(c, "failed")
  /\ revoked' = revoked \cup ({replacedBy[presented[c]]} \ {None})
  /\ disturbed' = disturbed \cup {session[t] : t \in Live}
  /\ cutoff' = issued
  /\ stale' = {d \in Callers : pc[d] = "valid"}
  /\ UNCHANGED <<issued, replacedBy, parent, session, jar, presented, child,
                 held, late>>

\* RevokeAllUserRefreshTokens; its error is ignored.
RevokeAll(c) ==
  /\ pc[c] = "reuse" /\ Goto(c, "failed")
  /\ \/ /\ revoked' = Rows
        /\ disturbed' = disturbed \cup {session[t] : t \in Live}
        /\ cutoff' = issued
        /\ stale' = {d \in Callers : pc[d] = "valid"}
     \/ UNCHANGED <<revoked, disturbed, cutoff, stale>>
  /\ UNCHANGED <<issued, replacedBy, parent, session, jar, presented, child,
                 held, late>>

\* Mutation: the id of the new row is not kept.
IssueForgetsId(c) ==
  /\ pc[c] \in {"login", "valid"} /\ issued < MaxTokens
  /\ issued' = issued + 1
  /\ Goto(c, IF pc[c] = "login" THEN "ok" ELSE "issued")
  /\ UNCHANGED <<revoked, replacedBy, parent, session, presented, child, jar,
                 held, disturbed, alarmVars>>

\* Issue, for a login and for a rotation.
Issue(c) ==
  /\ pc[c] \in {"login", "valid"} /\ issued < MaxTokens
  /\ LET t == issued + 1 IN
       /\ issued' = t
       /\ child' = [child EXCEPT ![c] = t]
       /\ parent' = [parent EXCEPT ![t] = presented[c]]
       /\ session' = [session EXCEPT ![t] =
                        IF presented[c] = None THEN t ELSE session[presented[c]]]
       /\ late' = IF c \in stale \/ presented[c] \in late THEN late \cup {t}
                  ELSE late
  /\ Goto(c, IF pc[c] = "login" THEN "ok" ELSE "issued")
  /\ UNCHANGED <<revoked, replacedBy, jar, presented, held, disturbed, cutoff,
                 stale>>

\* issueSession: the access token or the row of a login cannot be made.
LoginFails(c) == pc[c] = "login" /\ Goto(c, "idle")

IssueFails(c) ==
  /\ LoginFails(c) \/ (pc[c] = "valid" /\ Goto(c, "failed"))
  /\ UNCHANGED <<tableVars, jar, presented, child, held, disturbed, alarmVars>>

\* Mutations: the new row is revoked in favour of the old one; the old row
\* gets its replacement but stays valid.
RevokeParentSwapped(c) ==
  /\ pc[c] = "issued" /\ Goto(c, "ok")
  /\ revoked' = revoked \cup {child[c]}
  /\ replacedBy' = [replacedBy EXCEPT ![child[c]] = presented[c]]
  /\ UNCHANGED <<issued, parent, session, jar, presented, child, held,
                 disturbed, alarmVars>>

RevokeParentKeepsLive(c) ==
  /\ pc[c] = "issued" /\ Goto(c, "ok")
  /\ UNCHANGED <<tableVars, jar, presented, child, held, disturbed, alarmVars>>

\* RevokeRefreshToken on the presented row, whatever has become of it since.
RevokeParent(c) ==
  /\ pc[c] = "issued"
  /\ \/ /\ Goto(c, "ok")
        /\ revoked' = revoked \cup {presented[c]}
        /\ replacedBy' = [replacedBy EXCEPT ![presented[c]] = child[c]]
     \/ Goto(c, "failed") /\ UNCHANGED <<revoked, replacedBy>>
  /\ UNCHANGED <<issued, parent, session, jar, presented, child, held,
                 disturbed, alarmVars>>

\* handleRefresh: the owner of the rotated token is not found.
UnknownUser(c) ==
  /\ pc[c] = "ok" /\ presented[c] # None /\ Goto(c, "failed")
  /\ UNCHANGED <<tableVars, jar, presented, child, held, disturbed, alarmVars>>
-----------------------------------------------------------------------------
(* Revoke *)

\* A missing row is a no-op.
LogoutRead(c) ==
  /\ pc[c] = "logout"
  /\ Goto(c, "leaving") \/ Goto(c, "out")
  /\ UNCHANGED <<tableVars, jar, presented, child, held, disturbed, alarmVars>>

\* RevokeRefreshToken without a replacement, which clears replaced_by; its
\* error is ignored.
LogoutRevoke(c) ==
  /\ pc[c] = "leaving" /\ Goto(c, "out")
  /\ \/ /\ revoked' = revoked \cup {presented[c]}
        /\ replacedBy' = [replacedBy EXCEPT ![presented[c]] = None]
     \/ UNCHANGED <<revoked, replacedBy>>
  /\ UNCHANGED <<issued, parent, session, jar, presented, child, held,
                 disturbed, alarmVars>>
-----------------------------------------------------------------------------
(* The answer *)

Done(c) ==
  /\ Goto(c, "idle")
  /\ presented' = [presented EXCEPT ![c] = None]
  /\ child' = [child EXCEPT ![c] = None]
  /\ stale' = stale \ {c}

\* Mutation: handleRefresh does not set the refresh cookie, a login does.
AnswerOkKeepsCookie(c) ==
  /\ pc[c] = "ok" /\ Done(c)
  /\ jar' = IF presented[c] = None THEN child[c] ELSE jar
  /\ held' = held \cup {jar'}
  /\ UNCHANGED <<tableVars, disturbed, cutoff, late>>

\* SetRefresh.
AnswerOk(c) ==
  /\ pc[c] = "ok" /\ Done(c)
  /\ jar' = child[c]
  /\ held' = held \cup {child[c]}
  /\ UNCHANGED <<tableVars, disturbed, cutoff, late>>

\* ClearAuth, after a failed refresh and after a logout.
AnswerCleared(c) ==
  /\ pc[c] \in {"failed", "out"} /\ Done(c)
  /\ jar' = None
  /\ UNCHANGED <<tableVars, held, disturbed, cutoff, late>>

\* The request ends and the browser keeps the cookie it has, whatever became of
\* the token in it.
KeepsCookie(c) ==
  /\ Done(c)
  /\ disturbed' = IF presented[c] \in revoked
                    THEN disturbed \cup {session[presented[c]]} ELSE disturbed
  /\ UNCHANGED <<tableVars, jar, held, cutoff, late>>

\* handleRefresh cannot make the access token after Rotate has revoked the
\* presented row: 500, with neither SetRefresh nor ClearAuth.
AccessTokenFails(c) ==
  pc[c] = "ok" /\ presented[c] # None /\ KeepsCookie(c)

\* The request ends without an answer at any point: the network, a closed tab
\* (which cancels the request's context) or a crash of the server.
Lost(c) == pc[c] # "idle" /\ KeepsCookie(c)
-----------------------------------------------------------------------------
Next ==
  \E c \in Callers :
     \/ SendLogin(c) \/ SendWithCookie(c)
     \/ ReadRow(c) \/ RevokeAll(c) \/ Issue(c) \/ IssueFails(c)
     \/ RevokeParent(c) \/ UnknownUser(c)
     \/ LogoutRead(c) \/ LogoutRevoke(c)
     \/ AnswerOk(c) \/ AccessTokenFails(c) \/ AnswerCleared(c) \/ Lost(c)

Spec == Init /\ [][Next]_vars
-----------------------------------------------------------------------------
(* Properties *)

\* Type invariant.  A request past Issue knows the row it created.
TypeOK ==
  /\ issued \in 0..MaxTokens /\ revoked \subseteq Rows
  /\ replacedBy \in [Tokens -> 0..issued]
  /\ parent \in [Tokens -> 0..issued] /\ session \in [Tokens -> 0..issued]
  /\ jar \in 0..issued
  /\ pc \in [Callers -> States]
  /\ presented \in [Callers -> 0..issued] /\ child \in [Callers -> 0..issued]
  /\ \A c \in Callers :
       /\ pc[c] \in {"issued", "ok"} => child[c] # None
       /\ pc[c] \in {"refresh", "valid", "reuse", "issued", "logout", "leaving"}
            => presented[c] # None
  /\ held \subseteq Rows /\ disturbed \subseteq Rows
  /\ cutoff \in 0..issued /\ stale \subseteq Callers /\ late \subseteq Rows

\* replaced_by is truthful in every interleaving: only a revoked row carries
\* it, and it names a row that was created by rotating this very one
\* (refresh.go 22-23, 70-76).
ChainIsTruthful ==
  \A t \in Rows : replacedBy[t] # None =>
    t \in revoked /\ parent[replacedBy[t]] = t

\* Between requests the cookie the browser holds is accepted: failing statements
\* may clear it but never leave a dead one, which at the next refresh would
\* revoke every session of the user.  Nothing is said of a session after two
\* requests of it overlapped, after an answer was lost or was the 500 of an
\* access token that could not be made once the presented row was revoked, and
\* after an alarm; in each of these the browser can hold a dead cookie
\* (auth.go 123-150, 206-212, refresh.go 56-87).
CookieStaysValid ==
  (\A c \in Callers : pc[c] = "idle") /\ jar # None
    => jar \in Live \/ session[jar] \in disturbed

\* Rotation consumes: of the tokens of an undisturbed session that ever reached
\* the browser at most one is valid, failures and abandoned rotations included
\* (refresh.go 70-77).
OneValidToken ==
  \A s \in Rows \ disturbed :
    Cardinality({t \in Live \cap held : session[t] = s}) <= 1

\* After an alarm has revoked "the user's entire token set" (auth.md 82-83) the
\* only valid tokens are those of later logins and those of rotations that were
\* past their validity check when it went off (refresh.go 61-70).
AlarmEndsSessions ==
  \A t \in Live : session[t] <= cutoff => t \in late
=============================================================================
