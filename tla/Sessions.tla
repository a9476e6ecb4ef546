----------------------------- MODULE Sessions -----------------------------
(***************************************************************************)
(* The sessions of one user in one browser: the table refresh_tokens, the  *)
(* handlers login, refresh and logout statement by statement, and the tabs *)
(* of the browser, which share one cookie (jar) but each keep their own    *)
(* refreshPromise (client.ts).                                             *)
(*                                                                         *)
(* A token is the number of its row; 0 is no token.  Rotation runs in one  *)
(* transaction: the claim locks the row, so between the claim and the      *)
(* commit every other statement on that row waits; nobody sees the claim   *)
(* before the commit, and a rollback leaves nothing.                       *)
(***************************************************************************)
EXTENDS Naturals

CONSTANTS
    Tabs,       \* the browser's tabs
    MaxTokens,  \* bound: rows that refresh_tokens ever holds
    MaxLosses   \* bound: replies that get lost, and logouts whose UPDATE fails

ASSUME SessionsAssumption == MaxTokens \in Nat \ {0} /\ MaxLosses \in Nat

VARIABLES
    count,    \* rows issued
    row,      \* the table refresh_tokens
    enabled,  \* user.enable
    jar,      \* the browser's refresh cookie
    page,     \* what each tab shows: PrivateRoute's spinner, the app, the login page
    refresh,  \* each tab's refreshPromise and the request behind it
    logout,   \* each tab's POST /auth/logout
    login,    \* each tab's POST /auth/login
    losses,   \* lost replies and failed logouts so far
    ended     \* history: sessions a logout found alive and revoked

vars == <<count, row, enabled, jar, page, refresh, logout, login, losses, ended>>

TokenIds == 1 .. MaxTokens
Tokens == 0 .. MaxTokens

(* A row of refresh_tokens; session is history: the row the first login    *)
(* of its replaced_by chain inserted.                                      *)
Row == [session : Tokens, revoked : BOOLEAN, expired : BOOLEAN, replacedBy : Tokens]

NewRow(s) == [session |-> s, revoked |-> FALSE, expired |-> FALSE, replacedBy |-> 0]

(* A request: the cookie it was sent with, the user row as its transaction *)
(* first saw it, and the token its reply carries, 0 in a refusal.  raced   *)
(* is history: a refresh was in flight together with this logout.          *)
Call == [pc : {"idle", "sent", "read", "claimed", "done"}, plain : Tokens,
         enabled : BOOLEAN, new : Tokens, raced : BOOLEAN]

Idle == [pc |-> "idle", plain |-> 0, enabled |-> FALSE, new |-> 0, raced |-> FALSE]

Sent(cookie) == [Idle EXCEPT !.pc = "sent", !.plain = cookie]

Live(t) == t \in 1 .. count /\ ~row[t].revoked

Locked(t) == \E b \in Tabs : refresh[b].pc = "claimed" /\ refresh[b].plain = t

Init ==
    /\ count = 0
    /\ row = [t \in TokenIds |-> NewRow(0)]
    /\ enabled = TRUE
    /\ jar = 0
    /\ page = [b \in Tabs |-> "login"]
    /\ refresh = [b \in Tabs |-> Idle]
    /\ logout = [b \in Tabs |-> Idle]
    /\ login = [b \in Tabs |-> Idle]
    /\ losses = 0
    /\ ended = {}

server == <<count, row, enabled, ended>>

-----------------------------------------------------------------------------
(* refresh: RotateRefreshToken, one transaction                            *)

(* The row is read, and with it the transaction's snapshot of the user.    *)
RefreshRead(b) ==
    LET t == refresh[b].plain IN
    /\ refresh[b].pc = "sent"
    /\ refresh' = [refresh EXCEPT ![b] =
          IF Live(t) /\ ~row[t].expired
          THEN [@ EXCEPT !.pc = "read", !.enabled = enabled]
          ELSE [@ EXCEPT !.pc = "done"]]
    /\ UNCHANGED <<server, jar, page, logout, login, losses>>

(* Mistake: the claim is an UPDATE without WHERE revoked_at IS NULL.       *)
RefreshClaim_Unconditional(b) ==
    /\ refresh[b].pc = "read"
    /\ ~Locked(refresh[b].plain)
    /\ refresh' = [refresh EXCEPT ![b].pc = "claimed"]
    /\ UNCHANGED <<server, jar, page, logout, login, losses>>

(* Mistake: the row is checked again, but not locked until the commit.     *)
RefreshClaim_Unlocked(b) ==
    LET t == refresh[b].plain IN
    /\ refresh[b].pc = "read"
    /\ refresh' = [refresh EXCEPT ![b].pc = IF Live(t) THEN "claimed" ELSE "done"]
    /\ UNCHANGED <<server, jar, page, logout, login, losses>>

(* UPDATE ... WHERE revoked_at IS NULL, and RowsAffected must be 1.        *)
RefreshClaim(b) ==
    LET t == refresh[b].plain IN
    /\ refresh[b].pc = "read"
    /\ ~Locked(t)
    /\ refresh' = [refresh EXCEPT ![b].pc = IF Live(t) THEN "claimed" ELSE "done"]
    /\ UNCHANGED <<server, jar, page, logout, login, losses>>

(* A user disabled in the snapshot rolls the claim back.                   *)
RefreshRefused(b) ==
    /\ refresh[b].pc = "claimed"
    /\ ~refresh[b].enabled
    /\ refresh' = [refresh EXCEPT ![b].pc = "done"]
    /\ UNCHANGED <<server, jar, page, logout, login, losses>>

(* Mistake: the new row is added, and the old one not revoked.             *)
RefreshCommit_KeepsOld(b) ==
    LET t == refresh[b].plain IN
    /\ refresh[b].pc = "claimed"
    /\ refresh[b].enabled
    /\ count < MaxTokens
    /\ count' = count + 1
    /\ row' = [row EXCEPT ![t].replacedBy = count + 1,
                          ![count + 1] = NewRow(row[t].session)]
    /\ refresh' = [refresh EXCEPT ![b].pc = "done", ![b].new = count + 1]
    /\ UNCHANGED <<enabled, ended, jar, page, logout, login, losses>>

(* Mistake: user.enable is not looked at.                                  *)
RefreshCommit_AnyUser(b) ==
    LET t == refresh[b].plain IN
    /\ refresh[b].pc = "claimed"
    /\ count < MaxTokens
    /\ count' = count + 1
    /\ row' = [row EXCEPT ![t].revoked = TRUE, ![t].replacedBy = count + 1,
                          ![count + 1] = NewRow(row[t].session)]
    /\ refresh' = [refresh EXCEPT ![b].pc = "done", ![b].new = count + 1]
    /\ UNCHANGED <<enabled, ended, jar, page, logout, login, losses>>

(* The new row is inserted, replaced_by set, and all of it committed.      *)
RefreshCommit(b) ==
    LET t == refresh[b].plain IN
    /\ refresh[b].pc = "claimed"
    /\ refresh[b].enabled
    /\ count < MaxTokens
    /\ count' = count + 1
    /\ row' = [row EXCEPT ![t].revoked = TRUE, ![t].replacedBy = count + 1,
                          ![count + 1] = NewRow(row[t].session)]
    /\ refresh' = [refresh EXCEPT ![b].pc = "done", ![b].new = count + 1]
    /\ UNCHANGED <<enabled, ended, jar, page, logout, login, losses>>

(* A statement of the transaction fails, and the claim is rolled back.     *)
RefreshAborts(b) ==
    /\ refresh[b].pc \in {"read", "claimed"}
    /\ refresh' = [refresh EXCEPT ![b].pc = "done"]
    /\ UNCHANGED <<server, jar, page, logout, login, losses>>

-----------------------------------------------------------------------------
(* logout: RevokeRefreshToken, one statement that waits for the row        *)

(* Mistake: only the cookie is cleared, the row is left alone.             *)
LogoutRevoke_CookieOnly(b) ==
    /\ logout[b].pc = "sent"
    /\ logout' = [logout EXCEPT ![b].pc = "done"]
    /\ UNCHANGED <<server, jar, page, refresh, login, losses>>

LogoutRevoke(b) ==
    LET t == logout[b].plain IN
    /\ logout[b].pc = "sent"
    /\ ~Locked(t)
    /\ logout' = [logout EXCEPT ![b].pc = "done"]
    /\ row' = IF Live(t) THEN [row EXCEPT ![t].revoked = TRUE] ELSE row
    /\ ended' = IF Live(t) THEN ended \union {row[t].session} ELSE ended
    /\ UNCHANGED <<count, enabled, jar, page, refresh, login, losses>>

(* The error of the UPDATE is dropped; the reply says success anyway.      *)
LogoutFails(b) ==
    /\ logout[b].pc = "sent"
    /\ losses < MaxLosses
    /\ losses' = losses + 1
    /\ logout' = [logout EXCEPT ![b].pc = "done"]
    /\ UNCHANGED <<server, jar, page, refresh, login>>

-----------------------------------------------------------------------------
(* login, for a right password without a second factor                     *)

LoginCheck(b) ==
    /\ login[b].pc = "sent"
    /\ login' = [login EXCEPT ![b].pc = IF enabled THEN "read" ELSE "done"]
    /\ UNCHANGED <<server, jar, page, refresh, logout, losses>>

(* respondWithTokens: the first token of a session                         *)
LoginCreate(b) ==
    /\ login[b].pc = "read"
    /\ count < MaxTokens
    /\ count' = count + 1
    /\ row' = [row EXCEPT ![count + 1] = NewRow(count + 1)]
    /\ login' = [login EXCEPT ![b].pc = "done", ![b].new = count + 1]
    /\ UNCHANGED <<enabled, ended, jar, page, refresh, logout, losses>>

LoginAborts(b) ==
    /\ login[b].pc = "read"
    /\ login' = [login EXCEPT ![b].pc = "done"]
    /\ UNCHANGED <<server, jar, page, refresh, logout, losses>>

-----------------------------------------------------------------------------
(* The tabs                                                                *)

(* tryRefresh with the given cookie: a promise that is there is shared.    *)
TryRefresh(b, cookie) ==
    IF refresh[b].pc = "idle"
    THEN /\ refresh' = [refresh EXCEPT ![b] = Sent(cookie)]
         /\ logout' = [x \in Tabs |->
                          IF logout[x].pc = "idle" THEN Idle
                          ELSE [logout[x] EXCEPT !.raced = TRUE]]
    ELSE UNCHANGED <<refresh, logout>>

(* PrivateRoute mounts: a page is opened or reloaded.  A reload that       *)
(* abandons requests is LoseReply first.                                   *)
Reload(b) ==
    /\ refresh[b].pc = "idle" /\ logout[b].pc = "idle" /\ login[b].pc = "idle"
    /\ page[b] # "loading"
    /\ page' = [page EXCEPT ![b] = "loading"]
    /\ TryRefresh(b, jar)
    /\ UNCHANGED <<server, jar, login, losses>>

(* apiFetch of the app gets a 401.                                         *)
Unauthorized(b) ==
    /\ page[b] = "app"
    /\ refresh[b].pc = "idle"
    /\ TryRefresh(b, jar)
    /\ UNCHANGED <<server, jar, page, login, losses>>

(* Where PrivateRoute goes when tryRefresh returns; an open page stays.    *)
Settled(b, ok) ==
    [page EXCEPT ![b] = IF @ # "loading" THEN @ ELSE IF ok THEN "app" ELSE "login"]

(* Mistake: the reply does not set the cookie.                             *)
ReceiveRefresh_CookieKept(b) ==
    /\ refresh[b].pc = "done"
    /\ page' = Settled(b, refresh[b].new # 0)
    /\ refresh' = [refresh EXCEPT ![b] = Idle]
    /\ UNCHANGED <<server, jar, logout, login, losses>>

(* Mistake: a refresh that is refused leaves PrivateRoute waiting.         *)
ReceiveRefresh_KeepsWaiting(b) ==
    LET t == refresh[b].new IN
    /\ refresh[b].pc = "done"
    /\ jar' = IF t = 0 THEN jar ELSE t
    /\ page' = IF t = 0 THEN page ELSE Settled(b, TRUE)
    /\ refresh' = [refresh EXCEPT ![b] = Idle]
    /\ UNCHANGED <<server, logout, login, losses>>

ReceiveRefresh(b) ==
    LET t == refresh[b].new IN
    /\ refresh[b].pc = "done"
    /\ jar' = IF t = 0 THEN jar ELSE t
    /\ page' = Settled(b, t # 0)
    /\ refresh' = [refresh EXCEPT ![b] = Idle]
    /\ UNCHANGED <<server, logout, login, losses>>

(* The logout button of MainLayout.                                        *)
SendLogout(b) ==
    /\ page[b] = "app"
    /\ logout[b].pc = "idle"
    /\ logout' = [logout EXCEPT ![b] = [Sent(jar) EXCEPT
                     !.raced = \E x \in Tabs : refresh[x].pc # "idle"]]
    /\ UNCHANGED <<server, jar, page, refresh, login, losses>>

ReceiveLogout(b) ==
    /\ logout[b].pc = "done"
    /\ jar' = 0
    /\ page' = [page EXCEPT ![b] = "login"]
    /\ logout' = [logout EXCEPT ![b] = Idle]
    /\ UNCHANGED <<server, refresh, login, losses>>

SendLogin(b) ==
    /\ page[b] = "login"
    /\ login[b].pc = "idle"
    /\ login' = [login EXCEPT ![b] = Sent(0)]
    /\ UNCHANGED <<server, jar, page, refresh, logout, losses>>

(* Mistake: the spinner is shown, and no refresh is sent.                  *)
ReceiveLogin_NoRefresh(b) ==
    LET t == login[b].new IN
    /\ login[b].pc = "done"
    /\ login' = [login EXCEPT ![b] = Idle]
    /\ IF t = 0
       THEN UNCHANGED <<jar, page>>
       ELSE jar' = t /\ page' = [page EXCEPT ![b] = "loading"]
    /\ UNCHANGED <<server, refresh, logout, losses>>

(* A refusal leaves the login page; otherwise PrivateRoute mounts.         *)
ReceiveLogin(b) ==
    LET t == login[b].new IN
    /\ login[b].pc = "done"
    /\ login' = [login EXCEPT ![b] = Idle]
    /\ IF t = 0
       THEN UNCHANGED <<jar, page, refresh, logout>>
       ELSE /\ jar' = t
            /\ page' = [page EXCEPT ![b] = "loading"]
            /\ TryRefresh(b, t)
    /\ UNCHANGED <<server, losses>>

(* The connection breaks before the server or after it: fetch throws, the  *)
(* cookie of the reply is not stored, doRefresh returns false.             *)
LoseReply(b) ==
    /\ losses < MaxLosses
    /\ losses' = losses + 1
    /\ \/ /\ refresh[b].pc \in {"sent", "done"}
          /\ refresh' = [refresh EXCEPT ![b] = Idle]
          /\ page' = Settled(b, FALSE)
          /\ UNCHANGED <<logout, login>>
       \/ /\ logout[b].pc \in {"sent", "done"}
          /\ logout' = [logout EXCEPT ![b] = Idle]
          /\ UNCHANGED <<page, refresh, login>>
       \/ /\ login[b].pc \in {"sent", "done"}
          /\ login' = [login EXCEPT ![b] = Idle]
          /\ UNCHANGED <<page, refresh, logout>>
    /\ UNCHANGED <<server, jar>>

-----------------------------------------------------------------------------
(* Time passes a row's expires_at; an operator clears user.enable.         *)

Expire(t) ==
    /\ Live(t) /\ ~row[t].expired
    /\ row' = [row EXCEPT ![t].expired = TRUE]
    /\ UNCHANGED <<count, enabled, ended, jar, page, refresh, logout, login, losses>>

Disable ==
    /\ enabled
    /\ enabled' = FALSE
    /\ UNCHANGED <<count, row, ended, jar, page, refresh, logout, login, losses>>

-----------------------------------------------------------------------------

Serve(b) ==
    \/ RefreshRead(b) \/ RefreshClaim(b) \/ RefreshRefused(b)
    \/ RefreshCommit(b) \/ RefreshAborts(b)
    \/ LogoutRevoke(b) \/ LogoutFails(b)
    \/ LoginCheck(b) \/ LoginCreate(b) \/ LoginAborts(b)

Browse(b) ==
    \/ Reload(b) \/ Unauthorized(b) \/ ReceiveRefresh(b)
    \/ SendLogout(b) \/ ReceiveLogout(b)
    \/ SendLogin(b) \/ ReceiveLogin(b) \/ LoseReply(b)

Next ==
    \/ \E b \in Tabs : Serve(b) \/ Browse(b)
    \/ \E t \in TokenIds : Expire(t)
    \/ Disable

Spec == Init /\ [][Next]_vars

(* A handler that runs issues its next statement or fails, and its reply   *)
(* is read.  What the user does has no fairness.                           *)
Rotate(b) ==
    \/ RefreshRead(b) \/ RefreshClaim(b) \/ RefreshRefused(b)
    \/ RefreshCommit(b) \/ RefreshAborts(b) \/ ReceiveRefresh(b)

FairSpec == Spec /\ \A b \in Tabs : WF_vars(Rotate(b))

-----------------------------------------------------------------------------
(* Properties                                                              *)

(* Every variable has its type, and a tab that shows the spinner has a     *)
(* refreshPromise to wait for.                                             *)
TypeOK ==
    /\ count \in Tokens
    /\ row \in [TokenIds -> Row]
    /\ enabled \in BOOLEAN
    /\ jar \in Tokens
    /\ page \in [Tabs -> {"loading", "app", "login"}]
    /\ refresh \in [Tabs -> Call]
    /\ logout \in [Tabs -> Call]
    /\ login \in [Tabs -> Call]
    /\ losses \in 0 .. MaxLosses
    /\ ended \subseteq Tokens
    /\ \A b \in Tabs : page[b] = "loading" => refresh[b].pc # "idle"

(* However refreshes, logouts and logins overlap, the chain of tokens that *)
(* one login started has at most one token that still works: a rotation    *)
(* (RotateRefreshToken) never lets two successors of a token live.         *)
OneLivePerSession ==
    \A t, u \in TokenIds :
        Live(t) /\ Live(u) /\ row[t].session = row[u].session => t = u

(* A session whose live token a logout revoked never has a live token      *)
(* again, not even through a rotation that had read the row before.        *)
LogoutIsFinal == \A t \in TokenIds : Live(t) => row[t].session \notin ended

(* While no reply is lost, the browser is never left with a token that was *)
(* replaced: the live token of the session the cookie belongs to is the    *)
(* cookie, or on its way in the reply to a refresh.                        *)
JarIsNewest ==
    losses = 0 /\ jar # 0 =>
        \A t \in TokenIds :
            Live(t) /\ row[t].session = row[jar].session =>
                \/ t = jar
                \/ \E b \in Tabs : refresh[b].pc = "done" /\ refresh[b].new = t

(* Without losses, and with no refresh in flight beside it, a logout that  *)
(* is answered has ended the session its cookie named.                     *)
LogoutEndsSession ==
    [][\A b \in Tabs :
          /\ logout[b].pc = "done" /\ logout'[b].pc = "idle"
          /\ losses' = 0 /\ ~logout[b].raced /\ logout[b].plain # 0
          => \A t \in TokenIds :
                Live(t) => row[t].session # row[logout[b].plain].session]_vars

(* A row revoked by a rotation or a logout stays revoked, and what it was  *)
(* replaced by, a token or nothing, is settled then.                       *)
RevokedForGood ==
    [][\A t \in 1 .. count :
          row[t].revoked =>
              row'[t].revoked /\ row'[t].replacedBy = row[t].replacedBy]_vars

(* Once the user is disabled, and no request that saw the user enabled is  *)
(* still running, no token is issued any more.                             *)
DisabledMintsNothing ==
    [][/\ ~enabled
       /\ \A b \in Tabs :
             /\ login[b].pc # "read"
             /\ refresh[b].pc \in {"read", "claimed"} => ~refresh[b].enabled
       => count' = count]_vars

(* A tab that waits for tryRefresh gets to the app or to the login page,   *)
(* though other tabs' transactions hold the row, fail, or lose replies.    *)
LoadingEnds == \A b \in Tabs : page[b] = "loading" ~> page[b] # "loading"
=============================================================================
