------------------------ MODULE SessionCookieProofs ------------------------
(***************************************************************************)
(* Proofs about the cookie of Sessions: it never falls behind its session, *)
(* and a logout that nothing overlaps ends the session it names.           *)
(*                                                                         *)
(* Neither is inductive.  A token that a reply carries is live, is         *)
(* nobody's cookie yet, and is in no other reply (FreshInv): so nothing    *)
(* can revoke it before it gets into the jar, where it is the one live     *)
(* token of its session.  QuietLogout follows a logout that met no         *)
(* refresh: when it was sent no reply was on its way, so the cookie was    *)
(* the live token.                                                         *)
(***************************************************************************)
EXTENDS SessionsProofs

CookieInv ==
    /\ jar \in 0 .. count
    /\ \A b \in Tabs : refresh[b].plain \in 0 .. count /\ logout[b].plain \in 0 .. count

ReplyInv ==
    \A b \in Tabs :
        /\ refresh[b].pc # "done" => refresh[b].new = 0
        /\ login[b].pc # "done" => login[b].new = 0

\* A token that works, and that no cookie and no request holds.
Unused(n) ==
    /\ Live(n) /\ n # jar
    /\ \A c \in Tabs : refresh[c].plain # n /\ logout[c].plain # n

FreshInv ==
    /\ \A b \in Tabs, n \in TokenIds : refresh[b].new = n \/ login[b].new = n => Unused(n)
    /\ \A b, c \in Tabs : refresh[b].new # 0 => login[c].new # refresh[b].new
    /\ \A b, c \in Tabs : refresh[b].new # 0 /\ refresh[c].new = refresh[b].new => b = c
    /\ \A b, c \in Tabs : login[b].new # 0 /\ login[c].new = login[b].new => b = c

QuietLogout ==
    \A b \in Tabs :
        logout[b].pc # "idle" /\ ~logout[b].raced =>
            /\ \A c \in Tabs : refresh[c].pc = "idle"
            /\ losses = 0 /\ logout[b].plain # 0 =>
                  \A t \in TokenIds :
                      Live(t) /\ row[t].session = row[logout[b].plain].session =>
                          logout[b].pc = "sent" /\ t = logout[b].plain

Cookies == CookieInv /\ ReplyInv /\ FreshInv /\ JarIsNewest

-----------------------------------------------------------------------------
(* The kinds of steps, for the cookie.                                     *)

\* The requests lose replies, or are sent with the cookie or without one.
Frame(cookie) ==
    /\ \A c \in Tabs :
          refresh'[c] = refresh[c] \/
             (refresh'[c].new = 0 /\ refresh'[c].plain \in {refresh[c].plain, cookie, 0})
    /\ \A c \in Tabs : login'[c] = login[c] \/ login'[c].new = 0
    /\ \A c \in Tabs : logout'[c].plain \in {logout[c].plain, cookie, 0}

\* Rows are only revoked, and none that a reply carries.
Kept ==
    /\ count' = count
    /\ \A t \in TokenIds : row'[t].session = row[t].session
    /\ \A t \in TokenIds : Live(t)' => Live(t)
    /\ \A t \in TokenIds : Unused(t) => Live(t)'

LEMMA LiveIsToken ==
    ASSUME TypeOK
    PROVE  /\ \A t : Live(t) => t \in 1 .. count /\ t \in TokenIds
           /\ 1 .. count \subseteq TokenIds /\ count \in Nat
           /\ \A t \in 0 .. count : t # 0 => t \in TokenIds
           /\ \A t \in Tokens : t # 0 => t \in TokenIds
BY SessionsAssumption DEF Live, TypeOK, Tokens, TokenIds

\* The replies that are left are as fresh as before.
LEMMA FreshKept ==
    ASSUME TypeOK, FreshInv, NEW k, Frame(k), Kept, k \in {jar, jar'},
           \A c \in Tabs : refresh'[c].new # 0 => refresh'[c].new # k,
           \A c \in Tabs : login'[c].new # 0 => login'[c].new # k,
           jar' \in {jar, k, 0}
    PROVE  FreshInv'
<1>1. \A c \in Tabs : refresh'[c].new # 0 => refresh'[c] = refresh[c]
  BY DEF Frame
<1>2. \A c \in Tabs : login'[c].new # 0 => login'[c] = login[c]
  BY DEF Frame
<1>3. 0 \notin TokenIds
  BY DEF TokenIds
<1>4. ASSUME NEW b \in Tabs, NEW n \in TokenIds, refresh'[b].new = n \/ login'[b].new = n
      PROVE  Unused(n)'
  <2>1. n # 0 /\ n # k
    BY <1>3, <1>4
  <2>2. Unused(n)
    BY <1>1, <1>2, <1>4, <2>1 DEF FreshInv
  <2>3. Live(n)' /\ n # jar'
    BY <2>1, <2>2 DEF Kept, Unused
  <2>4. \A c \in Tabs : refresh'[c].plain # n /\ logout'[c].plain # n
    BY <2>1, <2>2 DEF Frame, Unused
  <2> QED BY <2>3, <2>4 DEF Unused
<1>5. \A b, c \in Tabs : refresh'[b].new # 0 => login'[c].new # refresh'[b].new
  BY <1>1, <1>2 DEF FreshInv
<1>6. \A b, c \in Tabs : refresh'[b].new # 0 /\ refresh'[c].new = refresh'[b].new => b = c
  BY <1>1 DEF FreshInv
<1>7. \A b, c \in Tabs : login'[b].new # 0 /\ login'[c].new = login'[b].new => b = c
  BY <1>2 DEF FreshInv
<1> QED BY <1>4, <1>5, <1>6, <1>7 DEF FreshInv

\* The cookie stays, and no reply is dropped without counting as a loss.
LEMMA SameJar ==
    ASSUME TypeOK, Cookies, jar' = jar, Frame(jar), Kept, ReplyInv',
           losses' = 0 => losses = 0,
           losses' = 0 => \A c \in Tabs : refresh[c].new # 0 => refresh'[c] = refresh[c]
    PROVE  Cookies'
<1>1. CookieInv'
  <2>1. count' = count /\ jar \in 0 .. count /\ 0 \in 0 .. count
    BY LiveIsToken DEF Cookies, CookieInv, Kept
  <2> QED BY <2>1 DEF Cookies, CookieInv, Frame
<1>2. \A c \in Tabs, n \in TokenIds : refresh[c].new = n \/ login[c].new = n => n # jar
  BY DEF Cookies, FreshInv, Unused
<1>3. \A c \in Tabs : refresh[c].new # 0 => refresh[c].new # jar
  BY <1>2, LiveIsToken DEF TypeOK, Call
<1>4. \A c \in Tabs : login[c].new # 0 => login[c].new # jar
  BY <1>2, LiveIsToken DEF TypeOK, Call
<1>5. /\ \A c \in Tabs : refresh'[c].new # 0 => refresh'[c].new # jar
      /\ \A c \in Tabs : login'[c].new # 0 => login'[c].new # jar
  BY <1>3, <1>4 DEF Frame
<1>6. FreshInv'
  BY <1>5, FreshKept DEF Cookies
<1>7. JarIsNewest'
  <2> SUFFICES ASSUME losses' = 0, jar # 0, NEW t \in TokenIds, Live(t)',
                      row'[t].session = row'[jar].session, t # jar
               PROVE  \E b \in Tabs : refresh'[b].pc = "done" /\ refresh'[b].new = t
    BY DEF JarIsNewest
  <2>1. jar \in TokenIds
    BY LiveIsToken DEF Cookies, CookieInv
  <2>2. Live(t) /\ row[t].session = row[jar].session
    BY <2>1 DEF Kept
  <2>3. PICK b \in Tabs : refresh[b].pc = "done" /\ refresh[b].new = t
    BY <2>2 DEF Cookies, JarIsNewest
  <2>4. t # 0
    BY DEF TokenIds
  <2>5. refresh'[b] = refresh[b]
    BY <2>3, <2>4
  <2> QED BY <2>3, <2>5
<1> QED BY <1>1, <1>6, <1>7 DEF Cookies

\* The token of one reply gets into the jar, or the jar is emptied.
LEMMA NewJar ==
    ASSUME TypeOK, OneLivePerSession, Cookies, UNCHANGED <<count, row>>, ReplyInv',
           jar' # 0 => Live(jar'), jar' \in Tokens, Frame(jar'),
           jar' # 0 => \A c \in Tabs : refresh'[c].new # jar' /\ login'[c].new # jar'
    PROVE  Cookies'
<1>0. DEFINE k == jar'
<1>1. \A t : Live(t)' = Live(t)
  BY DEF Live
<1>2. Kept
  BY <1>1 DEF Kept, Unused
<1>3. k \in 0 .. count
  BY LiveIsToken
<1>4. CookieInv'
  BY <1>3, LiveIsToken DEF Cookies, CookieInv, Frame
<1>5. /\ \A c \in Tabs : refresh'[c].new # 0 => refresh'[c].new # k
      /\ \A c \in Tabs : login'[c].new # 0 => login'[c].new # k
  OBVIOUS
<1>6. FreshInv'
  BY <1>2, <1>5, FreshKept DEF Cookies
<1>7. ASSUME k # 0, NEW t \in TokenIds, Live(t)', row'[t].session = row'[k].session
      PROVE  t = k
  BY <1>1, <1>7, LiveIsToken DEF OneLivePerSession
<1>8. JarIsNewest'
  BY <1>7 DEF JarIsNewest
<1> QED BY <1>4, <1>6, <1>8 DEF Cookies

-----------------------------------------------------------------------------
(* The actions, for the cookie.                                            *)

\* A table that is left alone, or only marked as expired.
LEMMA SameTable ==
    ASSUME count' = count,
           \A u \in TokenIds : Live(u)' = Live(u) /\ row'[u].session = row[u].session
    PROVE  Kept
BY DEF Kept, Unused

LEMMA UnchangedTable ==
    ASSUME UNCHANGED <<count, row>>
    PROVE  Kept /\ \A t : Live(t)' = Live(t)
BY DEF Kept, Live, Unused

LEMMA CallFields ==
    /\ Idle.new = 0 /\ Idle.plain = 0 /\ Idle.pc = "idle" /\ Idle.raced = FALSE
    /\ \A t : Sent(t).new = 0 /\ Sent(t).plain = t /\ Sent(t).pc = "sent"
    /\ \A t, r : /\ [Sent(t) EXCEPT !.raced = r].plain = t
                 /\ [Sent(t) EXCEPT !.raced = r].new = 0
                 /\ [Sent(t) EXCEPT !.raced = r].pc = "sent"
                 /\ [Sent(t) EXCEPT !.raced = r].raced = r
BY DEF Idle, Sent

\* A step of one refresh that writes nothing.
LEMMA RefreshStep ==
    ASSUME Inv, NEW b \in Tabs,
           \/ RefreshRead(b) \/ RefreshClaim(b) \/ RefreshRefused(b) \/ RefreshAborts(b)
    PROVE  /\ UNCHANGED <<count, row, jar, losses, login, logout>>
           /\ \A c \in Tabs \ {b} : refresh'[c] = refresh[c]
           /\ refresh[b].pc \in {"sent", "read", "claimed"} /\ refresh'[b].pc # "idle"
           /\ refresh'[b].plain = refresh[b].plain /\ refresh'[b].new = refresh[b].new
<1>1. refresh[b] \in Call /\ enabled \in BOOLEAN
  BY DEF Inv, TypeOK
<1>2. \A p \in {"read", "claimed", "done"} :
        /\ [refresh[b] EXCEPT !.pc = p].pc = p
        /\ [refresh[b] EXCEPT !.pc = p].plain = refresh[b].plain
        /\ [refresh[b] EXCEPT !.pc = p].new = refresh[b].new
        /\ [refresh[b] EXCEPT !.pc = p, !.enabled = enabled].pc = p
        /\ [refresh[b] EXCEPT !.pc = p, !.enabled = enabled].plain = refresh[b].plain
        /\ [refresh[b] EXCEPT !.pc = p, !.enabled = enabled].new = refresh[b].new
  BY <1>1 DEF Call
<1>3. UNCHANGED <<count, row, jar, losses, login, logout>>
  BY DEF RefreshRead, RefreshClaim, RefreshRefused, RefreshAborts, server
<1>4. refresh[b].pc \in {"sent", "read", "claimed"}
  BY DEF RefreshRead, RefreshClaim, RefreshRefused, RefreshAborts
<1>5. PICK e : /\ refresh' = [refresh EXCEPT ![b] = e]
               /\ \E p \in {"read", "claimed", "done"} :
                     \/ e = [refresh[b] EXCEPT !.pc = p]
                     \/ e = [refresh[b] EXCEPT !.pc = p, !.enabled = enabled]
  BY DEF RefreshRead, RefreshClaim, RefreshRefused, RefreshAborts
<1>6. e.pc # "idle" /\ e.plain = refresh[b].plain /\ e.new = refresh[b].new
  BY <1>2, <1>5, ZenonT(30)
<1>7. refresh'[b] = e /\ \A c \in Tabs \ {b} : refresh'[c] = refresh[c]
  BY <1>5 DEF Inv, TypeOK
<1> QED BY <1>3, <1>4, <1>6, <1>7

LEMMA RefreshStepCookies ==
    ASSUME Inv, Cookies, NEW b \in Tabs,
           \/ RefreshRead(b) \/ RefreshClaim(b) \/ RefreshRefused(b) \/ RefreshAborts(b)
    PROVE  Cookies'
<1>1. /\ UNCHANGED <<count, row, jar, losses, login, logout>>
      /\ \A c \in Tabs \ {b} : refresh'[c] = refresh[c]
      /\ refresh[b].pc \in {"sent", "read", "claimed"} /\ refresh'[b].pc # "idle"
      /\ refresh'[b].plain = refresh[b].plain /\ refresh'[b].new = refresh[b].new
  BY RefreshStep
<1>2. refresh[b].new = 0 /\ refresh'[b].new = 0
  BY <1>1 DEF Cookies, ReplyInv
<1>3. Frame(jar)
  BY <1>1, <1>2 DEF Frame
<1>4. ReplyInv'
  BY <1>1, <1>2 DEF Cookies, ReplyInv
<1>5. \A c \in Tabs : refresh[c].new # 0 => refresh'[c] = refresh[c]
  BY <1>1, <1>2
<1>6. TypeOK /\ Kept /\ jar' = jar /\ losses' = losses
  BY <1>1, UnchangedTable DEF Inv
<1> QED BY <1>3, <1>4, <1>5, <1>6, SameJar

\* Steps of logout and login that issue no token.
LEMMA OtherCookies ==
    ASSUME Inv, Cookies, NEW b \in Tabs,
           \/ LogoutFails(b) \/ LoginCheck(b) \/ LoginAborts(b)
           \/ SendLogout(b) \/ SendLogin(b)
    PROVE  Cookies'
<1>1. UNCHANGED <<count, row, jar, refresh>> /\ (losses' = 0 => losses = 0)
  BY SessionsAssumption
     DEF LogoutFails, LoginCheck, LoginAborts, SendLogout, SendLogin, server, Inv, TypeOK
<1>2. TypeOK /\ Kept
  BY <1>1, UnchangedTable DEF Inv
<1>3. logout \in [Tabs -> Call] /\ login \in [Tabs -> Call]
  BY <1>2 DEF TypeOK
<1>4. \A c \in Tabs : logout'[c].plain \in {logout[c].plain, jar, 0}
  <2>1. CASE LogoutFails(b)
    BY <1>3, <2>1, CallStep DEF LogoutFails
  <2>2. CASE SendLogout(b)
    BY <1>3, <2>2, CallFields DEF SendLogout
  <2>3. CASE LoginCheck(b) \/ LoginAborts(b) \/ SendLogin(b)
    BY <2>3 DEF LoginCheck, LoginAborts, SendLogin
  <2> QED BY <2>1, <2>2, <2>3
<1>5. \A c \in Tabs : login'[c] = login[c] \/ login'[c].new = 0
  <2>1. CASE LoginCheck(b) \/ LoginAborts(b)
    <3>1. login[b].pc # "done"
      BY <2>1 DEF LoginCheck, LoginAborts
    <3>2. login[b].new = 0
      BY <3>1 DEF Cookies, ReplyInv
    <3>3. PICK p : login' = [login EXCEPT ![b] = [login[b] EXCEPT !.pc = p]]
      BY <2>1 DEF LoginCheck, LoginAborts
    <3>4. [login[b] EXCEPT !.pc = p].new = 0
      BY <1>3, <3>2 DEF Call
    <3> QED BY <1>3, <3>3, <3>4
  <2>2. CASE SendLogin(b)
    BY <1>3, <2>2, CallFields DEF SendLogin
  <2>3. CASE LogoutFails(b) \/ SendLogout(b)
    BY <2>3 DEF LogoutFails, SendLogout
  <2> QED BY <2>1, <2>2, <2>3
<1>6. ReplyInv'
  BY <1>1, <1>5 DEF Cookies, ReplyInv
<1>7. Frame(jar)
  BY <1>1, <1>4, <1>5 DEF Frame
<1> QED BY <1>1, <1>2, <1>6, <1>7, SameJar

LEMMA LoseReplyCookies ==
    ASSUME Inv, Cookies, NEW b \in Tabs, LoseReply(b)
    PROVE  Cookies'
<1>1. UNCHANGED <<count, row, jar>> /\ losses' # 0
  BY SessionsAssumption DEF LoseReply, server, Inv, TypeOK
<1>2. TypeOK /\ Kept
  BY <1>1, UnchangedTable DEF Inv
<1>3. \A c \in Tabs : \/ refresh'[c] = refresh[c]
                      \/ refresh'[c] = Idle
  BY <1>2 DEF LoseReply, TypeOK
<1>4. \A c \in Tabs : logout'[c] = logout[c] \/ logout'[c] = Idle
  BY <1>2 DEF LoseReply, TypeOK
<1>5. \A c \in Tabs : login'[c] = login[c] \/ login'[c] = Idle
  BY <1>2 DEF LoseReply, TypeOK
<1>6. Frame(jar) /\ ReplyInv'
  BY <1>3, <1>4, <1>5, CallFields DEF Frame, Cookies, ReplyInv
<1> QED BY <1>1, <1>2, <1>6, SameJar

\* tryRefresh leaves every other refresh alone, and no logout loses its cookie.
LEMMA TryRefreshFrame ==
    ASSUME TypeOK, NEW b \in Tabs, NEW k, TryRefresh(b, k)
    PROVE  /\ \A c \in Tabs \ {b} : refresh'[c] = refresh[c]
           /\ refresh[b].pc # "idle" => refresh'[b] = refresh[b]
           /\ refresh[b].pc = "idle" =>
                 refresh'[b].pc = "sent" /\ refresh'[b].new = 0 /\ refresh'[b].plain = k
           /\ refresh'[b].pc # "idle"
           /\ \A c \in Tabs : logout'[c].plain \in {logout[c].plain, 0}
           /\ \A c \in Tabs : logout'[c] = logout[c] \/ logout'[c].pc = "idle" \/ logout'[c].raced
<1>1. CASE refresh[b].pc = "idle"
  <2>1. /\ refresh' = [refresh EXCEPT ![b] = Sent(k)]
        /\ logout' = [x \in Tabs |-> IF logout[x].pc = "idle" THEN Idle
                                     ELSE [logout[x] EXCEPT !.raced = TRUE]]
    BY <1>1 DEF TryRefresh
  <2>2. refresh'[b] = Sent(k) /\ \A c \in Tabs \ {b} : refresh'[c] = refresh[c]
    BY <2>1 DEF TypeOK
  <2>3. \A c \in Tabs : /\ [logout[c] EXCEPT !.raced = TRUE].plain = logout[c].plain
                        /\ [logout[c] EXCEPT !.raced = TRUE].raced = TRUE
    BY DEF TypeOK, Call
  <2>4. \A c \in Tabs : logout'[c] = Idle \/ logout'[c] = [logout[c] EXCEPT !.raced = TRUE]
    BY <2>1
  <2>5. \A c \in Tabs : logout'[c].pc = "idle" \/ logout'[c].raced
    BY <2>3, <2>4, CallFields
  <2>6. \A c \in Tabs : logout'[c].plain \in {logout[c].plain, 0}
    BY <2>3, <2>4, CallFields
  <2>7. refresh'[b].pc = "sent" /\ refresh'[b].new = 0 /\ refresh'[b].plain = k
    BY <2>2, CallFields
  <2> QED BY <1>1, <2>2, <2>5, <2>6, <2>7
<1>2. CASE refresh[b].pc # "idle"
  BY <1>2 DEF TryRefresh
<1> QED BY <1>1, <1>2

LEMMA ReloadCookies ==
    ASSUME Inv, Cookies, NEW b \in Tabs, Reload(b) \/ Unauthorized(b)
    PROVE  Cookies'
<1>1. TryRefresh(b, jar) /\ UNCHANGED <<count, row, jar, login, losses>> /\ refresh[b].pc = "idle"
  BY DEF Reload, Unauthorized, server
<1>2. TypeOK /\ Kept
  BY <1>1, UnchangedTable DEF Inv
<1>3. refresh[b].new = 0 /\ refresh'[b].pc = "sent" /\ refresh'[b].new = 0 /\ refresh'[b].plain = jar
  BY <1>1, <1>2, TryRefreshFrame DEF Cookies, ReplyInv
<1>4. /\ \A c \in Tabs \ {b} : refresh'[c] = refresh[c]
      /\ \A c \in Tabs : logout'[c].plain \in {logout[c].plain, 0}
  BY <1>1, <1>2, TryRefreshFrame
<1>5. Frame(jar) /\ ReplyInv'
  BY <1>1, <1>3, <1>4 DEF Frame, Cookies, ReplyInv
<1>6. \A c \in Tabs : refresh[c].new # 0 => refresh'[c] = refresh[c]
  BY <1>3, <1>4
<1> QED BY <1>1, <1>2, <1>5, <1>6, SameJar

LEMMA ReceiveRefreshCookies ==
    ASSUME Inv, Cookies, NEW b \in Tabs, ReceiveRefresh(b)
    PROVE  Cookies'
<1> DEFINE t == refresh[b].new
<1>1. UNCHANGED <<count, row, logout, login, losses>> /\ jar' = IF t = 0 THEN jar ELSE t
  BY DEF ReceiveRefresh, server
<1>2. TypeOK /\ Kept /\ OneLivePerSession
  BY <1>1, UnchangedTable DEF Inv
<1>3. refresh'[b] = Idle /\ \A c \in Tabs \ {b} : refresh'[c] = refresh[c]
  BY <1>2 DEF ReceiveRefresh, TypeOK
<1>4. \A k : Frame(k)
  BY <1>1, <1>3, CallFields DEF Frame
<1>5. ReplyInv'
  BY <1>1, <1>3, CallFields DEF Cookies, ReplyInv
<1>6. CASE t = 0
  <2>1. \A c \in Tabs : refresh[c].new # 0 => refresh'[c] = refresh[c]
    BY <1>3, <1>6
  <2> QED BY <1>1, <1>2, <1>4, <1>5, <1>6, <2>1, SameJar
<1>7. CASE t # 0
  <2>1. jar' = t /\ t \in Tokens
    BY <1>1, <1>2, <1>7 DEF TypeOK, Call
  <2>2. Live(jar') /\ jar' \in Tokens
    BY <1>2, <1>7, <2>1, LiveIsToken DEF Cookies, FreshInv, Unused
  <2>3. \A c \in Tabs : refresh'[c].new # jar' /\ login'[c].new # jar'
    BY <1>1, <1>3, <1>7, <2>1, CallFields DEF Cookies, FreshInv
  <2> QED BY <1>1, <1>2, <1>4, <1>5, <2>2, <2>3, NewJar
<1> QED BY <1>6, <1>7

LEMMA ReceiveLoginCookies ==
    ASSUME Inv, Cookies, NEW b \in Tabs, ReceiveLogin(b)
    PROVE  Cookies'
<1> DEFINE t == login[b].new
<1>1. UNCHANGED <<count, row, losses>>
  BY DEF ReceiveLogin, server
<1>2. TypeOK /\ Kept /\ OneLivePerSession
  BY <1>1, UnchangedTable DEF Inv
<1>3. login'[b] = Idle /\ \A c \in Tabs \ {b} : login'[c] = login[c]
  BY <1>2 DEF ReceiveLogin, TypeOK
<1>4. CASE t = 0
  <2>1. UNCHANGED <<jar, refresh, logout>>
    BY <1>4 DEF ReceiveLogin
  <2>2. Frame(jar) /\ ReplyInv'
    BY <1>3, <2>1, CallFields DEF Frame, Cookies, ReplyInv
  <2> QED BY <1>1, <1>2, <2>1, <2>2, SameJar
<1>5. CASE t # 0
  <2>1. jar' = t /\ t \in Tokens /\ TryRefresh(b, t)
    BY <1>2, <1>5 DEF ReceiveLogin, TypeOK, Call
  <2>2. /\ \A c \in Tabs \ {b} : refresh'[c] = refresh[c]
        /\ \/ refresh'[b] = refresh[b]
           \/ refresh'[b].pc = "sent" /\ refresh'[b].new = 0 /\ refresh'[b].plain = t
        /\ \A c \in Tabs : logout'[c].plain \in {logout[c].plain, 0}
    BY <1>2, <2>1, TryRefreshFrame
  <2>3. Frame(t)
    BY <1>3, <2>2, CallFields DEF Frame
  <2>4. ReplyInv'
    BY <1>3, <2>2, CallFields DEF Cookies, ReplyInv
  <2>5. Live(t)
    BY <1>2, <1>5, <2>1, LiveIsToken DEF Cookies, FreshInv, Unused
  <2>6. \A c \in Tabs : refresh[c].new # t /\ (c # b => login[c].new # t)
    BY <1>5 DEF Cookies, FreshInv
  <2>7. \A c \in Tabs : refresh'[c].new # t /\ login'[c].new # t
    BY <1>3, <1>5, <2>2, <2>6, CallFields
  <2> QED BY <1>1, <1>2, <2>1, <2>3, <2>4, <2>5, <2>7, NewJar
<1> QED BY <1>4, <1>5

LEMMA ReceiveLogoutCookies ==
    ASSUME Inv, Cookies, NEW b \in Tabs, ReceiveLogout(b)
    PROVE  Cookies'
<1>1. UNCHANGED <<count, row, refresh, login, losses>> /\ jar' = 0
  BY DEF ReceiveLogout, server
<1>2. TypeOK /\ OneLivePerSession /\ jar' \in Tokens
  BY <1>1, FreshCalls DEF Inv
<1>3. \A c \in Tabs : logout'[c] = logout[c] \/ logout'[c] = Idle
  BY <1>2 DEF ReceiveLogout, TypeOK
<1>4. Frame(0) /\ ReplyInv'
  BY <1>1, <1>3, CallFields DEF Frame, Cookies, ReplyInv
<1> QED BY <1>1, <1>2, <1>4, NewJar

\* Expiry, a disabled user, and steps that change nothing.
LEMMA QuietCookies ==
    ASSUME Inv, Cookies, UNCHANGED <<count, jar, refresh, logout, login, losses>>,
           row' = row \/ \E t \in TokenIds : Expire(t)
    PROVE  Cookies'
<1>1. TypeOK
  BY DEF Inv
<1>2. Kept
  <2>1. CASE row' = row
    BY <2>1, UnchangedTable
  <2>2. ASSUME NEW t \in TokenIds, Expire(t) PROVE Kept
    <3>1. row' = [row EXCEPT ![t].expired = TRUE] /\ row \in [TokenIds -> Row]
      BY <2>2 DEF Expire, Inv, TypeOK
    <3>2. \A u \in TokenIds : row'[u].session = row[u].session /\ row'[u].revoked = row[u].revoked
      BY <3>1 DEF Row
    <3>3. \A u \in TokenIds : Live(u)' = Live(u)
      BY <3>2 DEF Live
    <3> QED BY <3>2, <3>3, SameTable
  <2> QED BY <2>1, <2>2
<1>3. Frame(jar) /\ ReplyInv'
  BY DEF Frame, Cookies, ReplyInv
<1> QED BY <1>1, <1>2, <1>3, SameJar

-----------------------------------------------------------------------------
(* The statements that revoke or issue a token.                            *)

\* A row that is revoked is only that: what is fresh is another row.
LEMMA LogoutRevokeCookies ==
    ASSUME Inv, Cookies, NEW b \in Tabs, LogoutRevoke(b)
    PROVE  Cookies' /\ Kept
<1> DEFINE t == logout[b].plain
<1>1. UNCHANGED <<count, jar, refresh, login, losses>>
  BY DEF LogoutRevoke
<1>2. TypeOK /\ row \in [TokenIds -> Row] /\ logout \in [Tabs -> Call]
  BY DEF Inv, TypeOK
<1>3. /\ \A u \in TokenIds : row'[u].session = row[u].session
      /\ \A u \in TokenIds : ~row'[u].revoked => ~row[u].revoked
      /\ \A u \in TokenIds : u # t => row'[u] = row[u]
  <2>1. CASE row' = row
    BY <2>1
  <2>2. CASE row' = [row EXCEPT ![t].revoked = TRUE]
    BY <1>2, <2>2 DEF Row
  <2> QED BY <2>1, <2>2 DEF LogoutRevoke
<1>4. Kept
  <2>1. \A u \in TokenIds : Unused(u) => u # t
    BY DEF Unused
  <2> QED BY <1>1, <1>3, <2>1 DEF Kept, Live, Unused
<1>5. \A c \in Tabs : logout'[c].plain = logout[c].plain
  BY <1>2 DEF LogoutRevoke, Call
<1>6. Frame(jar) /\ ReplyInv'
  BY <1>1, <1>5 DEF Frame, Cookies, ReplyInv
<1> QED BY <1>1, <1>2, <1>4, <1>6, SameJar

\* A token nobody has seen, of this session or of a new one.
LEMMA NewToken ==
    ASSUME Inv, Cookies, count' = count + 1, count < MaxTokens
    PROVE  /\ count' \in TokenIds /\ ~Live(count') /\ count' # jar /\ count' # 0
           /\ \A c \in Tabs : refresh[c].plain # count' /\ logout[c].plain # count'
           /\ \A c \in Tabs : refresh[c].new # count' /\ login[c].new # count'
           /\ 1 .. count' = (1 .. count) \union {count'}
           /\ 0 .. count \subseteq 0 .. count'
<1>1. count \in Nat /\ count + 1 \in TokenIds /\ ~Live(count + 1) /\ count + 1 \notin 0 .. count
        /\ 1 .. (count + 1) = (1 .. count) \union {count + 1} /\ count + 1 # 0
        /\ 0 .. count \subseteq 0 .. (count + 1)
  BY SessionsAssumption, LiveIsToken DEF Inv, TypeOK, TokenIds, Tokens, Live
<1>2. \A c \in Tabs : refresh[c].new # count' /\ login[c].new # count'
  BY <1>1 DEF Cookies, FreshInv, Unused
<1> QED BY <1>1, <1>2 DEF Cookies, CookieInv

LEMMA CommitTable ==
    ASSUME Inv, Cookies, NEW b \in Tabs, RefreshCommit(b), NEW n, n = count + 1
    PROVE  LET t == refresh[b].plain IN
           /\ Live(t) /\ t # n /\ t \in TokenIds /\ n \in TokenIds /\ count' = n
           /\ row'[n].session = row[t].session /\ Live(n)'
           /\ \A u \in TokenIds \ {n} : row'[u].session = row[u].session
           /\ \A u \in TokenIds \ {n} : Live(u)' <=> (Live(u) /\ u # t)
           /\ refresh[b].pc = "claimed"
           /\ refresh'[b].pc = "done" /\ refresh'[b].new = n /\ refresh'[b].plain = t
           /\ \A c \in Tabs \ {b} : refresh'[c] = refresh[c]
           /\ UNCHANGED <<jar, logout, login, losses>>
<1> DEFINE t == refresh[b].plain
<1>1. Live(t) /\ refresh[b].pc = "claimed"
  BY DEF Inv, ClaimInv, RefreshCommit
<1>2. count' = n /\ count < MaxTokens /\ n \in TokenIds /\ ~Live(n)
  BY NewToken DEF RefreshCommit
<1>3. t \in TokenIds /\ t # n /\ row \in [TokenIds -> Row]
  BY <1>1, <1>2, LiveIsToken DEF Inv, TypeOK
<1>4. row' = [row EXCEPT ![t].revoked = TRUE, ![t].replacedBy = n, ![n] = NewRow(row[t].session)]
  BY DEF RefreshCommit
<1>5. row'[n] = NewRow(row[t].session) /\ \A u \in TokenIds \ {n, t} : row'[u] = row[u]
  BY <1>2, <1>3, <1>4
<1>6. row'[t].session = row[t].session /\ row'[t].revoked = TRUE
  BY <1>2, <1>3, <1>4 DEF Row
<1>7. NewRow(row[t].session).session = row[t].session /\ NewRow(row[t].session).revoked = FALSE
  BY DEF NewRow
<1>8. 1 .. count' = (1 .. count) \union {n}
  BY <1>2, NewToken
<1>9. Live(n)'
  BY <1>5, <1>7, <1>8 DEF Live
<1>10. \A u \in TokenIds \ {n} : row'[u].session = row[u].session
  BY <1>5, <1>6
<1>11. \A u \in TokenIds \ {n} : Live(u)' <=> (Live(u) /\ u # t)
  BY <1>5, <1>6, <1>8 DEF Live
<1>12. refresh'[b].pc = "done" /\ refresh'[b].new = n /\ refresh'[b].plain = t
         /\ \A c \in Tabs \ {b} : refresh'[c] = refresh[c]
  BY DEF RefreshCommit, Inv, TypeOK, Call
<1>13. UNCHANGED <<jar, logout, login, losses>>
  BY DEF RefreshCommit
<1> QED BY <1>1, <1>2, <1>3, <1>5, <1>7, <1>9, <1>10, <1>11, <1>12, <1>13

LEMMA RefreshCommitCookies ==
    ASSUME Inv, Cookies, NEW b \in Tabs, RefreshCommit(b)
    PROVE  Cookies'
<1>0. PICK n : n = count + 1
  OBVIOUS
<1> DEFINE t == refresh[b].plain
<1>1. /\ Live(t) /\ t # n /\ t \in TokenIds /\ n \in TokenIds /\ count' = n
      /\ row'[n].session = row[t].session /\ Live(n)'
      /\ \A u \in TokenIds \ {n} : row'[u].session = row[u].session
      /\ \A u \in TokenIds \ {n} : Live(u)' <=> (Live(u) /\ u # t)
      /\ refresh[b].pc = "claimed"
      /\ refresh'[b].pc = "done" /\ refresh'[b].new = n /\ refresh'[b].plain = t
      /\ \A c \in Tabs \ {b} : refresh'[c] = refresh[c]
      /\ UNCHANGED <<jar, logout, login, losses>>
  BY <1>0, CommitTable
<1>2. /\ ~Live(n) /\ n # jar /\ n # 0
      /\ \A c \in Tabs : refresh[c].plain # n /\ logout[c].plain # n
      /\ \A c \in Tabs : refresh[c].new # n /\ login[c].new # n
      /\ 0 .. count \subseteq 0 .. n
  BY <1>1, NewToken, ZenonT(30) DEF RefreshCommit
<1>3. refresh[b].new = 0
  BY <1>1 DEF Cookies, ReplyInv
<1>4. \A c \in Tabs : refresh'[c].plain = refresh[c].plain /\ logout'[c] = logout[c]
  BY <1>1
<1>5. CookieInv'
  BY <1>1, <1>2, <1>4 DEF Cookies, CookieInv
<1>6. ReplyInv'
  BY <1>1 DEF Cookies, ReplyInv
<1>7. FreshInv'
  <2>1. Unused(n)'
    BY <1>1, <1>2, <1>4 DEF Unused
  <2>2. \A u \in TokenIds : Unused(u) => Unused(u)'
    BY <1>1, <1>2, <1>4 DEF Unused
  <2>3. \A c \in Tabs, u \in TokenIds :
           refresh'[c].new = u \/ login'[c].new = u => u = n \/ Unused(u)
    BY <1>1 DEF Cookies, FreshInv
  <2>4. \A c \in Tabs, u \in TokenIds : refresh'[c].new = u \/ login'[c].new = u => Unused(u)'
    BY <2>1, <2>2, <2>3
  <2>5. \A c, d \in Tabs : refresh'[c].new # 0 => login'[d].new # refresh'[c].new
    BY <1>1, <1>2 DEF Cookies, FreshInv
  <2>6. \A c, d \in Tabs : refresh'[c].new # 0 /\ refresh'[d].new = refresh'[c].new => c = d
    BY <1>1, <1>2 DEF Cookies, FreshInv
  <2>7. \A c, d \in Tabs : login'[c].new # 0 /\ login'[d].new = login'[c].new => c = d
    BY <1>1 DEF Cookies, FreshInv
  <2> QED BY <2>4, <2>5, <2>6, <2>7 DEF FreshInv
<1>8. JarIsNewest'
  <2> SUFFICES ASSUME losses = 0, jar # 0, NEW u \in TokenIds, Live(u)',
                      row'[u].session = row'[jar].session, u # jar
               PROVE  \E c \in Tabs : refresh'[c].pc = "done" /\ refresh'[c].new = u
    BY <1>1 DEF JarIsNewest
  <2>1. CASE u = n
    BY <1>1, <2>1
  <2>2. CASE u # n
    <3>1. jar \in TokenIds
      BY LiveIsToken DEF Inv, TypeOK
    <3>2. Live(u) /\ row[u].session = row[jar].session
      BY <1>1, <1>2, <2>2, <3>1
    <3>3. PICK c \in Tabs : refresh[c].pc = "done" /\ refresh[c].new = u
      BY <3>2 DEF Cookies, JarIsNewest
    <3>4. c # b
      BY <1>1, <3>3
    <3> QED BY <1>1, <3>3, <3>4
  <2> QED BY <2>1, <2>2
<1> QED BY <1>5, <1>6, <1>7, <1>8 DEF Cookies

LEMMA LoginTable ==
    ASSUME Inv, Cookies, NEW b \in Tabs, LoginCreate(b), NEW n, n = count + 1
    PROVE  /\ n \in TokenIds /\ count' = n
           /\ row'[n].session = n /\ Live(n)'
           /\ \A u \in TokenIds \ {n} : row'[u].session = row[u].session
           /\ \A u \in TokenIds \ {n} : Live(u)' <=> Live(u)
           /\ \A u \in 0 .. count : u # 0 => row'[u].session # n
           /\ login[b].pc = "read" /\ login'[b].pc = "done" /\ login'[b].new = n
           /\ \A c \in Tabs \ {b} : login'[c] = login[c]
           /\ UNCHANGED <<jar, logout, refresh, losses>>
<1>1. count' = n /\ count < MaxTokens /\ n \in TokenIds
  BY NewToken DEF LoginCreate
<1>2. row' = [row EXCEPT ![n] = NewRow(n)] /\ row \in [TokenIds -> Row]
  BY DEF LoginCreate, Inv, TypeOK
<1>3. row'[n] = NewRow(n) /\ \A u \in TokenIds \ {n} : row'[u] = row[u]
  BY <1>1, <1>2
<1>4. NewRow(n).session = n /\ NewRow(n).revoked = FALSE
  BY DEF NewRow
<1>5. 1 .. count' = (1 .. count) \union {n}
  BY <1>1, NewToken
<1>6. Live(n)'
  BY <1>3, <1>4, <1>5 DEF Live
<1>7. \A u \in TokenIds \ {n} : Live(u)' <=> Live(u)
  BY <1>3, <1>5 DEF Live
<1>8. \A u \in 0 .. count : u # 0 => row'[u].session # n
  <2>1. \A u \in 0 .. count : u # 0 => u \in 1 .. count /\ u \in TokenIds /\ u # n
    BY LiveIsToken DEF Inv
  <2>2. \A u \in 1 .. count : row[u].session # n
    BY LiveIsToken DEF Inv, RowInv
  <2> QED BY <1>3, <2>1, <2>2
<1>9. login[b].pc = "read" /\ login'[b].pc = "done" /\ login'[b].new = n
         /\ \A c \in Tabs \ {b} : login'[c] = login[c]
  BY DEF LoginCreate, Inv, TypeOK, Call
<1>10. UNCHANGED <<jar, logout, refresh, losses>>
  BY DEF LoginCreate
<1> QED BY <1>1, <1>3, <1>4, <1>6, <1>7, <1>8, <1>9, <1>10

LEMMA LoginCreateCookies ==
    ASSUME Inv, Cookies, NEW b \in Tabs, LoginCreate(b)
    PROVE  Cookies'
<1>0. PICK n : n = count + 1
  OBVIOUS
<1>1. /\ n \in TokenIds /\ count' = n
      /\ row'[n].session = n /\ Live(n)'
      /\ \A u \in TokenIds \ {n} : row'[u].session = row[u].session
      /\ \A u \in TokenIds \ {n} : Live(u)' <=> Live(u)
      /\ \A u \in 0 .. count : u # 0 => row'[u].session # n
      /\ login[b].pc = "read" /\ login'[b].pc = "done" /\ login'[b].new = n
      /\ \A c \in Tabs \ {b} : login'[c] = login[c]
      /\ UNCHANGED <<jar, logout, refresh, losses>>
  BY <1>0, LoginTable
<1>2. /\ ~Live(n) /\ n # jar /\ n # 0
      /\ \A c \in Tabs : refresh[c].plain # n /\ logout[c].plain # n
      /\ \A c \in Tabs : refresh[c].new # n /\ login[c].new # n
      /\ 0 .. count \subseteq 0 .. n
  BY <1>1, NewToken DEF LoginCreate
<1>3. jar \in 0 .. count
  BY DEF Cookies, CookieInv
<1>5. CookieInv'
  BY <1>1, <1>2 DEF Cookies, CookieInv
<1>6. ReplyInv'
  BY <1>1 DEF Cookies, ReplyInv
<1>7. FreshInv'
  <2>1. Unused(n)'
    BY <1>1, <1>2 DEF Unused
  <2>2. \A u \in TokenIds : Unused(u) => Unused(u)'
    BY <1>1, <1>2 DEF Unused
  <2>3. \A c \in Tabs, u \in TokenIds :
           refresh'[c].new = u \/ login'[c].new = u => u = n \/ Unused(u)
    BY <1>1 DEF Cookies, FreshInv
  <2>4. \A c \in Tabs, u \in TokenIds : refresh'[c].new = u \/ login'[c].new = u => Unused(u)'
    BY <2>1, <2>2, <2>3
  <2>5. \A c, d \in Tabs : refresh'[c].new # 0 => login'[d].new # refresh'[c].new
    BY <1>1, <1>2 DEF Cookies, FreshInv
  <2>6. \A c, d \in Tabs : refresh'[c].new # 0 /\ refresh'[d].new = refresh'[c].new => c = d
    BY <1>1 DEF Cookies, FreshInv
  <2>7. \A c, d \in Tabs : login'[c].new # 0 /\ login'[d].new = login'[c].new => c = d
    BY <1>1, <1>2 DEF Cookies, FreshInv
  <2> QED BY <2>4, <2>5, <2>6, <2>7 DEF FreshInv
<1>8. JarIsNewest'
  <2> SUFFICES ASSUME losses = 0, jar # 0, NEW u \in TokenIds, Live(u)',
                      row'[u].session = row'[jar].session, u # jar
               PROVE  \E c \in Tabs : refresh[c].pc = "done" /\ refresh[c].new = u
    BY <1>1 DEF JarIsNewest
  <2>1. u # n
    BY <1>1, <1>3
  <2>2. jar \in TokenIds
    BY LiveIsToken DEF Inv, TypeOK
  <2>3. Live(u) /\ row[u].session = row[jar].session
    BY <1>1, <1>2, <2>1, <2>2
  <2> QED BY <2>3 DEF Cookies, JarIsNewest
<1> QED BY <1>5, <1>6, <1>7, <1>8 DEF Cookies

-----------------------------------------------------------------------------
(* The invariant.                                                          *)

CookieFacts == Inv /\ Cookies /\ QuietLogout

LEMMA CookieInit == Init => CookieFacts
<1> SUFFICES ASSUME Init PROVE CookieFacts
  OBVIOUS
<1>1. Inv
  BY InvOfInit
<1>2. /\ count = 0 /\ jar = 0 /\ 0 \in 0 .. 0
      /\ \A b \in Tabs : refresh[b] = Idle /\ login[b] = Idle /\ logout[b] = Idle
  BY DEF Init
<1>3. CookieInv /\ ReplyInv
  BY <1>2, CallFields DEF CookieInv, ReplyInv
<1>4. FreshInv
  BY <1>2, CallFields DEF FreshInv, TokenIds
<1>5. JarIsNewest /\ QuietLogout
  BY <1>2, CallFields DEF JarIsNewest, QuietLogout
<1> QED BY <1>1, <1>3, <1>4, <1>5 DEF CookieFacts, Cookies

LEMMA CookiesNext ==
    ASSUME CookieFacts, [Next]_vars
    PROVE  Cookies'
<1>1. Inv /\ Cookies
  BY DEF CookieFacts
<1>2. ASSUME NEW b \in Tabs, Serve(b) PROVE Cookies'
  BY <1>1, <1>2, RefreshStepCookies, RefreshCommitCookies, LogoutRevokeCookies,
     LoginCreateCookies, OtherCookies DEF Serve
<1>3. ASSUME NEW b \in Tabs, Browse(b) PROVE Cookies'
  BY <1>1, <1>3, ReloadCookies, ReceiveRefreshCookies, ReceiveLoginCookies,
     ReceiveLogoutCookies, LoseReplyCookies, OtherCookies DEF Browse
<1>4. ASSUME NEW t \in TokenIds, Expire(t) PROVE Cookies'
  <2>1. UNCHANGED <<count, jar, refresh, logout, login, losses>>
    BY <1>4 DEF Expire
  <2> QED BY <1>1, <1>4, <2>1, QuietCookies
<1>5. CASE Disable \/ UNCHANGED vars
  <2>1. UNCHANGED <<count, row, jar, refresh, logout, login, losses>>
    BY <1>5 DEF Disable, vars
  <2> QED BY <1>1, <2>1, QuietCookies
<1> QED BY <1>2, <1>3, <1>4, <1>5 DEF Next

\* A logout in flight meets no refresh, and no new token of its session.
LEMMA QuietKept ==
    ASSUME TypeOK, CookieInv, QuietLogout,
           losses' = 0 => losses = 0,
           \A c \in Tabs : refresh[c].pc = "idle" => refresh'[c].pc = "idle",
           \A u \in 0 .. count : u # 0 => row'[u].session = row[u].session,
           \A u \in TokenIds : Live(u)' =>
              \/ Live(u) /\ row'[u].session = row[u].session
              \/ \A x \in 0 .. count : x # 0 => row'[x].session # row'[u].session,
           \A c \in Tabs : logout'[c] = logout[c] \/ logout'[c].pc = "idle" \/ logout'[c].raced
    PROVE  QuietLogout'
<1> SUFFICES ASSUME NEW b \in Tabs, logout'[b].pc # "idle", ~logout'[b].raced
             PROVE  /\ \A c \in Tabs : refresh'[c].pc = "idle"
                    /\ losses' = 0 /\ logout'[b].plain # 0 =>
                          \A t \in TokenIds :
                              Live(t)' /\ row'[t].session = row'[logout'[b].plain].session =>
                                  logout'[b].pc = "sent" /\ t = logout'[b].plain
  BY DEF QuietLogout
<1>1. logout'[b] = logout[b] /\ logout[b].plain \in 0 .. count
  BY DEF CookieInv
<1>2. \A c \in Tabs : refresh'[c].pc = "idle"
  BY <1>1 DEF QuietLogout
<1>3. ASSUME losses' = 0, logout'[b].plain # 0, NEW t \in TokenIds, Live(t)',
             row'[t].session = row'[logout'[b].plain].session
      PROVE  logout'[b].pc = "sent" /\ t = logout'[b].plain
  <2>1. Live(t) /\ row[t].session = row[logout[b].plain].session
    BY <1>1, <1>3
  <2> QED BY <1>1, <1>3, <2>1 DEF QuietLogout
<1> QED BY <1>2, <1>3

\* A refresh in flight has raced with every logout there is.
LEMMA QuietVacuous ==
    ASSUME QuietLogout, NEW b \in Tabs, refresh[b].pc # "idle", logout' = logout
    PROVE  QuietLogout'
BY DEF QuietLogout

LEMMA QuietServe ==
    ASSUME CookieFacts, NEW b \in Tabs, Serve(b)
    PROVE  QuietLogout'
<1>1. TypeOK /\ CookieInv /\ QuietLogout /\ Inv /\ Cookies /\ logout \in [Tabs -> Call]
  BY DEF CookieFacts, Inv, Cookies, TypeOK
<1>2. \A u \in 0 .. count : u # 0 => u \in TokenIds
  BY <1>1, LiveIsToken
<1>3. CASE RefreshRead(b) \/ RefreshClaim(b) \/ RefreshRefused(b)
           \/ RefreshCommit(b) \/ RefreshAborts(b)
  <2>1. refresh[b].pc # "idle" /\ logout' = logout
    BY <1>3 DEF RefreshRead, RefreshClaim, RefreshRefused, RefreshCommit, RefreshAborts
  <2> QED BY <1>1, <2>1, QuietVacuous
<1>4. CASE LogoutRevoke(b)
  <2> SUFFICES ASSUME NEW c \in Tabs, logout'[c].pc # "idle", ~logout'[c].raced
               PROVE  /\ \A d \in Tabs : refresh'[d].pc = "idle"
                      /\ losses' = 0 /\ logout'[c].plain # 0 =>
                            \A t \in TokenIds :
                                Live(t)' /\ row'[t].session = row'[logout'[c].plain].session =>
                                    logout'[c].pc = "sent" /\ t = logout'[c].plain
    BY DEF QuietLogout
  <2>1. Kept /\ refresh' = refresh /\ losses' = losses
    BY <1>1, <1>4, LogoutRevokeCookies DEF LogoutRevoke
  <2>2. /\ logout'[c].plain = logout[c].plain /\ (c # b => logout'[c] = logout[c])
        /\ logout[c].pc # "idle" /\ ~logout[c].raced
    <3>1. logout[b].pc = "sent" /\ logout' = [logout EXCEPT ![b].pc = "done"]
      BY <1>4 DEF LogoutRevoke
    <3>2. CASE c = b
      BY <1>1, <3>1, <3>2 DEF Call
    <3>3. CASE c # b
      BY <1>1, <3>1, <3>3
    <3> QED BY <3>2, <3>3
  <2>3. \A d \in Tabs : refresh'[d].pc = "idle"
    BY <1>1, <2>1, <2>2 DEF QuietLogout
  <2>4. ASSUME losses' = 0, logout'[c].plain # 0, NEW t \in TokenIds, Live(t)',
               row'[t].session = row'[logout'[c].plain].session
        PROVE  logout'[c].pc = "sent" /\ t = logout'[c].plain
    <3>1. logout[c].plain \in TokenIds
      BY <1>1, <1>2, <2>2, <2>4 DEF CookieInv
    <3>2. Live(t) /\ row[t].session = row[logout[c].plain].session
      BY <2>1, <2>2, <2>4, <3>1 DEF Kept
    <3>3. logout[c].pc = "sent" /\ t = logout[c].plain
      BY <1>1, <2>1, <2>2, <2>4, <3>2 DEF QuietLogout
    <3>4. c # b
      <4>1. SUFFICES ASSUME c = b PROVE FALSE
        OBVIOUS
      <4>2. row' = [row EXCEPT ![t].revoked = TRUE] /\ row \in [TokenIds -> Row]
        BY <1>1, <1>4, <3>2, <3>3, <4>1 DEF LogoutRevoke, TypeOK
      <4>3. row'[t].revoked = TRUE
        BY <4>2 DEF Row
      <4> QED BY <2>4, <4>3 DEF Live
    <3> QED BY <2>2, <3>3, <3>4
  <2> QED BY <2>3, <2>4
<1>5. CASE LogoutFails(b)
  <2>1. UNCHANGED <<refresh, count, row>> /\ losses' # 0
    BY <1>1, <1>5, SessionsAssumption DEF LogoutFails, server, TypeOK
  <2>2. \A c \in Tabs : /\ logout'[c].pc # "idle" => logout[c].pc # "idle"
                        /\ logout'[c].raced = logout[c].raced
    <3>1. logout[b].pc = "sent" /\ logout' = [logout EXCEPT ![b].pc = "done"]
      BY <1>5 DEF LogoutFails
    <3> QED BY <1>1, <3>1 DEF Call
  <2>3. \A c \in Tabs : logout'[c].pc # "idle" /\ ~logout'[c].raced =>
           \A d \in Tabs : refresh'[d].pc = "idle"
    BY <1>1, <2>1, <2>2 DEF QuietLogout
  <2> QED BY <2>1, <2>3 DEF QuietLogout
<1>6. CASE LoginCheck(b) \/ LoginAborts(b)
  <2>1. UNCHANGED <<count, row, refresh, logout, losses>>
    BY <1>6 DEF LoginCheck, LoginAborts, server
  <2>2. \A t : Live(t)' = Live(t)
    BY <2>1, UnchangedTable
  <2> QED BY <1>1, <2>1, <2>2, QuietKept
<1>7. CASE LoginCreate(b)
  <2>0. PICK n : n = count + 1
    OBVIOUS
  <2>1. /\ row'[n].session = n
        /\ \A u \in TokenIds \ {n} : row'[u].session = row[u].session
        /\ \A u \in TokenIds \ {n} : Live(u)' <=> Live(u)
        /\ \A u \in 0 .. count : u # 0 => row'[u].session # n
        /\ UNCHANGED <<refresh, logout, losses>>
    BY <1>1, <1>7, <2>0, LoginTable
  <2>2. \A u \in 0 .. count : u # n
    BY <1>1, <2>0, LiveIsToken
  <2>3. \A u \in 0 .. count : u # 0 => row'[u].session = row[u].session
    BY <1>2, <2>1, <2>2
  <2>4. \A u \in TokenIds : Live(u)' =>
              \/ Live(u) /\ row'[u].session = row[u].session
              \/ \A x \in 0 .. count : x # 0 => row'[x].session # row'[u].session
    BY <2>1
  <2> QED BY <1>1, <2>1, <2>3, <2>4, QuietKept
<1> QED BY <1>3, <1>4, <1>5, <1>6, <1>7 DEF Serve

LEMMA QuietBrowse ==
    ASSUME CookieFacts, NEW b \in Tabs, Browse(b)
    PROVE  QuietLogout'
<1>1. TypeOK /\ CookieInv /\ QuietLogout /\ Inv /\ Cookies /\ logout \in [Tabs -> Call]
  BY DEF CookieFacts, Inv, Cookies, TypeOK
<1>2. UNCHANGED <<count, row>> /\ (losses' = 0 => losses = 0)
  <2>1. UNCHANGED <<count, row>> /\ losses' \in {losses, losses + 1}
    BY DEF Browse, Reload, Unauthorized, ReceiveRefresh, SendLogout, ReceiveLogout,
           SendLogin, ReceiveLogin, LoseReply, server
  <2>2. losses \in Nat
    BY <1>1 DEF TypeOK
  <2> QED BY <2>1, <2>2
<1>3. \A t : Live(t)' = Live(t)
  BY <1>2, UnchangedTable
<1>4. CASE Reload(b) \/ Unauthorized(b) \/ (ReceiveLogin(b) /\ login[b].new # 0)
  <2>1. PICK k : TryRefresh(b, k)
    BY <1>4 DEF Reload, Unauthorized, ReceiveLogin
  <2>2. CASE refresh[b].pc = "idle"
    <3>1. \A c \in Tabs : logout'[c].pc = "idle" \/ logout'[c].raced
      <4>1. logout' = [x \in Tabs |-> IF logout[x].pc = "idle" THEN Idle
                                      ELSE [logout[x] EXCEPT !.raced = TRUE]]
        BY <2>1, <2>2 DEF TryRefresh
      <4>2. \A c \in Tabs : [logout[c] EXCEPT !.raced = TRUE].raced = TRUE
        BY <1>1 DEF Call
      <4>3. \A c \in Tabs : logout'[c] = Idle \/ logout'[c] = [logout[c] EXCEPT !.raced = TRUE]
        BY <4>1
      <4> QED BY <4>2, <4>3, CallFields
    <3> QED BY <3>1 DEF QuietLogout
  <2>3. CASE refresh[b].pc # "idle"
    <3>1. logout' = logout
      BY <2>1, <2>3 DEF TryRefresh
    <3> QED BY <1>1, <2>3, <3>1, QuietVacuous
  <2> QED BY <2>2, <2>3
<1>5. CASE SendLogin(b) \/ (ReceiveLogin(b) /\ login[b].new = 0)
  <2>1. UNCHANGED <<refresh, logout>>
    BY <1>5 DEF SendLogin, ReceiveLogin
  <2> QED BY <1>1, <1>2, <1>3, <2>1, QuietKept
<1>6. CASE ReceiveRefresh(b)
  <2>1. refresh[b].pc # "idle" /\ logout' = logout
    BY <1>6 DEF ReceiveRefresh
  <2> QED BY <1>1, <2>1, QuietVacuous
<1>7. CASE LoseReply(b)
  <2>1. \A c \in Tabs : refresh[c].pc = "idle" => refresh'[c].pc = "idle"
    BY <1>1, <1>7, CallFields DEF LoseReply, TypeOK
  <2>2. \A c \in Tabs : logout'[c] = logout[c] \/ logout'[c].pc = "idle"
    BY <1>1, <1>7, CallFields DEF LoseReply
  <2> QED BY <1>1, <1>2, <1>3, <2>1, <2>2, QuietKept
<1>8. CASE ReceiveLogout(b)
  <2>1. \A c \in Tabs : refresh[c].pc = "idle" => refresh'[c].pc = "idle"
    BY <1>8 DEF ReceiveLogout
  <2>2. \A c \in Tabs : logout'[c] = logout[c] \/ logout'[c].pc = "idle"
    BY <1>1, <1>8, CallFields DEF ReceiveLogout
  <2> QED BY <1>1, <1>2, <1>3, <2>1, <2>2, QuietKept
<1>9. CASE SendLogout(b)
  <2> DEFINE overlap == \E x \in Tabs : refresh[x].pc # "idle"
  <2>1. logout' = [logout EXCEPT ![b] = [Sent(jar) EXCEPT !.raced = overlap]]
          /\ UNCHANGED <<refresh, losses, jar>>
    BY <1>9 DEF SendLogout
  <2>2. CASE overlap
    <3>1. PICK x \in Tabs : refresh[x].pc # "idle"
      BY <2>2
    <3>2. \A c \in Tabs \ {b} : logout'[c] = logout[c]
      BY <1>1, <2>1
    <3>3. logout'[b] = [Sent(jar) EXCEPT !.raced = overlap]
      BY <1>1, <2>1
    <3>4. logout'[b].raced
      BY <2>2, <3>3, CallFields
    <3> QED BY <1>1, <3>1, <3>2, <3>4 DEF QuietLogout
  <2>3. CASE ~overlap
    <3>1. /\ \A c \in Tabs \ {b} : logout'[c] = logout[c]
          /\ logout'[b].pc = "sent" /\ logout'[b].plain = jar
      BY <1>1, <2>1, CallFields
    <3>2. \A c \in Tabs : refresh'[c].pc = "idle" /\ refresh[c].pc = "idle"
      BY <2>1, <2>3
    <3>3. losses = 0 /\ jar # 0 => \A t \in TokenIds :
             Live(t) /\ row[t].session = row[jar].session => t = jar
      BY <1>1, <3>2 DEF Cookies, JarIsNewest
    <3>4. \A c \in Tabs \ {b} : logout'[c].pc # "idle" /\ ~logout'[c].raced =>
             (losses' = 0 /\ logout'[c].plain # 0 =>
                \A t \in TokenIds :
                   Live(t)' /\ row'[t].session = row'[logout'[c].plain].session =>
                      logout'[c].pc = "sent" /\ t = logout'[c].plain)
      BY <1>1, <1>2, <1>3, <2>1, <3>1 DEF QuietLogout
    <3>5. losses' = 0 /\ jar # 0 => \A t \in TokenIds :
             Live(t)' /\ row'[t].session = row'[jar].session => t = jar
      BY <1>2, <1>3, <2>1, <3>3
    <3>6. \A c \in Tabs : logout'[c].pc # "idle" /\ ~logout'[c].raced =>
             /\ \A d \in Tabs : refresh'[d].pc = "idle"
             /\ losses' = 0 /\ logout'[c].plain # 0 =>
                  \A t \in TokenIds :
                     Live(t)' /\ row'[t].session = row'[logout'[c].plain].session =>
                        logout'[c].pc = "sent" /\ t = logout'[c].plain
      BY <3>1, <3>2, <3>4, <3>5
    <3> QED BY <3>6 DEF QuietLogout
  <2> QED BY <2>2, <2>3
<1> QED BY <1>4, <1>5, <1>6, <1>7, <1>8, <1>9 DEF Browse

LEMMA CookieStep == CookieFacts /\ [Next]_vars => CookieFacts'
<1> SUFFICES ASSUME CookieFacts, [Next]_vars PROVE CookieFacts'
  OBVIOUS
<1>1. Inv' /\ Cookies'
  BY InvOfStep, CookiesNext DEF CookieFacts
<1>2. TypeOK /\ CookieInv /\ QuietLogout
  BY DEF CookieFacts, Inv, Cookies
<1>3. ASSUME NEW t \in TokenIds, Expire(t) PROVE QuietLogout'
  <2>1. UNCHANGED <<count, refresh, logout, losses>> /\ row' = [row EXCEPT ![t].expired = TRUE]
    BY <1>3 DEF Expire
  <2>2. \A u \in TokenIds : row'[u].session = row[u].session /\ row'[u].revoked = row[u].revoked
    BY <1>2, <2>1 DEF TypeOK, Row
  <2>3. \A u \in TokenIds : Live(u)' = Live(u)
    BY <2>1, <2>2 DEF Live
  <2>4. \A u \in 0 .. count : u # 0 => row'[u].session = row[u].session
    BY <1>2, <2>2, LiveIsToken
  <2> QED BY <1>2, <2>1, <2>2, <2>3, <2>4, QuietKept
<1>4. ASSUME Disable \/ UNCHANGED vars PROVE QuietLogout'
  <2>1. UNCHANGED <<count, row, refresh, logout, losses>>
    BY <1>4 DEF Disable, vars
  <2>2. \A t : Live(t)' = Live(t)
    BY <2>1, UnchangedTable
  <2> QED BY <1>2, <2>1, <2>2, QuietKept
<1>5. QuietLogout'
  BY <1>3, <1>4, QuietServe, QuietBrowse DEF Next
<1> QED BY <1>1, <1>5 DEF CookieFacts

LEMMA CookieAlways == Spec => []CookieFacts
BY CookieInit, CookieStep, PTL DEF Spec

-----------------------------------------------------------------------------
(* The theorems.                                                           *)

(* As long as no reply is lost, the browser always holds the live token of *)
(* the session its cookie belongs to, or is about to: however many tabs    *)
(* refresh the one cookie at once, none leaves it a token that was rotated *)
(* away by another (setRefreshCookie in auth.go, tryRefresh in client.ts). *)
THEOREM CookieIsNewest == Spec => []JarIsNewest
<1>1. CookieFacts => JarIsNewest
  BY DEF CookieFacts, Cookies
<1> QED BY <1>1, CookieAlways, PTL

(* A logout that is answered has ended the session of its cookie, unless a *)
(* reply was lost, its UPDATE failed, or a refresh was in flight with it.  *)
THEOREM LogoutEndsItsSession == Spec => LogoutEndsSession
<1> DEFINE Ended == \A b \in Tabs :
               /\ logout[b].pc = "done" /\ logout'[b].pc = "idle"
               /\ losses' = 0 /\ ~logout[b].raced /\ logout[b].plain # 0
               => \A t \in TokenIds :
                     Live(t) => row[t].session # row[logout[b].plain].session
<1>1. CookieFacts /\ [Next]_vars => Ended
  <2> SUFFICES ASSUME CookieFacts, [Next]_vars, NEW b \in Tabs,
                      logout[b].pc = "done", logout'[b].pc = "idle",
                      losses' = 0, ~logout[b].raced, logout[b].plain # 0,
                      NEW t \in TokenIds, Live(t),
                      row[t].session = row[logout[b].plain].session
               PROVE  FALSE
    OBVIOUS
  <2>1. losses = 0
    <3>1. losses \in Nat
      BY DEF CookieFacts, Inv, TypeOK
    <3>2. ASSUME NEW c \in Tabs, Serve(c) PROVE losses' \in {losses, losses + 1}
      BY <3>2 DEF Serve, RefreshRead, RefreshClaim, RefreshRefused, RefreshCommit,
                  RefreshAborts, LogoutRevoke, LogoutFails, LoginCheck, LoginCreate, LoginAborts
    <3>3. ASSUME NEW c \in Tabs, Browse(c) PROVE losses' \in {losses, losses + 1}
      BY <3>3 DEF Browse, Reload, Unauthorized, ReceiveRefresh, SendLogout, ReceiveLogout,
                  SendLogin, ReceiveLogin, LoseReply
    <3>4. losses' \in {losses, losses + 1}
      BY <3>2, <3>3 DEF Next, vars, Expire, Disable
    <3> QED BY <3>1, <3>4
  <2> QED BY <2>1 DEF CookieFacts, QuietLogout
<1>2. Spec => [][Ended]_vars
  BY <1>1, CookieAlways, PTL DEF Spec
<1> QED BY <1>2 DEF LogoutEndsSession
=============================================================================
