-------------------------- MODULE SessionsProofs --------------------------
(***************************************************************************)
(* Proofs about Sessions for any number of tabs, tokens and losses.        *)
(*                                                                         *)
(* OneLivePerSession and LogoutIsFinal are not inductive: a commit is safe *)
(* only because its claim still holds the row, which was alive then and    *)
(* which no other request can claim or revoke (ClaimInv).  RowInv says     *)
(* that a new row starts a session no older row belongs to.                *)
(***************************************************************************)
EXTENDS Sessions, TLAPS

Claims(b, t) == refresh[b].pc = "claimed" /\ refresh[b].plain = t

ClaimInv ==
    /\ \A b \in Tabs : refresh[b].pc \in {"read", "claimed"} => refresh[b].plain \in 1 .. count
    /\ \A b \in Tabs : refresh[b].pc = "claimed" => Live(refresh[b].plain)
    /\ \A b, c \in Tabs :
          /\ refresh[b].pc = "claimed" /\ refresh[c].pc = "claimed"
          /\ refresh[b].plain = refresh[c].plain
          => b = c

RowInv ==
    /\ \A t \in 1 .. count : row[t].session \in 1 .. count
    /\ ended \subseteq 1 .. count

Inv == TypeOK /\ ClaimInv /\ RowInv /\ OneLivePerSession /\ LogoutIsFinal

-----------------------------------------------------------------------------
(* What each kind of step does to the table.                               *)

Stored == RowInv /\ OneLivePerSession /\ LogoutIsFinal

LEMMA TableUnchanged ==
    ASSUME Stored, UNCHANGED <<count, row, ended>>
    PROVE  Stored'
BY DEF Stored, RowInv, OneLivePerSession, LogoutIsFinal, Live

\* INSERT of the first row of a session.
LEMMA TableStart ==
    ASSUME TypeOK, Stored, count < MaxTokens, count' = count + 1,
           row' = [row EXCEPT ![count + 1] = NewRow(count + 1)], ended' = ended
    PROVE  Stored' /\ row' \in [TokenIds -> Row] /\ count' \in Tokens
<1> DEFINE n == count + 1
<1>1. n \in TokenIds /\ n \in Tokens /\ n \notin 1 .. count /\ 1 .. n = (1 .. count) \union {n}
  BY SessionsAssumption DEF TypeOK, Tokens, TokenIds
<1>2. NewRow(n) \in Row /\ NewRow(n).session = n
  BY <1>1, SessionsAssumption DEF NewRow, Row, Tokens
<1>3. row' \in [TokenIds -> Row]
  BY <1>1, <1>2 DEF TypeOK
<1>4. row'[n] = NewRow(n) /\ \A u \in TokenIds \ {n} : row'[u] = row[u]
  BY <1>1 DEF TypeOK
<1>5. 1 .. count \subseteq TokenIds \ {n}
  BY SessionsAssumption DEF TypeOK, Tokens, TokenIds
<1>6. RowInv'
  BY <1>1, <1>2, <1>4, <1>5 DEF Stored, RowInv
<1>7. \A u \in TokenIds : Live(u)' => u = n \/ (Live(u) /\ row'[u] = row[u])
  BY <1>1, <1>4, <1>5 DEF Live
<1>8. \A u \in TokenIds : Live(u) => row[u].session # n
  BY <1>1 DEF Stored, RowInv, Live
<1>9. OneLivePerSession'
  BY <1>2, <1>4, <1>7, <1>8 DEF Stored, OneLivePerSession
<1>10. LogoutIsFinal'
  BY <1>1, <1>2, <1>4, <1>7 DEF Stored, RowInv, LogoutIsFinal
<1> QED BY <1>1, <1>3, <1>6, <1>9, <1>10 DEF Stored

\* The commit of a rotation: a live row is revoked, and its successor added.
LEMMA TableRotate ==
    ASSUME TypeOK, Stored, NEW t, Live(t), count < MaxTokens, count' = count + 1,
           row' = [row EXCEPT ![t].revoked = TRUE, ![t].replacedBy = count + 1,
                              ![count + 1] = NewRow(row[t].session)],
           ended' = ended
    PROVE  /\ Stored' /\ row' \in [TokenIds -> Row] /\ count' \in Tokens
           /\ \A u \in TokenIds : Live(u) /\ u # t => Live(u)'
<1> DEFINE n == count + 1
<1>1. n \in TokenIds /\ n \in Tokens /\ n \notin 1 .. count /\ 1 .. n = (1 .. count) \union {n}
  BY SessionsAssumption DEF TypeOK, Tokens, TokenIds
<1>2. t \in 1 .. count /\ t \in TokenIds /\ t # n /\ ~row[t].revoked
  BY <1>1, SessionsAssumption DEF Live, TypeOK, Tokens, TokenIds
<1>3. row[t] \in Row /\ row[t].session \in 1 .. count /\ row[t].session \in Tokens
  BY <1>2 DEF TypeOK, Stored, RowInv, Row
<1>4. NewRow(row[t].session) \in Row /\ NewRow(row[t].session).session = row[t].session
  BY <1>3, SessionsAssumption DEF NewRow, Row, Tokens
<1> DEFINE old == [[row[t] EXCEPT !.revoked = TRUE] EXCEPT !.replacedBy = n]
<1>5. old \in Row /\ old.session = row[t].session /\ old.revoked = TRUE
  BY <1>1, <1>3 DEF Row
<1>6. row' = [u \in TokenIds |-> IF u = n THEN NewRow(row[t].session)
                                 ELSE IF u = t THEN old ELSE row[u]]
  BY <1>1, <1>2 DEF TypeOK
<1>7. row' \in [TokenIds -> Row]
  BY <1>4, <1>5, <1>6 DEF TypeOK
<1>8. row'[n] = NewRow(row[t].session) /\ row'[t] = old /\ \A u \in TokenIds \ {n, t} : row'[u] = row[u]
  BY <1>1, <1>2, <1>6
<1>9. 1 .. count \subseteq TokenIds \ {n}
  BY SessionsAssumption DEF TypeOK, Tokens, TokenIds
<1> HIDE DEF old
<1>10. RowInv'
  BY <1>1, <1>3, <1>4, <1>5, <1>8, <1>9, ZenonT(30) DEF Stored, RowInv
<1>11. \A u \in TokenIds : Live(u)' => u = n \/ (Live(u) /\ u # t /\ row'[u] = row[u])
  BY <1>1, <1>5, <1>8, <1>9 DEF Live
<1>12. \A u \in TokenIds : Live(u) /\ u # t => row[u].session # row[t].session
  BY <1>2 DEF Stored, OneLivePerSession
<1>13. OneLivePerSession'
  BY <1>4, <1>8, <1>11, <1>12 DEF Stored, OneLivePerSession
<1>14. LogoutIsFinal'
  <2>1. \A u \in TokenIds : Live(u) => row[u].session \notin ended
    BY DEF Stored, LogoutIsFinal
  <2>2. row[t].session \notin ended
    BY <1>2, <2>1
  <2>3. \A u \in TokenIds : Live(u)' => row'[u].session \notin ended
    BY <1>4, <1>8, <1>11, <2>1, <2>2
  <2> QED BY <2>3 DEF LogoutIsFinal
<1>15. \A u \in TokenIds : Live(u) /\ u # t => Live(u)'
  BY <1>1, <1>8, <1>9 DEF Live
<1> QED BY <1>1, <1>7, <1>10, <1>13, <1>14, <1>15 DEF Stored

\* The UPDATE of a logout that finds the row alive.
LEMMA TableRevoke ==
    ASSUME TypeOK, Stored, NEW t, Live(t), count' = count,
           row' = [row EXCEPT ![t].revoked = TRUE],
           ended' = ended \union {row[t].session}
    PROVE  /\ Stored' /\ row' \in [TokenIds -> Row] /\ ended' \subseteq Tokens
           /\ \A u \in TokenIds : Live(u) /\ u # t => Live(u)'
<1>1. t \in 1 .. count /\ t \in TokenIds /\ 1 .. count \subseteq TokenIds /\ ~row[t].revoked
  BY SessionsAssumption DEF Live, TypeOK, Tokens, TokenIds
<1>2. row[t] \in Row /\ row[t].session \in 1 .. count /\ row[t].session \in Tokens
  BY <1>1 DEF TypeOK, Stored, RowInv, Row
<1> DEFINE old == [row[t] EXCEPT !.revoked = TRUE]
<1>3. old \in Row /\ old.session = row[t].session /\ old.revoked = TRUE
  BY <1>2 DEF Row
<1>4. row' = [u \in TokenIds |-> IF u = t THEN old ELSE row[u]]
  BY <1>1 DEF TypeOK
<1>5. row' \in [TokenIds -> Row]
  BY <1>3, <1>4 DEF TypeOK
<1>6. row'[t] = old /\ \A u \in TokenIds \ {t} : row'[u] = row[u]
  BY <1>1, <1>4
<1> HIDE DEF old
<1>7. RowInv'
  BY <1>1, <1>2, <1>3, <1>6 DEF Stored, RowInv
<1>8. \A u \in TokenIds : Live(u)' => Live(u) /\ u # t /\ row'[u] = row[u]
  BY <1>1, <1>3, <1>6 DEF Live
<1>9. \A u \in TokenIds : Live(u) /\ u # t => row[u].session # row[t].session
  BY <1>1 DEF Stored, OneLivePerSession
<1>10. OneLivePerSession' /\ LogoutIsFinal'
  BY <1>8, <1>9 DEF Stored, OneLivePerSession, LogoutIsFinal
<1>11. \A u \in TokenIds : Live(u) /\ u # t => Live(u)'
  BY <1>6 DEF Live
<1>12. ended' \subseteq Tokens
  BY <1>2 DEF TypeOK
<1> QED BY <1>5, <1>7, <1>10, <1>11, <1>12 DEF Stored

\* Expiry touches a column nothing here depends on.
LEMMA TableExpire ==
    ASSUME TypeOK, Stored, NEW t \in TokenIds, count' = count, ended' = ended,
           row' = [row EXCEPT ![t].expired = TRUE]
    PROVE  Stored' /\ row' \in [TokenIds -> Row] /\ \A u \in TokenIds : Live(u)' = Live(u)
<1>1. row[t] \in Row /\ 1 .. count \subseteq TokenIds
  BY SessionsAssumption DEF TypeOK, Tokens, TokenIds
<1> DEFINE old == [row[t] EXCEPT !.expired = TRUE]
<1>2. old \in Row /\ old.session = row[t].session /\ old.revoked = row[t].revoked
  BY <1>1 DEF Row
<1>3. row' = [u \in TokenIds |-> IF u = t THEN old ELSE row[u]]
  BY DEF TypeOK
<1>4. row' \in [TokenIds -> Row]
  BY <1>2, <1>3 DEF TypeOK
<1>5. \A u \in TokenIds : row'[u].session = row[u].session /\ row'[u].revoked = row[u].revoked
  BY <1>2, <1>3
<1>6. \A u \in TokenIds : Live(u)' = Live(u)
  BY <1>5 DEF Live
<1>7. Stored'
  BY <1>1, <1>5, <1>6 DEF Stored, RowInv, OneLivePerSession, LogoutIsFinal
<1> QED BY <1>4, <1>6, <1>7

-----------------------------------------------------------------------------
(* Claims.                                                                 *)

\* A step that changes no refresh and keeps the claimed rows alive.
LEMMA ClaimsKept ==
    ASSUME TypeOK, ClaimInv, count' \in Nat, count =< count', refresh' = refresh,
           \A t \in TokenIds : Live(t) /\ Locked(t) => Live(t)'
    PROVE  ClaimInv'
<1>1. 1 .. count \subseteq 1 .. count' /\ 1 .. count \subseteq TokenIds
  BY SessionsAssumption DEF TypeOK, Tokens, TokenIds
<1>2. \A b \in Tabs : refresh[b].pc = "claimed" => Live(refresh[b].plain)'
  BY <1>1 DEF ClaimInv, Locked
<1> QED BY <1>1, <1>2 DEF ClaimInv

\* A step of one refresh, by the claim it has afterwards.
LEMMA ClaimsMoved ==
    ASSUME TypeOK, ClaimInv, count' \in Nat, count =< count', NEW b \in Tabs, NEW e,
           refresh' = [refresh EXCEPT ![b] = e],
           e.pc \in {"read", "claimed"} => e.plain \in 1 .. count,
           e.pc = "claimed" => Live(e.plain)' /\ \A c \in Tabs \ {b} : ~Claims(c, e.plain),
           \A c \in Tabs \ {b} : refresh[c].pc = "claimed" => Live(refresh[c].plain)'
    PROVE  ClaimInv'
<1>1. 1 .. count \subseteq 1 .. count'
  BY SessionsAssumption DEF TypeOK, Tokens
<1>2. refresh'[b] = e /\ \A c \in Tabs \ {b} : refresh'[c] = refresh[c]
  BY DEF TypeOK
<1>3. \A c \in Tabs : refresh'[c].pc \in {"read", "claimed"} => refresh'[c].plain \in 1 .. count'
  BY <1>1, <1>2 DEF ClaimInv
<1>4. ASSUME NEW c \in Tabs, refresh'[c].pc = "claimed"
      PROVE  refresh'[c].plain \in 1 .. count' /\ ~row'[refresh'[c].plain].revoked
  BY <1>2, <1>4 DEF Live
<1>5. \A c, d \in Tabs :
        /\ refresh'[c].pc = "claimed" /\ refresh'[d].pc = "claimed"
        /\ refresh'[c].plain = refresh'[d].plain
        => c = d
  BY <1>2 DEF ClaimInv, Claims
<1> QED BY <1>3, <1>4, <1>5 DEF ClaimInv, Live

-----------------------------------------------------------------------------
(* The actions.                                                            *)

\* The record that a step of a refresh leaves behind.
LEMMA CallStep ==
    ASSUME NEW e \in Call, NEW p \in {"idle", "sent", "read", "claimed", "done"}
    PROVE  /\ [e EXCEPT !.pc = p] \in Call
           /\ [e EXCEPT !.pc = p].pc = p
           /\ [e EXCEPT !.pc = p].plain = e.plain
BY DEF Call

LEMMA FreshCalls ==
    /\ 0 \in Tokens /\ Idle \in Call /\ Idle.pc = "idle"
    /\ \A t \in Tokens : Sent(t) \in Call /\ Sent(t).pc = "sent"
    /\ \A e \in Call : \A r \in BOOLEAN : [e EXCEPT !.raced = r] \in Call
<1>1. 0 \in Tokens
  BY SessionsAssumption DEF Tokens
<1>2. Idle \in Call /\ Idle.pc = "idle"
  BY <1>1 DEF Idle, Call
<1>3. \A t \in Tokens : Sent(t) \in Call /\ Sent(t).pc = "sent"
  BY <1>1 DEF Sent, Idle, Call
<1>4. \A e \in Call : \A r \in BOOLEAN : [e EXCEPT !.raced = r] \in Call
  BY DEF Call
<1> QED BY <1>1, <1>2, <1>3, <1>4

LEMMA InvOfInit == Init => Inv
<1> SUFFICES ASSUME Init PROVE Inv
  OBVIOUS
<1>1. 0 \in Tokens /\ 0 \in 0 .. MaxLosses /\ 1 .. 0 = {}
  BY SessionsAssumption DEF Tokens
<1>2. Idle \in Call /\ Idle.pc = "idle" /\ NewRow(0) \in Row
  BY <1>1, FreshCalls DEF NewRow, Row
<1>3. TypeOK
  BY <1>1, <1>2 DEF Init, TypeOK
<1>4. \A t \in TokenIds : ~Live(t)
  BY <1>1 DEF Init, Live
<1> QED BY <1>1, <1>2, <1>3, <1>4 DEF Init, Inv, ClaimInv, RowInv, OneLivePerSession, LogoutIsFinal

\* A step of one refresh that leaves the table alone, by the call it leaves.
LEMMA QuietMove ==
    ASSUME Inv, TypeOK', UNCHANGED <<count, row, ended>>,
           NEW b \in Tabs, NEW e, refresh' = [refresh EXCEPT ![b] = e],
           e.pc \in {"read", "claimed"} => e.plain \in 1 .. count,
           e.pc = "claimed" => Live(e.plain) /\ ~Locked(e.plain)
    PROVE  Inv'
<1>1. refresh'[b] = e /\ \A c \in Tabs \ {b} : refresh'[c] = refresh[c]
  BY DEF Inv, TypeOK
<1>2. count' = count /\ row' = row
  OBVIOUS
<1>3. ClaimInv'
  <2>1. \A t : Live(t) => t \in 1 .. count /\ ~row[t].revoked
    BY DEF Live
  <2>2. \A c \in Tabs \ {b} : refresh'[c].pc = "claimed" =>
          refresh'[c].plain \in 1 .. count /\ ~row[refresh'[c].plain].revoked
    BY <1>1, <2>1 DEF Inv, ClaimInv
  <2>3. e.pc = "claimed" =>
          /\ e.plain \in 1 .. count /\ ~row[e.plain].revoked
          /\ \A c \in Tabs \ {b} : ~(refresh'[c].pc = "claimed" /\ refresh'[c].plain = e.plain)
    BY <1>1, <2>1 DEF Locked
  <2>4. \A c \in Tabs \ {b} : refresh'[c].pc \in {"read", "claimed"} => refresh'[c].plain \in 1 .. count
    BY <1>1 DEF Inv, ClaimInv
  <2>5. \A c, d \in Tabs \ {b} :
          /\ refresh'[c].pc = "claimed" /\ refresh'[d].pc = "claimed"
          /\ refresh'[c].plain = refresh'[d].plain
          => c = d
    BY <1>1 DEF Inv, ClaimInv
  <2>6. \A c \in Tabs : refresh'[c].pc = "claimed" =>
          refresh'[c].plain \in 1 .. count' /\ ~row'[refresh'[c].plain].revoked
    BY <1>1, <1>2, <2>2, <2>3
  <2>7. \A c \in Tabs : refresh'[c].pc \in {"read", "claimed"} => refresh'[c].plain \in 1 .. count'
    BY <1>1, <1>2, <2>4
  <2>8. \A c, d \in Tabs :
          /\ refresh'[c].pc = "claimed" /\ refresh'[d].pc = "claimed"
          /\ refresh'[c].plain = refresh'[d].plain
          => c = d
    BY <1>1, <2>3, <2>5
  <2> QED BY <2>6, <2>7, <2>8 DEF ClaimInv, Live
<1>4. Stored'
  BY TableUnchanged DEF Inv, Stored
<1> QED BY <1>3, <1>4 DEF Inv, Stored

\* No refresh moves, and the table is left alone.
LEMMA QuietStep ==
    ASSUME Inv, TypeOK', UNCHANGED <<count, row, ended, refresh>>
    PROVE  Inv'
<1>1. ClaimInv'
  BY DEF Inv, ClaimInv, Live
<1>2. Stored'
  BY TableUnchanged DEF Inv, Stored
<1> QED BY <1>1, <1>2 DEF Inv, Stored

\* A refresh moves on in its transaction and has written nothing.
LEMMA RefreshMoves ==
    ASSUME Inv, NEW b \in Tabs, NEW e \in Call, e.pc # "idle",
           refresh' = [refresh EXCEPT ![b] = e],
           UNCHANGED <<server, jar, page, logout, login, losses>>,
           e.pc \in {"read", "claimed"} => e.plain \in 1 .. count,
           e.pc = "claimed" => Live(e.plain) /\ ~Locked(e.plain)
    PROVE  Inv'
<1>1. refresh' \in [Tabs -> Call] /\ refresh'[b] = e
         /\ \A c \in Tabs \ {b} : refresh'[c] = refresh[c]
  BY DEF Inv, TypeOK
<1>2. TypeOK'
  BY <1>1 DEF Inv, TypeOK, server
<1>3. UNCHANGED <<count, row, ended>>
  BY DEF server
<1> QED BY <1>2, <1>3, QuietMove

LEMMA RefreshReadInv ==
    ASSUME Inv, NEW b \in Tabs, RefreshRead(b)
    PROVE  Inv'
<1> DEFINE t == refresh[b].plain
           e == IF Live(t) /\ ~row[t].expired
                THEN [refresh[b] EXCEPT !.pc = "read", !.enabled = enabled]
                ELSE [refresh[b] EXCEPT !.pc = "done"]
<1>1. refresh' = [refresh EXCEPT ![b] = e]
  BY DEF RefreshRead
<1>2. refresh[b] \in Call /\ enabled \in BOOLEAN
  BY DEF Inv, TypeOK
<1>3. e \in Call /\ e.pc \in {"read", "done"} /\ e.plain = t /\ (e.pc = "read" => Live(t))
  BY <1>2 DEF Call
<1>4. e.pc \in {"read", "claimed"} => e.plain \in 1 .. count
  BY <1>3 DEF Live
<1>5. e.pc # "idle" /\ e.pc # "claimed"
  BY <1>3
<1>6. UNCHANGED <<server, jar, page, logout, login, losses>>
  BY DEF RefreshRead
<1> HIDE DEF e
<1> QED BY <1>1, <1>3, <1>4, <1>5, <1>6, RefreshMoves

LEMMA RefreshClaimInv ==
    ASSUME Inv, NEW b \in Tabs, RefreshClaim(b)
    PROVE  Inv'
<1> DEFINE t == refresh[b].plain
           e == [refresh[b] EXCEPT !.pc = IF Live(t) THEN "claimed" ELSE "done"]
<1>1. refresh' = [refresh EXCEPT ![b] = e]
  BY DEF RefreshClaim
<1>2. refresh[b] \in Call
  BY DEF Inv, TypeOK
<1>3. e \in Call /\ e.pc \in {"claimed", "done"} /\ e.plain = t /\ (e.pc = "claimed" => Live(t))
  BY <1>2 DEF Call
<1>4. e.pc \in {"read", "claimed"} => e.plain \in 1 .. count
  BY <1>3 DEF Live
<1>5. e.pc # "idle" /\ (e.pc = "claimed" => Live(e.plain) /\ ~Locked(e.plain))
  BY <1>3 DEF RefreshClaim
<1>6. UNCHANGED <<server, jar, page, logout, login, losses>>
  BY DEF RefreshClaim
<1> HIDE DEF e
<1> QED BY <1>1, <1>3, <1>4, <1>5, <1>6, RefreshMoves

LEMMA RefreshEndsInv ==
    ASSUME Inv, NEW b \in Tabs, RefreshRefused(b) \/ RefreshAborts(b)
    PROVE  Inv'
<1> DEFINE e == [refresh[b] EXCEPT !.pc = "done"]
<1>1. refresh' = [refresh EXCEPT ![b] = e]
  BY DEF RefreshRefused, RefreshAborts
<1>2. e \in Call /\ e.pc = "done"
  BY CallStep DEF Inv, TypeOK
<1>3. UNCHANGED <<server, jar, page, logout, login, losses>>
  BY DEF RefreshRefused, RefreshAborts
<1> HIDE DEF e
<1> QED BY <1>1, <1>2, <1>3, RefreshMoves

LEMMA RefreshCommitInv ==
    ASSUME Inv, NEW b \in Tabs, RefreshCommit(b)
    PROVE  Inv'
<1> DEFINE t == refresh[b].plain
           e == [[refresh[b] EXCEPT !.pc = "done"] EXCEPT !.new = count + 1]
<1>1. Live(t)
  BY DEF Inv, ClaimInv, RefreshCommit
<1>2. /\ count < MaxTokens /\ count' = count + 1 /\ ended' = ended
      /\ row' = [row EXCEPT ![t].revoked = TRUE, ![t].replacedBy = count + 1,
                            ![count + 1] = NewRow(row[t].session)]
  BY DEF RefreshCommit
<1>3. refresh' = [refresh EXCEPT ![b] = e] /\ UNCHANGED <<enabled, jar, page, logout, login, losses>>
  BY DEF RefreshCommit
<1>4. /\ Stored' /\ row' \in [TokenIds -> Row] /\ count' \in Tokens
      /\ \A u \in TokenIds : Live(u) /\ u # t => Live(u)'
  BY <1>1, <1>2, TableRotate DEF Inv, Stored
<1>5. e \in Call /\ e.pc = "done"
  BY <1>2, <1>4, ZenonT(30) DEF Inv, TypeOK, Call
<1> HIDE DEF e
<1>6. TypeOK'
  BY <1>2, <1>3, <1>4, <1>5 DEF Inv, TypeOK
<1>7. \A c \in Tabs \ {b} : refresh[c].pc = "claimed" =>
          refresh[c].plain # t /\ refresh[c].plain \in TokenIds /\ Live(refresh[c].plain)
  BY SessionsAssumption DEF Inv, ClaimInv, RefreshCommit, TypeOK, Tokens, TokenIds
<1>8. \A c \in Tabs \ {b} : refresh'[c] = refresh[c]
  BY <1>3 DEF Inv, TypeOK
<1>9. \A c \in Tabs \ {b} : refresh[c].pc = "claimed" => Live(refresh[c].plain)'
  <2>1. \A u \in TokenIds : Live(u) /\ u # t => u \in 1 .. count' /\ ~row'[u].revoked
    BY <1>4 DEF Live
  <2> QED BY <1>7, <1>8, <2>1 DEF Live
<1>10. count \in Nat /\ count' \in Nat /\ count =< count'
  BY <1>2, SessionsAssumption DEF Inv, TypeOK, Tokens
<1>11. ClaimInv'
  BY <1>3, <1>5, <1>9, <1>10, ClaimsMoved DEF Inv
<1> QED BY <1>4, <1>6, <1>11 DEF Inv, Stored

LEMMA LogoutRevokeInv ==
    ASSUME Inv, NEW b \in Tabs, LogoutRevoke(b)
    PROVE  Inv'
<1> DEFINE t == logout[b].plain
           e == [logout[b] EXCEPT !.pc = "done"]
<1>1. /\ ~Locked(t)
      /\ logout' = [logout EXCEPT ![b] = e]
      /\ UNCHANGED <<count, enabled, jar, page, refresh, login, losses>>
  BY DEF LogoutRevoke
<1>2. e \in Call
  BY CallStep DEF Inv, TypeOK
<1> HIDE DEF e
<1>3. CASE ~Live(t)
  <2>1. UNCHANGED <<row, ended>>
    BY <1>3 DEF LogoutRevoke
  <2>2. TypeOK'
    BY <1>1, <1>2, <2>1 DEF Inv, TypeOK
  <2> QED BY <1>1, <2>1, <2>2, QuietStep
<1>4. CASE Live(t)
  <2>1. row' = [row EXCEPT ![t].revoked = TRUE] /\ ended' = ended \union {row[t].session}
    BY <1>4 DEF LogoutRevoke
  <2>2. /\ Stored' /\ row' \in [TokenIds -> Row] /\ ended' \subseteq Tokens
        /\ \A u \in TokenIds : Live(u) /\ u # t => Live(u)'
    BY <1>1, <1>4, <2>1, TableRevoke DEF Inv, Stored
  <2>3. TypeOK'
    BY <1>1, <1>2, <2>2 DEF Inv, TypeOK
  <2>4. \A u \in TokenIds : Live(u) /\ Locked(u) => Live(u)'
    BY <1>1, <2>2
  <2>5. ClaimInv'
    BY <1>1, <2>4, ClaimsKept, SessionsAssumption DEF Inv, TypeOK, Tokens
  <2> QED BY <2>2, <2>3, <2>5 DEF Inv, Stored
<1> QED BY <1>3, <1>4

LEMMA LoginCreateInv ==
    ASSUME Inv, NEW b \in Tabs, LoginCreate(b)
    PROVE  Inv'
<1> DEFINE e == [[login[b] EXCEPT !.pc = "done"] EXCEPT !.new = count + 1]
<1>1. /\ count < MaxTokens /\ count' = count + 1 /\ ended' = ended
      /\ row' = [row EXCEPT ![count + 1] = NewRow(count + 1)]
      /\ UNCHANGED <<enabled, jar, page, refresh, logout, losses>>
  BY DEF LoginCreate
<1>2. login' = [login EXCEPT ![b] = e]
  BY DEF LoginCreate
<1>3. Stored' /\ row' \in [TokenIds -> Row] /\ count' \in Tokens
  BY <1>1, TableStart DEF Inv, Stored
<1>4. e \in Call
  BY <1>1, <1>3 DEF Inv, TypeOK, Call
<1> HIDE DEF e
<1>5. TypeOK'
  BY <1>1, <1>2, <1>3, <1>4 DEF Inv, TypeOK
<1>6. count \in Nat /\ count' \in Nat /\ count =< count'
  BY <1>1, SessionsAssumption DEF Inv, TypeOK, Tokens
<1>7. \A u \in TokenIds : Live(u) => Live(u)'
  <2>1. \A u \in 1 .. count : u # count + 1 /\ u \in 1 .. count'
    BY <1>1, <1>6
  <2>2. \A u \in TokenIds : u # count + 1 => row'[u] = row[u]
    BY <1>1 DEF Inv, TypeOK
  <2> QED BY <2>1, <2>2 DEF Live
<1>8. ClaimInv'
  BY <1>1, <1>6, <1>7, ClaimsKept DEF Inv
<1> QED BY <1>3, <1>5, <1>8 DEF Inv, Stored

LEMMA ExpireInv ==
    ASSUME Inv, NEW t \in TokenIds, Expire(t)
    PROVE  Inv'
<1>1. /\ count' = count /\ ended' = ended /\ row' = [row EXCEPT ![t].expired = TRUE]
      /\ UNCHANGED <<enabled, jar, page, refresh, logout, login, losses>>
  BY DEF Expire
<1>2. Stored' /\ row' \in [TokenIds -> Row] /\ \A u \in TokenIds : Live(u)' = Live(u)
  BY <1>1, TableExpire DEF Inv, Stored
<1>3. TypeOK'
  BY <1>1, <1>2 DEF Inv, TypeOK
<1>4. ClaimInv'
  BY <1>1, <1>2, ClaimsKept, SessionsAssumption DEF Inv, TypeOK, Tokens
<1> QED BY <1>2, <1>3, <1>4 DEF Inv, Stored

\* Steps that touch neither the table nor a refresh.
LEMMA OtherInv ==
    ASSUME Inv, NEW b \in Tabs,
           \/ LogoutFails(b) \/ LoginCheck(b) \/ LoginAborts(b)
           \/ SendLogout(b) \/ ReceiveLogout(b) \/ SendLogin(b)
    PROVE  Inv'
<1>1. UNCHANGED <<count, row, ended, refresh>>
  BY DEF LogoutFails, LoginCheck, LoginAborts, SendLogout, ReceiveLogout, SendLogin, server
<1>2. 0 \in Tokens /\ Idle \in Call
  BY FreshCalls
<1>3. \A t \in Tokens : Sent(t) \in Call /\ \A r \in BOOLEAN : [Sent(t) EXCEPT !.raced = r] \in Call
  BY FreshCalls
<1>4. \A x \in Call : \A p \in {"read", "done"} : [x EXCEPT !.pc = p] \in Call
  BY CallStep
<1>5. CASE LogoutFails(b)
  <2>1. losses' \in 0 .. MaxLosses
    BY <1>5, SessionsAssumption DEF LogoutFails, Inv, TypeOK
  <2>2. logout' \in [Tabs -> Call]
    BY <1>4, <1>5 DEF LogoutFails, Inv, TypeOK
  <2>3. TypeOK'
    BY <1>5, <2>1, <2>2 DEF LogoutFails, Inv, TypeOK, server
  <2> QED BY <1>1, <2>3, QuietStep
<1>6. CASE LoginCheck(b) \/ LoginAborts(b)
  <2>0. PICK p \in {"read", "done"} : login' = [login EXCEPT ![b] = [login[b] EXCEPT !.pc = p]]
    BY <1>6 DEF LoginCheck, LoginAborts
  <2>1. login' \in [Tabs -> Call]
    BY <1>4, <2>0 DEF Inv, TypeOK
  <2>2. TypeOK'
    BY <1>6, <2>1 DEF LoginCheck, LoginAborts, Inv, TypeOK, server
  <2> QED BY <1>1, <2>2, QuietStep
<1>7. CASE SendLogout(b)
  <2>1. logout' \in [Tabs -> Call]
    BY <1>3, <1>7 DEF SendLogout, Inv, TypeOK
  <2>2. TypeOK'
    BY <1>7, <2>1 DEF SendLogout, Inv, TypeOK, server
  <2> QED BY <1>1, <2>2, QuietStep
<1>8. CASE ReceiveLogout(b)
  <2>1. TypeOK'
    BY <1>2, <1>8 DEF ReceiveLogout, Inv, TypeOK, server
  <2> QED BY <1>1, <2>1, QuietStep
<1>9. CASE SendLogin(b)
  <2>1. TypeOK'
    BY <1>2, <1>3, <1>9 DEF SendLogin, Inv, TypeOK, server
  <2> QED BY <1>1, <2>1, QuietStep
<1> QED BY <1>5, <1>6, <1>7, <1>8, <1>9

\* tryRefresh, with whatever else the tab does in the same step.
LEMMA TryRefreshInv ==
    ASSUME Inv, NEW b \in Tabs, NEW t \in Tokens, TryRefresh(b, t),
           UNCHANGED <<server, losses>>, jar' \in Tokens, login' \in [Tabs -> Call],
           page' = page \/ page' = [page EXCEPT ![b] = "loading"]
    PROVE  Inv'
<1>1. UNCHANGED <<count, row, enabled, ended>>
  BY DEF server
<1>2. Idle \in Call /\ Sent(t) \in Call /\ Sent(t).pc = "sent"
  BY FreshCalls
<1>3. page' \in [Tabs -> {"loading", "app", "login"}]
        /\ \A x \in Tabs : page'[x] = "loading" => page[x] = "loading" \/ x = b
  BY DEF Inv, TypeOK
<1>4. CASE refresh[b].pc = "idle"
  <2>1. refresh' = [refresh EXCEPT ![b] = Sent(t)]
    BY <1>4 DEF TryRefresh
  <2>2. refresh' \in [Tabs -> Call] /\ refresh'[b].pc = "sent"
          /\ \A x \in Tabs \ {b} : refresh'[x] = refresh[x]
    BY <1>2, <2>1 DEF Inv, TypeOK
  <2>3. \A x \in Tabs : [logout[x] EXCEPT !.raced = TRUE] \in Call
    BY FreshCalls DEF Inv, TypeOK
  <2>4. logout' \in [Tabs -> Call]
    <3>1. logout' = [x \in Tabs |-> IF logout[x].pc = "idle" THEN Idle
                                    ELSE [logout[x] EXCEPT !.raced = TRUE]]
      BY <1>4 DEF TryRefresh
    <3> QED BY <1>2, <2>3, <3>1
  <2>5. TypeOK'
    BY <1>1, <1>3, <2>2, <2>4 DEF Inv, TypeOK
  <2> QED BY <1>1, <1>2, <2>1, <2>5, QuietMove
<1>5. CASE refresh[b].pc # "idle"
  <2>1. UNCHANGED <<refresh, logout>>
    BY <1>5 DEF TryRefresh
  <2>2. TypeOK'
    BY <1>1, <1>3, <1>5, <2>1 DEF Inv, TypeOK
  <2> QED BY <1>1, <2>1, <2>2, QuietStep
<1> QED BY <1>4, <1>5

LEMMA ReloadInv ==
    ASSUME Inv, NEW b \in Tabs, Reload(b) \/ Unauthorized(b)
    PROVE  Inv'
<1>1. TryRefresh(b, jar) /\ UNCHANGED <<server, losses, jar, login>>
  BY DEF Reload, Unauthorized
<1>2. page' = page \/ page' = [page EXCEPT ![b] = "loading"]
  BY DEF Reload, Unauthorized
<1>3. jar \in Tokens /\ jar' \in Tokens /\ login' \in [Tabs -> Call]
  BY <1>1 DEF Inv, TypeOK
<1> QED BY <1>1, <1>2, <1>3, TryRefreshInv

LEMMA ReceiveLoginInv ==
    ASSUME Inv, NEW b \in Tabs, ReceiveLogin(b)
    PROVE  Inv'
<1> DEFINE t == login[b].new
<1>1. t \in Tokens /\ Idle \in Call
  BY FreshCalls DEF Inv, TypeOK, Call
<1>2. login' \in [Tabs -> Call] /\ UNCHANGED <<server, losses>>
  BY <1>1 DEF ReceiveLogin, Inv, TypeOK
<1>3. CASE t = 0
  <2>1. UNCHANGED <<jar, page, refresh, logout>>
    BY <1>3 DEF ReceiveLogin
  <2>2. UNCHANGED <<count, row, enabled, ended>>
    BY <1>2 DEF server
  <2>3. TypeOK'
    BY <1>2, <2>1, <2>2 DEF Inv, TypeOK
  <2> QED BY <2>1, <2>2, <2>3, QuietStep
<1>4. CASE t # 0
  <2>1. jar' = t /\ page' = [page EXCEPT ![b] = "loading"] /\ TryRefresh(b, t)
    BY <1>4 DEF ReceiveLogin
  <2> QED BY <1>1, <1>2, <2>1, TryRefreshInv
<1> QED BY <1>3, <1>4

\* The promise settles, with or without a new token.
LEMMA SettledInv ==
    ASSUME Inv, NEW b \in Tabs, NEW ok \in BOOLEAN,
           refresh' = [refresh EXCEPT ![b] = Idle], page' = Settled(b, ok),
           UNCHANGED <<server, logout, login>>, jar' \in Tokens, losses' \in 0 .. MaxLosses
    PROVE  Inv'
<1>1. UNCHANGED <<count, row, enabled, ended>>
  BY DEF server
<1>2. Idle \in Call /\ Idle.pc = "idle"
  BY FreshCalls
<1>3. refresh' \in [Tabs -> Call] /\ \A x \in Tabs \ {b} : refresh'[x] = refresh[x]
  BY <1>2 DEF Inv, TypeOK
<1>4. /\ page' \in [Tabs -> {"loading", "app", "login"}] /\ page'[b] # "loading"
      /\ \A x \in Tabs \ {b} : page'[x] = page[x]
  BY DEF Settled, Inv, TypeOK
<1>5. TypeOK'
  BY <1>1, <1>3, <1>4 DEF Inv, TypeOK
<1> QED BY <1>1, <1>2, <1>5, QuietMove

LEMMA ReceiveRefreshInv ==
    ASSUME Inv, NEW b \in Tabs, ReceiveRefresh(b)
    PROVE  Inv'
<1> DEFINE t == refresh[b].new
<1>1. t \in Tokens
  BY DEF Inv, TypeOK, Call
<1>2. jar' \in Tokens /\ losses' \in 0 .. MaxLosses
  BY <1>1 DEF ReceiveRefresh, Inv, TypeOK
<1>3. /\ refresh' = [refresh EXCEPT ![b] = Idle] /\ page' = Settled(b, t # 0)
      /\ UNCHANGED <<server, logout, login>>
  BY DEF ReceiveRefresh
<1>4. (t # 0) \in BOOLEAN
  OBVIOUS
<1> QED BY <1>2, <1>3, <1>4, SettledInv

LEMMA LoseReplyInv ==
    ASSUME Inv, NEW b \in Tabs, LoseReply(b)
    PROVE  Inv'
<1>1. losses' \in 0 .. MaxLosses /\ jar' \in Tokens
  BY SessionsAssumption DEF LoseReply, Inv, TypeOK
<1>2. UNCHANGED server /\ UNCHANGED <<count, row, enabled, ended>> /\ jar' = jar
  BY DEF LoseReply, server
<1>3. Idle \in Call
  BY FreshCalls
<1>4. CASE refresh' = [refresh EXCEPT ![b] = Idle] /\ page' = Settled(b, FALSE)
           /\ UNCHANGED <<logout, login>>
  BY <1>1, <1>2, <1>4, SettledInv
<1>5. CASE logout' = [logout EXCEPT ![b] = Idle] /\ UNCHANGED <<page, refresh, login>>
  <2>1. TypeOK'
    BY <1>1, <1>2, <1>3, <1>5 DEF Inv, TypeOK
  <2> QED BY <1>2, <1>5, <2>1, QuietStep
<1>6. CASE login' = [login EXCEPT ![b] = Idle] /\ UNCHANGED <<page, refresh, logout>>
  <2>1. TypeOK'
    BY <1>1, <1>2, <1>3, <1>6 DEF Inv, TypeOK
  <2> QED BY <1>2, <1>6, <2>1, QuietStep
<1> QED BY <1>4, <1>5, <1>6 DEF LoseReply

LEMMA InvOfStep == Inv /\ [Next]_vars => Inv'
<1> SUFFICES ASSUME Inv, [Next]_vars PROVE Inv'
  OBVIOUS
<1>1. ASSUME NEW b \in Tabs, Serve(b) PROVE Inv'
  BY <1>1, RefreshReadInv, RefreshClaimInv, RefreshEndsInv, RefreshCommitInv,
     LogoutRevokeInv, LoginCreateInv, OtherInv DEF Serve
<1>2. ASSUME NEW b \in Tabs, Browse(b) PROVE Inv'
  BY <1>2, ReloadInv, ReceiveRefreshInv, ReceiveLoginInv, LoseReplyInv, OtherInv DEF Browse
<1>3. ASSUME NEW t \in TokenIds, Expire(t) PROVE Inv'
  BY <1>3, ExpireInv
<1>4. CASE Disable
  <2>1. TypeOK'
    BY <1>4 DEF Disable, Inv, TypeOK
  <2>2. UNCHANGED <<count, row, ended, refresh>>
    BY <1>4 DEF Disable
  <2> QED BY <2>1, <2>2, QuietStep
<1>5. CASE UNCHANGED vars
  <2>1. TypeOK'
    BY <1>5 DEF vars, Inv, TypeOK
  <2>2. UNCHANGED <<count, row, ended, refresh>>
    BY <1>5 DEF vars
  <2> QED BY <2>1, <2>2, QuietStep
<1> QED BY <1>1, <1>2, <1>3, <1>4, <1>5 DEF Next

-----------------------------------------------------------------------------
(* The theorems.                                                           *)

LEMMA InvAlways == Spec => []Inv
BY InvOfInit, InvOfStep, PTL DEF Spec

(* Rows, requests and pages keep their types, and no tab shows the spinner *)
(* without a refresh to wait for.                                          *)
THEOREM TypeCorrect == Spec => []TypeOK
<1>1. Inv => TypeOK
  BY DEF Inv
<1> QED BY <1>1, InvAlways, PTL

(* The chain of tokens one login started has at most one live token, for   *)
(* any number of tabs that refresh, log in and log out at once.            *)
THEOREM AtMostOneLiveToken == Spec => []OneLivePerSession
<1>1. Inv => OneLivePerSession
  BY DEF Inv
<1> QED BY <1>1, InvAlways, PTL

(* A session whose live token a logout revoked is over for good, even when *)
(* a rotation of that token was under way.                                 *)
THEOREM LogoutEndsForGood == Spec => []LogoutIsFinal
<1>1. Inv => LogoutIsFinal
  BY DEF Inv
<1> QED BY <1>1, InvAlways, PTL

\* The steps that write the table at all.
LEMMA TableWrites ==
    ASSUME [Next]_vars
    PROVE  \/ row' = row /\ count' = count
           \/ \E t \in TokenIds : Expire(t)
           \/ \E b \in Tabs : RefreshCommit(b) \/ LogoutRevoke(b) \/ LoginCreate(b)
<1>1. ASSUME NEW b \in Tabs, Serve(b)
      PROVE  \/ row' = row /\ count' = count
             \/ RefreshCommit(b) \/ LogoutRevoke(b) \/ LoginCreate(b)
  BY <1>1 DEF Serve, RefreshRead, RefreshClaim, RefreshRefused, RefreshAborts,
              LogoutFails, LoginCheck, LoginAborts, server
<1>2. ASSUME NEW b \in Tabs, Browse(b)
      PROVE  row' = row /\ count' = count
  BY <1>2 DEF Browse, Reload, Unauthorized, ReceiveRefresh, SendLogout, ReceiveLogout,
              SendLogin, ReceiveLogin, LoseReply, server
<1>3. Disable \/ UNCHANGED vars => row' = row /\ count' = count
  BY DEF Disable, vars
<1> QED BY <1>1, <1>2, <1>3 DEF Next

\* A revoked row keeps revoked and replaced_by in every step.
LEMMA RevokedStays ==
    ASSUME Inv, [Next]_vars, NEW t \in 1 .. count, row[t].revoked
    PROVE  row'[t].revoked /\ row'[t].replacedBy = row[t].replacedBy
<1>1. t \in TokenIds /\ row[t] \in Row /\ t # count + 1
  BY SessionsAssumption DEF Inv, TypeOK, Tokens, TokenIds
<1>2. ASSUME NEW x \in TokenIds, Expire(x)
      PROVE  row'[t].revoked /\ row'[t].replacedBy = row[t].replacedBy
  BY <1>1, <1>2 DEF Expire, Inv, TypeOK, Row
<1>3. ASSUME NEW b \in Tabs, RefreshCommit(b)
      PROVE  row'[t] = row[t]
  <2>1. refresh[b].plain # t
    BY <1>3 DEF RefreshCommit, Inv, ClaimInv, Live
  <2> QED BY <1>1, <1>3, <2>1 DEF RefreshCommit, Inv, TypeOK
<1>4. ASSUME NEW b \in Tabs, LogoutRevoke(b)
      PROVE  row'[t] = row[t]
  BY <1>1, <1>4 DEF LogoutRevoke, Live, Inv, TypeOK
<1>5. ASSUME NEW b \in Tabs, LoginCreate(b)
      PROVE  row'[t] = row[t]
  BY <1>1, <1>5 DEF LoginCreate, Inv, TypeOK
<1> QED BY <1>2, <1>3, <1>4, <1>5, TableWrites

(* A refresh token that was rotated or logged out stays so: no request, of *)
(* any number that overlap, revives it or gives it another successor.      *)
THEOREM RevocationIsFinal == Spec => RevokedForGood
<1> DEFINE Stays == \A t \in 1 .. count : row[t].revoked =>
                       row'[t].revoked /\ row'[t].replacedBy = row[t].replacedBy
<1>1. Inv /\ [Next]_vars => Stays
  BY RevokedStays
<1>2. Spec => [][Stays]_vars
  BY <1>1, InvAlways, PTL DEF Spec
<1> QED BY <1>2 DEF RevokedForGood

(* After an operator has disabled the user, and once the requests that saw *)
(* the user enabled are through, no refresh or login issues a token.       *)
THEOREM DisabledIsLockedOut == Spec => DisabledMintsNothing
<1> DEFINE Quiet ==
      /\ ~enabled
      /\ \A b \in Tabs :
            /\ login[b].pc # "read"
            /\ refresh[b].pc \in {"read", "claimed"} => ~refresh[b].enabled
<1>1. ASSUME [Next]_vars, Quiet PROVE count' = count
  <2>1. \A b \in Tabs : ~RefreshCommit(b) /\ ~LoginCreate(b)
    BY <1>1 DEF RefreshCommit, LoginCreate
  <2>2. \A b \in Tabs : LogoutRevoke(b) => count' = count
    BY DEF LogoutRevoke
  <2>3. \A t \in TokenIds : Expire(t) => count' = count
    BY DEF Expire
  <2> QED BY <1>1, <2>1, <2>2, <2>3, TableWrites
<1>2. [Next]_vars => (Quiet => count' = count)
  BY <1>1
<1>3. Spec => [][Quiet => count' = count]_vars
  BY <1>2, PTL DEF Spec
<1> QED BY <1>3 DEF DisabledMintsNothing
=============================================================================
