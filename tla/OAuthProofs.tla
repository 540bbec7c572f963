----------------------------- MODULE OAuthProofs ----------------------------
(***************************************************************************)
(* Proofs about OAuth, for any users, flows, callbacks, clients and        *)
(* durations.                                                              *)
(***************************************************************************)
EXTENDS OAuth, TLAPS

\* A client that renews has credentials, and a refresh token to renew them with.
Renewable ==
  \A c \in Clients :
    /\ call[c] \in {"check", "refresh", "save"} => creds[c] \in Rows
    /\ call[c] = "refresh" => creds[c].refresh \in Flows

\* The e-mail a callback has fetched is that of its own tokens.
OwnEmail == \A b \in Callbacks : email[b] \in {FlowOf[b], NoToken}

\* A state that is still in the store has not been redeemed.
Unspent == \A f \in Flows : ttl[f] # Gone => redeemed[f] = 0

Inv == TypeOK /\ Renewable /\ OwnEmail /\ OwnGrants /\ Unspent /\ RedeemedOnce

\* The parts of the invariant that speak of the routes, and of the credentials.
RouteInv ==
  /\ ttl \in [Flows -> 0..NeverStarted]
  /\ back \in [Callbacks -> {"new", "exchange", "userinfo", "save", "done", "refused", "failed"}]
  /\ email \in [Callbacks -> Tokens]
  /\ redeemed \in [Flows -> Nat]
  /\ OwnEmail /\ Unspent /\ RedeemedOnce

GrantInv ==
  /\ row \in [Users -> Rows \cup {NoRow}]
  /\ left \in [Users -> 0..LifeTicks]
  /\ call \in [Clients -> {"idle", "check", "refresh", "save", "ready", "raised"}]
  /\ creds \in [Clients -> Rows \cup {NoRow}]
  /\ due \in [Clients -> 0..LifeTicks]
  /\ Renewable /\ OwnGrants

LEMMA Parts == RouteInv' /\ GrantInv' => Inv'
  BY DEF Inv, RouteInv, GrantInv, TypeOK

-----------------------------------------------------------------------------
LEMMA InitInv == Init => Inv
<1> SUFFICES ASSUME Init PROVE Inv
  OBVIOUS
<1>1. GrantsIn(NoRow) = {}
  BY DEF GrantsIn, NoRow
<1>2. OwnGrants
  BY <1>1 DEF Init, OwnGrants
<1> QED
  BY <1>2, OAuthAssumption
  DEF Init, Inv, TypeOK, Renewable, OwnEmail, Unspent, RedeemedOnce, Tokens, NeverStarted, Gone

\* A row that is written, by a consent or by a renewal, brings together what the old
\* row and the new tokens hold, and nothing else.
LEMMA MergedType ==
  ASSUME NEW old \in Rows \cup {NoRow}, NEW new \in Rows
  PROVE  /\ Merged(old, new) \in Rows
         /\ GrantsIn(Merged(old, new)) \subseteq GrantsIn(old) \cup GrantsIn(new)
         /\ old.refresh # NoToken => Merged(old, new).refresh # NoToken
<1>1. /\ new.access \in Flows /\ new.refresh \in Tokens /\ new.email \in Tokens
      /\ old.refresh \in Tokens
  BY DEF Rows, NoRow, Tokens
<1>2. Merged(old, new) =
        [access |-> new.access,
         refresh |-> IF new.refresh = NoToken THEN old.refresh ELSE new.refresh,
         email |-> new.email]
  BY DEF Merged, Rows
<1> QED
  BY <1>1, <1>2 DEF Rows, GrantsIn

\* Save keeps the table, given that the new tokens are those of the user.
LEMMA SaveKeeps ==
  ASSUME Inv, NEW u \in Users, NEW new \in Rows, NEW ticks \in 0..LifeTicks,
         \A f \in GrantsIn(new) : UserOf[f] = u,
         Save(u, new, ticks)
  PROVE  /\ row' \in [Users -> Rows \cup {NoRow}]
         /\ left' \in [Users -> 0..LifeTicks]
         /\ \A v \in Users : \A f \in GrantsIn(row'[v]) : UserOf[f] = v
<1>1. row[u] \in Rows \cup {NoRow} /\ \A f \in GrantsIn(row[u]) : UserOf[f] = u
  BY DEF Inv, TypeOK, OwnGrants
<1>2. /\ Merged(row[u], new) \in Rows
      /\ \A f \in GrantsIn(Merged(row[u], new)) : UserOf[f] = u
  BY <1>1, MergedType
<1>3. row' = [row EXCEPT ![u] = Merged(row[u], new)] /\ left' = [left EXCEPT ![u] = ticks]
  BY DEF Save
<1> QED
  BY <1>2, <1>3 DEF Inv, TypeOK, OwnGrants

-----------------------------------------------------------------------------
(* The routes.                                                             *)

\* What touches the states and the callbacks only.
LEMMA RouteStepInv ==
  ASSUME Inv, UNCHANGED <<row, left, clientVars>>,
         \/ \E f \in Flows : Start(f)
         \/ \E b \in Callbacks :
              \/ Denied(b) \/ StateRefused(b) \/ ConsumeState(b)
              \/ Exchange(b) \/ FetchUserinfo(b) \/ CallbackRaises(b)
         \/ Restart
  PROVE  Inv'
<1>1. GrantInv'
  BY DEF Inv, TypeOK, GrantInv, Renewable, OwnGrants, clientVars
<1> USE OAuthAssumption DEF Inv, TypeOK, RouteInv, OwnEmail, Unspent, RedeemedOnce,
                            Gone, NeverStarted, Tokens, Proceed
<1>2. CASE \E f \in Flows : Start(f)
  BY <1>1, <1>2, Parts DEF Start
<1>3. ASSUME NEW b \in Callbacks,
             \/ Denied(b) \/ StateRefused(b) \/ Exchange(b)
             \/ FetchUserinfo(b) \/ CallbackRaises(b)
      PROVE  RouteInv'
  BY <1>3 DEF Denied, StateRefused, Exchange, FetchUserinfo, CallbackRaises
<1>4. ASSUME NEW b \in Callbacks, ConsumeState(b)
      PROVE  RouteInv'
  <2>1. FlowOf[b] \in Flows /\ ttl[FlowOf[b]] # Gone
    BY <1>4 DEF ConsumeState
  <2>2. redeemed[FlowOf[b]] = 0
    BY <2>1
  <2> QED
    BY <1>4, <2>1, <2>2 DEF ConsumeState
<1>5. CASE Restart
  BY <1>1, <1>5, Parts DEF Restart
<1> QED
  BY <1>1, <1>2, <1>3, <1>4, <1>5, Parts

\* The callback saves tokens under the user for whom their flow was started.
LEMMA SaveConsentInv ==
  ASSUME Inv, NEW b \in Callbacks, SaveConsent(b)
  PROVE  Inv'
<1>1. PICK r \in {FlowOf[b], NoToken} :
        Save(UserOf[FlowOf[b]],
             [access |-> FlowOf[b], refresh |-> r, email |-> email[b]], LifeTicks)
  BY DEF SaveConsent
<1> DEFINE new == [access |-> FlowOf[b], refresh |-> r, email |-> email[b]]
<1>2. FlowOf[b] \in Flows /\ UserOf[FlowOf[b]] \in Users /\ LifeTicks \in 0..LifeTicks
  BY OAuthAssumption
<1>3. new \in Rows /\ GrantsIn(new) \subseteq {FlowOf[b]}
  BY <1>2 DEF Inv, OwnEmail, Rows, Tokens, GrantsIn
<1>4. /\ row' \in [Users -> Rows \cup {NoRow}]
      /\ left' \in [Users -> 0..LifeTicks]
      /\ \A v \in Users : \A f \in GrantsIn(row'[v]) : UserOf[f] = v
  <2> HIDE DEF new
  <2> QED
    BY <1>1, <1>2, <1>3, SaveKeeps DEF new
<1>5. GrantInv'
  BY <1>4 DEF SaveConsent, clientVars, Inv, TypeOK, GrantInv, Renewable, OwnGrants
<1>6. RouteInv'
  BY DEF SaveConsent, Proceed, Inv, TypeOK, RouteInv, OwnEmail, Unspent, RedeemedOnce
<1> QED
  BY <1>5, <1>6, Parts

-----------------------------------------------------------------------------
(* The clients.                                                            *)

LEMMA ClientStepInv ==
  ASSUME Inv, NEW c \in Clients,
         \/ GetCredentials(c) \/ RefreshIfNeeded(c) \/ ClientRaises(c) \/ Release(c)
  PROVE  Inv'
<1>1. RouteInv'
  BY DEF GetCredentials, RefreshIfNeeded, ClientRaises, Release, routeVars,
         Inv, TypeOK, RouteInv, OwnEmail, Unspent, RedeemedOnce
<1>2. ClientUser[c] \in Users /\ 0 \in 0..LifeTicks
  BY OAuthAssumption
<1> USE DEF Inv, TypeOK, GrantInv, Renewable, OwnGrants, Advance
<1>3. CASE GetCredentials(c)
  BY <1>1, <1>2, <1>3, Parts DEF GetCredentials
<1>4. CASE RefreshIfNeeded(c)
  <2>1. call[c] = "check" /\ creds[c] \in Rows /\ creds' = creds
    BY <1>4 DEF RefreshIfNeeded
  <2>2. creds[c].refresh \in Flows \cup {NoToken}
    BY <2>1 DEF Rows, Tokens
  <2> QED
    BY <1>1, <1>2, <1>4, <2>1, <2>2, Parts DEF RefreshIfNeeded
<1>5. CASE ClientRaises(c)
  BY <1>1, <1>2, <1>5, Parts DEF ClientRaises
<1>6. CASE Release(c)
  <2>1. GrantsIn(NoRow) = {}
    BY DEF GrantsIn, NoRow
  <2> QED
    BY <1>1, <1>2, <1>6, <2>1, Parts DEF Release
<1> QED
  BY <1>3, <1>4, <1>5, <1>6

LEMMA RefreshAccessTokenInv ==
  ASSUME Inv, NEW c \in Clients, RefreshAccessToken(c)
  PROVE  Inv'
<1>1. RouteInv'
  BY DEF RefreshAccessToken, routeVars,
         Inv, TypeOK, RouteInv, OwnEmail, Unspent, RedeemedOnce
<1>2. creds[c] \in Rows /\ creds[c].refresh \in Flows
  BY DEF RefreshAccessToken, Advance, Inv, TypeOK, Renewable
<1>3. PICK r \in {NoToken, creds[c].refresh} :
        creds' = [creds EXCEPT ![c] = [@ EXCEPT !.access = creds[c].refresh, !.refresh = r]]
  BY DEF RefreshAccessToken
<1> DEFINE new == [creds[c] EXCEPT !.access = creds[c].refresh, !.refresh = r]
<1>4. new \in Rows /\ GrantsIn(new) \subseteq GrantsIn(creds[c])
  BY <1>2, OAuthAssumption DEF Rows, Tokens, GrantsIn
<1>5. creds' = [creds EXCEPT ![c] = new]
  BY <1>3
<1> HIDE DEF new
<1>6. GrantInv'
  BY <1>4, <1>5, OAuthAssumption
  DEF RefreshAccessToken, Advance, Inv, TypeOK, GrantInv, Renewable, OwnGrants
<1> QED
  BY <1>1, <1>6, Parts

LEMMA SaveRefreshedInv ==
  ASSUME Inv, NEW c \in Clients, SaveRefreshed(c)
  PROVE  Inv'
<1>1. RouteInv'
  BY DEF SaveRefreshed, routeVars, Inv, TypeOK, RouteInv, OwnEmail, Unspent, RedeemedOnce
<1>2. /\ creds[c] \in Rows /\ due[c] \in 0..LifeTicks
      /\ ClientUser[c] \in Users /\ row[ClientUser[c]] \in Rows \cup {NoRow}
      /\ \A f \in GrantsIn(creds[c]) \cup GrantsIn(row[ClientUser[c]]) :
           UserOf[f] = ClientUser[c]
  BY OAuthAssumption DEF SaveRefreshed, Advance, Inv, TypeOK, Renewable, OwnGrants
<1>3. /\ row' \in [Users -> Rows \cup {NoRow}]
      /\ left' \in [Users -> 0..LifeTicks]
      /\ \A v \in Users : \A f \in GrantsIn(row'[v]) : UserOf[f] = v
  BY <1>2, SaveKeeps DEF SaveRefreshed
<1>4. /\ creds' = [creds EXCEPT ![c] = Merged(row[ClientUser[c]], creds[c])]
      /\ Merged(row[ClientUser[c]], creds[c]) \in Rows
      /\ \A f \in GrantsIn(Merged(row[ClientUser[c]], creds[c])) : UserOf[f] = ClientUser[c]
  BY <1>2, MergedType DEF SaveRefreshed
<1>5. GrantInv'
  BY <1>3, <1>4, OAuthAssumption
  DEF SaveRefreshed, Advance, Inv, TypeOK, GrantInv, Renewable, OwnGrants
<1> QED
  BY <1>1, <1>5, Parts

LEMMA TickInv ==
  ASSUME Inv, Tick
  PROVE  Inv'
<1>1. GrantInv'
  BY OAuthAssumption DEF Tick, Inv, TypeOK, GrantInv, Renewable, OwnGrants
<1>2. RouteInv'
  BY OAuthAssumption
  DEF Tick, Inv, TypeOK, RouteInv, OwnEmail, Unspent, RedeemedOnce, Gone, NeverStarted
<1> QED
  BY <1>1, <1>2, Parts

LEMMA NextInv == Inv /\ [Next]_vars => Inv'
<1> SUFFICES ASSUME Inv, [Next]_vars PROVE Inv'
  OBVIOUS
<1>1. CASE UNCHANGED vars
  BY <1>1 DEF vars, Inv, TypeOK, Renewable, OwnEmail, OwnGrants, Unspent, RedeemedOnce
<1>2. ASSUME NEW f \in Flows, Start(f) PROVE Inv'
  BY <1>2, RouteStepInv DEF Start
<1>3. ASSUME NEW b \in Callbacks,
             \/ Denied(b) \/ StateRefused(b) \/ ConsumeState(b)
             \/ Exchange(b) \/ FetchUserinfo(b) \/ CallbackRaises(b)
      PROVE  Inv'
  <2>1. UNCHANGED <<row, left, clientVars>>
    BY <1>3 DEF Denied, StateRefused, ConsumeState, Exchange, FetchUserinfo, CallbackRaises
  <2> QED
    BY <1>3, <2>1, RouteStepInv
<1>4. CASE Restart
  BY <1>4, RouteStepInv DEF Restart
<1> QED
  BY <1>1, <1>2, <1>3, <1>4, SaveConsentInv, ClientStepInv, RefreshAccessTokenInv,
     SaveRefreshedInv, TickInv
  DEF Next

-----------------------------------------------------------------------------
THEOREM Invariant == Spec => []Inv
<1> QED
  BY InitInv, NextInv, PTL DEF Spec

\* States, rows, callbacks and client calls keep their types.
THEOREM TypeCorrect == Spec => []TypeOK
<1>1. Inv => TypeOK
  BY DEF Inv
<1> QED
  BY <1>1, Invariant, PTL

\* No user ever acts with the tokens of another one.
THEOREM TokensStayWithUser == Spec => []OwnGrants
<1>1. Inv => OwnGrants
  BY DEF Inv
<1> QED
  BY <1>1, Invariant, PTL

\* A state is good for one callback.
THEOREM NoReplay == Spec => []RedeemedOnce
<1>1. Inv => RedeemedOnce
  BY DEF Inv
<1> QED
  BY <1>1, Invariant, PTL

\* Only two steps write a row, and both go through the same UPSERT.
LEMMA RowsChangeBySave ==
  ASSUME Inv, [Next]_vars
  PROVE  \/ row' = row
         \/ \E u \in Users, new \in Rows : row' = [row EXCEPT ![u] = Merged(row[u], new)]
<1>1. ASSUME NEW b \in Callbacks, SaveConsent(b)
      PROVE  \E u \in Users, new \in Rows : row' = [row EXCEPT ![u] = Merged(row[u], new)]
  <2>1. PICK r \in {FlowOf[b], NoToken} :
          Save(UserOf[FlowOf[b]],
               [access |-> FlowOf[b], refresh |-> r, email |-> email[b]], LifeTicks)
    BY <1>1 DEF SaveConsent
  <2>2. UserOf[FlowOf[b]] \in Users
    BY OAuthAssumption
  <2>3. [access |-> FlowOf[b], refresh |-> r, email |-> email[b]] \in Rows
    BY OAuthAssumption DEF Inv, OwnEmail, Rows, Tokens
  <2> QED
    BY <2>1, <2>2, <2>3 DEF Save
<1>2. ASSUME NEW c \in Clients, SaveRefreshed(c)
      PROVE  \E u \in Users, new \in Rows : row' = [row EXCEPT ![u] = Merged(row[u], new)]
  <2>1. ClientUser[c] \in Users /\ creds[c] \in Rows
    BY <1>2, OAuthAssumption DEF SaveRefreshed, Advance, Inv, TypeOK, Renewable
  <2> QED
    BY <1>2, <2>1 DEF SaveRefreshed, Save
<1> QED
  BY <1>1, <1>2
  DEF Next, vars, Start, Denied, StateRefused, ConsumeState, Exchange, FetchUserinfo,
      CallbackRaises, GetCredentials, RefreshIfNeeded, RefreshAccessToken, ClientRaises,
      Release, Restart, Tick

\* Neither a consent nor a renewal takes the ability to renew away.
THEOREM CanStillRenew == Spec => RefreshTokenKept
<1>1. Inv /\ [Next]_vars =>
        [\A u \in Users : row[u].refresh # NoToken => row'[u].refresh # NoToken]_vars
  <2> SUFFICES ASSUME Inv, [Next]_vars, NEW v \in Users, row[v].refresh # NoToken
               PROVE  row'[v].refresh # NoToken
    OBVIOUS
  <2>1. CASE row' = row
    BY <2>1
  <2>2. ASSUME NEW u \in Users, NEW new \in Rows, row' = [row EXCEPT ![u] = Merged(row[u], new)]
        PROVE  row'[v].refresh # NoToken
    BY <2>2, MergedType DEF Inv, TypeOK
  <2> QED
    BY <2>1, <2>2, RowsChangeBySave
<1> QED
  BY <1>1, Invariant, PTL DEF Spec, RefreshTokenKept
=============================================================================
