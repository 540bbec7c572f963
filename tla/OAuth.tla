-------------------------------- MODULE OAuth -------------------------------
(***************************************************************************)
(* Google credentials in gyros-os: the authorization flow                  *)
(* (src/gyros_os/server/routes/oauth_routes.py), the row of                *)
(* oauth_credentials per user (oauth/service.py) and the clients of Drive  *)
(* and Calendar, which renew an expired access token on the way            *)
(* (oauth/providers/google.py).                                            *)
(*                                                                         *)
(* A flow is one call of /oauth/google/start; the tokens a user gives in   *)
(* it are named after the flow.  The browser can call back more than once  *)
(* with the same state.  Renewals and callbacks of one user interleave     *)
(* between their reads and writes of the row.  Encryption is left out: a   *)
(* token is decrypted to what was encrypted, or the call raises.           *)
(***************************************************************************)
EXTENDS Naturals

CONSTANTS
  Users,       \* user_id, the phone numbers
  Flows,       \* the calls of /start
  UserOf,      \* the user_id of each
  Callbacks,   \* the calls of /callback
  FlowOf,      \* whose state each carries
  Clients,     \* the calls of get_google_drive_client and get_google_calendar_client
  ClientUser,  \* the user_id of each
  NoToken,     \* NULL, None: no token, no e-mail, no row
  StateTicks,  \* _STATE_TTL
  LifeTicks,   \* expires_in of an access token
  MarginTicks  \* the 60 seconds of is_expired

ASSUME OAuthAssumption ==
  /\ UserOf \in [Flows -> Users]
  /\ FlowOf \in [Callbacks -> Flows]
  /\ ClientUser \in [Clients -> Users]
  /\ NoToken \notin Flows
  /\ StateTicks \in Nat /\ LifeTicks \in Nat /\ MarginTicks \in Nat

VARIABLES
  ttl,      \* _state_store: ticks until each state expires, Gone when it is not there
  row,      \* oauth_credentials of each user
  left,     \* expires_at of that row, minus now
  back,     \* where each callback stands
  email,    \* what userinfo said of its account
  call,     \* where each client call stands
  creds,    \* the OAuthCredentials it holds
  due,      \* their expires_at, minus now, while the call still needs it
  redeemed  \* history: how many callbacks have got past the state of each flow

routeVars == <<ttl, back, email, redeemed>>
clientVars == <<call, creds, due>>
vars == <<ttl, row, left, back, email, call, creds, due, redeemed>>

Gone == StateTicks + 1
NeverStarted == StateTicks + 2
Tokens == Flows \cup {NoToken}
NoRow == [access |-> NoToken, refresh |-> NoToken, email |-> NoToken]
Rows == [access : Flows, refresh : Tokens, email : Tokens]

TypeOK ==
  /\ ttl \in [Flows -> 0..NeverStarted]
  /\ row \in [Users -> Rows \cup {NoRow}]
  /\ left \in [Users -> 0..LifeTicks]
  /\ back \in [Callbacks -> {"new", "exchange", "userinfo", "save", "done", "refused", "failed"}]
  /\ email \in [Callbacks -> Tokens]
  /\ call \in [Clients -> {"idle", "check", "refresh", "save", "ready", "raised"}]
  /\ creds \in [Clients -> Rows \cup {NoRow}]
  /\ due \in [Clients -> 0..LifeTicks]
  /\ redeemed \in [Flows -> Nat]

Init ==
  /\ ttl = [f \in Flows |-> NeverStarted]
  /\ row = [u \in Users |-> NoRow]
  /\ left = [u \in Users |-> 0]
  /\ back = [b \in Callbacks |-> "new"]
  /\ email = [b \in Callbacks |-> NoToken]
  /\ call = [c \in Clients |-> "idle"]
  /\ creds = [c \in Clients |-> NoRow]
  /\ due = [c \in Clients |-> 0]
  /\ redeemed = [f \in Flows |-> 0]

-----------------------------------------------------------------------------
(* The routes.                                                             *)

\* oauth_google_start: _issue_state stores the state and prunes the expired ones.
Start(f) ==
  /\ ttl[f] = NeverStarted
  /\ ttl' = [g \in Flows |-> IF g = f THEN StateTicks ELSE IF ttl[g] = 0 THEN Gone ELSE ttl[g]]
  /\ UNCHANGED <<row, left, back, email, clientVars, redeemed>>

Proceed(b, from, to) == back[b] = from /\ back' = [back EXCEPT ![b] = to]

\* The user has denied the consent: answered before the state is looked at.
Denied(b) ==
  /\ ttl[FlowOf[b]] # NeverStarted
  /\ Proceed(b, "new", "refused")
  /\ UNCHANGED <<ttl, row, left, email, clientVars, redeemed>>

\* _consume_state finds nothing, or finds it expired.
StateRefused(b) ==
  /\ ttl[FlowOf[b]] \in {0, Gone}
  /\ Proceed(b, "new", "refused")
  /\ ttl' = [ttl EXCEPT ![FlowOf[b]] = Gone]
  /\ UNCHANGED <<row, left, email, clientVars, redeemed>>

\* Defect: _consume_state reads the entry and leaves it in the store.
ConsumeStateKept(b) ==
  /\ ttl[FlowOf[b]] \in 1..StateTicks
  /\ Proceed(b, "new", "exchange")
  /\ redeemed' = [redeemed EXCEPT ![FlowOf[b]] = @ + 1]
  /\ UNCHANGED <<ttl, row, left, email, clientVars>>

\* _consume_state: pop, before the first await.
ConsumeState(b) ==
  /\ ttl[FlowOf[b]] \in 1..StateTicks
  /\ Proceed(b, "new", "exchange")
  /\ ttl' = [ttl EXCEPT ![FlowOf[b]] = Gone]
  /\ redeemed' = [redeemed EXCEPT ![FlowOf[b]] = @ + 1]
  /\ UNCHANGED <<row, left, email, clientVars>>

\* exchange_code_for_tokens: flow.fetch_token.
Exchange(b) ==
  /\ Proceed(b, "exchange", "userinfo")
  /\ UNCHANGED <<ttl, row, left, email, clientVars, redeemed>>

\* _fetch_userinfo: the e-mail, or None after its attempts; it never raises.
FetchUserinfo(b) ==
  /\ Proceed(b, "userinfo", "save")
  /\ \E e \in {FlowOf[b], NoToken} : email' = [email EXCEPT ![b] = e]
  /\ UNCHANGED <<ttl, row, left, clientVars, redeemed>>

\* Defect: the UPSERT writes EXCLUDED.refresh_token_encrypted, NULL or not.
MergedPlain(old, new) == new

\* ON CONFLICT DO UPDATE: everything is replaced but a refresh token by NULL.
Merged(old, new) ==
  [new EXCEPT !.refresh = IF @ = NoToken THEN old.refresh ELSE @]

\* save_credentials: one UPSERT, committed.
Save(u, new, ticks) ==
  /\ row' = [row EXCEPT ![u] = Merged(row[u], new)]
  /\ left' = [left EXCEPT ![u] = ticks]

\* Defect: the row of a user is found by anything but the state of the flow.
SaveForAnyone(b) ==
  /\ Proceed(b, "save", "done")
  /\ \E u \in Users, r \in {FlowOf[b], NoToken} :
       Save(u, [access |-> FlowOf[b], refresh |-> r, email |-> email[b]], LifeTicks)
  /\ UNCHANGED <<ttl, email, clientVars, redeemed>>

\* The callback saves the tokens under the user of its state.  Google does not
\* return a refresh token every time.
SaveConsent(b) ==
  /\ Proceed(b, "save", "done")
  /\ \E r \in {FlowOf[b], NoToken} :
       Save(UserOf[FlowOf[b]], [access |-> FlowOf[b], refresh |-> r, email |-> email[b]], LifeTicks)
  /\ UNCHANGED <<ttl, email, clientVars, redeemed>>

\* Google or the database refuses.
CallbackRaises(b) ==
  /\ back[b] \in {"exchange", "save"}
  /\ back' = [back EXCEPT ![b] = "failed"]
  /\ UNCHANGED <<ttl, row, left, email, clientVars, redeemed>>

\* The API process is started again: the states and the callbacks under way are gone.
Restart ==
  /\ ttl' = [f \in Flows |-> IF ttl[f] = NeverStarted THEN ttl[f] ELSE Gone]
  /\ back' = [b \in Callbacks |->
                IF back[b] \in {"exchange", "userinfo", "save"} THEN "failed" ELSE back[b]]
  /\ UNCHANGED <<row, left, email, clientVars, redeemed>>

-----------------------------------------------------------------------------
(* get_google_drive_client and get_google_calendar_client.                 *)

Advance(c, from, to) == call[c] = from /\ call' = [call EXCEPT ![c] = to]

\* get_credentials; GoogleCredentialsNotFound when there is no row.
GetCredentials(c) ==
  /\ Advance(c, "idle", IF row[ClientUser[c]] = NoRow THEN "raised" ELSE "check")
  /\ creds' = [creds EXCEPT ![c] = row[ClientUser[c]]]
  /\ due' = [due EXCEPT ![c] = left[ClientUser[c]]]
  /\ UNCHANGED <<routeVars, row, left>>

\* Defect: refresh_if_needed does not look whether there is a refresh token.
RefreshIfNeededBlind(c) ==
  /\ \/ due[c] > MarginTicks /\ Advance(c, "check", "ready")
     \/ due[c] <= MarginTicks /\ Advance(c, "check", "refresh")
  /\ due' = [due EXCEPT ![c] = 0]
  /\ UNCHANGED <<routeVars, row, left, creds>>

\* refresh_if_needed: is_expired with its margin, then a refresh token, or it raises.
RefreshIfNeeded(c) ==
  /\ \/ due[c] > MarginTicks /\ Advance(c, "check", "ready")
     \/ /\ due[c] <= MarginTicks
        /\ Advance(c, "check", IF creds[c].refresh = NoToken THEN "raised" ELSE "refresh")
  /\ due' = [due EXCEPT ![c] = 0]
  /\ UNCHANGED <<routeVars, row, left, creds>>

\* refresh_access_token: an access token, hardly ever a refresh token with it.
RefreshAccessToken(c) ==
  /\ Advance(c, "refresh", "save")
  /\ \E r \in {NoToken, creds[c].refresh} :
       creds' = [creds EXCEPT ![c] = [@ EXCEPT !.access = creds[c].refresh, !.refresh = r]]
  /\ due' = [due EXCEPT ![c] = LifeTicks]
  /\ UNCHANGED <<routeVars, row, left>>

\* ... and save_credentials over whatever the row holds by now; it returns the row.
SaveRefreshed(c) ==
  /\ Advance(c, "save", "ready")
  /\ Save(ClientUser[c], creds[c], due[c])
  /\ creds' = [creds EXCEPT ![c] = Merged(row[ClientUser[c]], @)]
  /\ due' = [due EXCEPT ![c] = 0]
  /\ UNCHANGED routeVars

ClientRaises(c) ==
  /\ call[c] \in {"refresh", "save"}
  /\ call' = [call EXCEPT ![c] = "raised"]
  /\ due' = [due EXCEPT ![c] = 0]
  /\ UNCHANGED <<routeVars, row, left, creds>>

\* The client has been used; a later call starts again.
Release(c) ==
  /\ call[c] \in {"ready", "raised"}
  /\ call' = [call EXCEPT ![c] = "idle"]
  /\ creds' = [creds EXCEPT ![c] = NoRow]
  /\ UNCHANGED <<routeVars, row, left, due>>

Tick ==
  /\ ttl' = [f \in Flows |-> IF ttl[f] \in 1..StateTicks THEN ttl[f] - 1 ELSE ttl[f]]
  /\ left' = [u \in Users |-> IF left[u] > 0 THEN left[u] - 1 ELSE 0]
  /\ due' = [c \in Clients |-> IF due[c] > 0 THEN due[c] - 1 ELSE 0]
  /\ UNCHANGED <<row, back, email, call, creds, redeemed>>

Next ==
  \/ \E f \in Flows : Start(f)
  \/ \E b \in Callbacks :
       \/ Denied(b) \/ StateRefused(b) \/ ConsumeState(b)
       \/ Exchange(b) \/ FetchUserinfo(b) \/ SaveConsent(b) \/ CallbackRaises(b)
  \/ \E c \in Clients :
       \/ GetCredentials(c) \/ RefreshIfNeeded(c) \/ RefreshAccessToken(c)
       \/ SaveRefreshed(c) \/ ClientRaises(c) \/ Release(c)
  \/ Restart
  \/ Tick

Spec == Init /\ [][Next]_vars

-----------------------------------------------------------------------------
\* The tokens a row or a copy of it brings together.
GrantsIn(r) == {r.access, r.refresh, r.email} \ {NoToken}

\* The tokens of a user, in the table and in the hands of every client, come from
\* flows that were started for that user, whatever callbacks and renewals overlap.
OwnGrants ==
  /\ \A u \in Users : \A f \in GrantsIn(row[u]) : UserOf[f] = u
  /\ \A c \in Clients : \A f \in GrantsIn(creds[c]) : UserOf[f] = ClientUser[c]

\* "isso previne replay de state válido": one callback at most gets past each state.
RedeemedOnce == \A f \in Flows : redeemed[f] <= 1

\* "do NOT overwrite with NULL": once a user has a refresh token, no consent and no
\* renewal takes the ability to renew away again.
RefreshTokenKept ==
  [][\A u \in Users : row[u].refresh # NoToken => row'[u].refresh # NoToken]_vars

=============================================================================
