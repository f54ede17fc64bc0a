------------------------------- MODULE Tokens -------------------------------
(***************************************************************************)
(* Install tokens (token.rs, admin.rs mint_token) and the role checks of    *)
(* AppState (app.rs).  Nodes share a signing key but not a clock; an owner  *)
(* holds base credentials, a holder has nothing but tokens that leaked.  A  *)
(* mint request is two steps, because the credential is gated on its        *)
(* headers, then the body is awaited, and only then is the role evaluated.  *)
(***************************************************************************)
EXTENDS Naturals, FiniteSets

CONSTANTS
    Nodes,
    Lead,           \* how far each node's clock runs ahead of the slowest
    Grants,         \* node -> the roles whose base credential it is configured with
    TokenTtl,       \* TOKEN_TTL_SECS
    MaxClockSkew,   \* MAX_CLOCK_SKEW_SECS
    MaxNow,         \* bound on real time
    MaxTokens       \* bound on tokens minted

ASSUME TokensAssumption ==
    /\ Lead \in [Nodes -> Nat]
    /\ Grants \in [Nodes -> SUBSET {"reader", "uploader", "admin"}]
    \* The nodes of a fleet agree on whether reads are public.
    /\ \A m, n \in Nodes : "reader" \in Grants[m] => "reader" \in Grants[n]
    /\ TokenTtl \in Nat \ {0} /\ MaxClockSkew \in Nat

VARIABLES
    tnow,       \* real time
    minted,     \* every token minted: role, iat, exp, when it really was, for whom
    leaked,     \* the tokens that leaked to the holder
    mints,      \* requester -> its mint request in progress
    entered     \* what the holder was last let in as, and where

tokenVars == <<tnow, minted, leaked, mints, entered>>

Rank(role) == CASE role = "reader" -> 1 [] role = "uploader" -> 2 [] role = "admin" -> 3

(* A presented credential: a base role, a token, or nothing. *)
Base(role) == [kind |-> "base", role |-> role]
Bearer(t) == [kind |-> "token", token |-> t]
Anonymous == [kind |-> "none"]

ClockOf(n) == tnow + Lead[n]

(* token::verify on node n. *)
verify(n, t) == ClockOf(n) < t.exp /\ t.iat <= ClockOf(n) + MaxClockSkew

(* AppState::token_role, as a rank: 0 is no role. *)
token_role(n, c) ==
    IF c.kind = "token" /\ verify(n, c.token) THEN Rank(c.token.role) ELSE 0

uploads_disabled(n) == Grants[n] \cap {"uploader", "admin"} = {}

check_basic_auth(n, c, role) == role \in Grants[n] /\ c.kind = "base" /\ c.role = role

(* AppState::is_admin, is_uploader, is_reader. *)
is_admin(n, c) ==
    /\ "admin" \in Grants[n]
    /\ check_basic_auth(n, c, "admin") \/ token_role(n, c) = 3

is_uploader(n, c) ==
    \/ is_admin(n, c)
    \/ check_basic_auth(n, c, "uploader")
    \/ ~uploads_disabled(n) /\ token_role(n, c) >= 2

is_reader(n, c) ==
    \/ "reader" \notin Grants[n]
    \/ check_basic_auth(n, c, "reader")
    \/ is_uploader(n, c)
    \/ token_role(n, c) > 0

Granted(n, c, role) ==
    CASE role = "reader" -> is_reader(n, c)
      [] role = "uploader" -> is_uploader(n, c)
      [] role = "admin" -> is_admin(n, c)

(* The check mint_token makes on the headers, before it reads the body. *)
RefuseValidTokens(n, c) == token_role(n, c) = 0
MayMint(n, c) == c.kind # "token"

Requesters == {"owner", "holder"}

Presentable(who) ==
    IF who = "owner" THEN {Base(r) : r \in {"reader", "uploader", "admin"}}
    ELSE {Bearer(t) : t \in leaked} \cup {Anonymous}

(* mint_token up to the body. *)
MintBegin(who, n) ==
    /\ mints[who] = {}
    /\ \E c \in Presentable(who) :
        /\ MayMint(n, c)
        /\ mints' = [mints EXCEPT ![who] = {[node |-> n, cred |-> c]}]
    /\ UNCHANGED <<tnow, minted, leaked, entered>>

Claims(n, role, who) ==
    [role |-> role, iat |-> ClockOf(n), exp |-> ClockOf(n) + TokenTtl,
     at |-> tnow, to |-> who]

(* mint_token once the body has arrived: the role is checked now. *)
MintFinish(who) ==
    /\ mints' = [mints EXCEPT ![who] = {}]
    /\ \E m \in mints[who], role \in {"reader", "uploader", "admin"} :
        IF Granted(m.node, m.cred, role)
        THEN LET t == Claims(m.node, role, who) IN
             /\ Cardinality(minted) < MaxTokens
             /\ minted' = minted \cup {t}
             /\ leaked' = IF who = "holder" THEN leaked \cup {t} ELSE leaked
        ELSE UNCHANGED <<minted, leaked>>
    /\ UNCHANGED <<tnow, entered>>

(* A token of the owner's leaks. *)
Leak ==
    /\ \E t \in minted : leaked' = leaked \cup {t}
    /\ UNCHANGED <<tnow, minted, mints, entered>>

(* The holder makes a request that needs a role. *)
Enter(n, role) ==
    /\ \E c \in Presentable("holder") : Granted(n, c, role)
    /\ entered' = {[node |-> n, role |-> role]}
    /\ UNCHANGED <<tnow, minted, leaked, mints>>

TokensTick ==
    /\ tnow < MaxNow
    /\ tnow' = tnow + 1
    /\ entered' = {}
    /\ UNCHANGED <<minted, leaked, mints>>

TokensInit ==
    /\ tnow = 0
    /\ minted = {}
    /\ leaked = {}
    /\ mints = [who \in Requesters |-> {}]
    /\ entered = {}

TokensNext ==
    \/ \E who \in Requesters : (\E n \in Nodes : MintBegin(who, n)) \/ MintFinish(who)
    \/ \E n \in Nodes, role \in {"reader", "uploader", "admin"} : Enter(n, role)
    \/ Leak
    \/ TokensTick

TokensSpec == TokensInit /\ [][TokensNext]_tokenVars

-----------------------------------------------------------------------------
Token == [role : {"reader", "uploader", "admin"}, iat : Nat, exp : Nat, at : Nat,
          to : Requesters]

(* A token outlives its minting by exactly the TTL on the clock that signed it. *)
TokensTypeOK ==
    /\ tnow \in 0..MaxNow
    /\ minted \subseteq Token /\ Cardinality(minted) <= MaxTokens
    /\ \A t \in minted : t.exp = t.iat + TokenTtl
    /\ leaked \subseteq minted
    /\ \A who \in Requesters : Cardinality(mints[who]) <= 1

Ahead == CHOOSE d \in {Lead[n] : n \in Nodes} : \A n \in Nodes : Lead[n] <= d

(* admin.rs mint_token, "a leaked token can't refresh itself into a fresh full
   TTL indefinitely": the holder gets past a role check that anonymous requests
   do not pass only while a token the owner minted is younger than the TTL plus
   the spread of the fleet's clocks, whatever it asks the nodes meanwhile. *)
AccessEnds ==
    \A e \in entered :
        \/ Granted(e.node, Anonymous, e.role)
        \/ \E t \in leaked : t.to = "owner" /\ tnow < t.at + TokenTtl + Ahead

(* app.rs is_admin: "A token's role is capped by what this node can grant", even
   for a token a peer minted: the holder writes only on a node that has a write
   credential of its own, and is admin only on one with an admin credential. *)
CappedByNode ==
    \A e \in entered :
        /\ e.role = "admin" => "admin" \in Grants[e.node]
        /\ e.role = "uploader" => ~uploads_disabled(e.node)
=============================================================================
