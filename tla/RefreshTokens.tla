---------------------------- MODULE RefreshTokens ----------------------------
(***************************************************************************)
(* The refresh tokens of one family in OAuthRepository: rotation, and the  *)
(* revocation of the family when a token is used again or the client asks. *)
(* Each runs in a READ COMMITTED transaction: a step is a statement with   *)
(* what the server decides from it, an UPDATE waits for the rows that      *)
(* other transactions have updated, and what a transaction has written is  *)
(* seen when it commits (with its last statement).                         *)
(*                                                                         *)
(* Definitions with a word after "_" are wrong on purpose, as in RunStore. *)
(***************************************************************************)
EXTENDS Integers, Sequences, FiniteSets, FiniteSetsExt

CONSTANTS
    Grants,      \* the token requests that may run at once
    TokenTtl,    \* refreshTokenTtlSeconds
    TokenTime,   \* bound: the clock
    MaxTokens    \* bound: tokens of the family

ASSUME RefreshTokensAssumption ==
    TokenTtl \in Nat \ {0} /\ TokenTime \in Nat /\ MaxTokens \in Nat \ {0}

VARIABLES
    tokens,       \* mcp_oauth_refresh_tokens of the family, in order of issue
    familyUntil,  \* expires_at of the family in mcp_oauth_revocations, or 0
    tokenNow,     \* nowSeconds()
    grant         \* where each transaction stands

tokenVars == <<tokens, familyUntil, tokenNow, grant>>

NoGrant == [at |-> "idle", token |-> 0, now |-> 0, until |-> 0, rows |-> {}]

TokensTypeOK ==
    /\ tokens \in Seq([expires : Nat, revoked : BOOLEAN, replaced : BOOLEAN, previous : Nat])
    /\ Len(tokens) <= MaxTokens
    /\ familyUntil \in Nat
    /\ tokenNow \in 0..TokenTime
    /\ grant \in [Grants -> [at : {"idle", "selected", "claimed", "reused", "expiry", "updating"},
                             token : Nat, now : Nat, until : Nat, rows : SUBSET (1..MaxTokens)]]

(* createRefreshToken has issued the first token of the family. *)
TokensInit ==
    /\ tokens = <<[expires |-> TokenTtl, revoked |-> FALSE, replaced |-> FALSE, previous |-> 0]>>
    /\ familyUntil = 0
    /\ tokenNow = 0
    /\ grant = [g \in Grants |-> NoGrant]

GrantGoes(g, at) == grant' = [grant EXCEPT ![g].at = at]
GrantEnds(g)     == grant' = [grant EXCEPT ![g] = NoGrant]
Claimers(g)      == {h \in Grants \ {g} : grant[h].at = "claimed"}
LockedRows(g)    == {grant[h].token : h \in Claimers(g)}
RevokeRows(rows) == [i \in DOMAIN tokens |-> IF i \in rows THEN [tokens[i] EXCEPT !.revoked = TRUE]
                                             ELSE tokens[i]]

TokenTick ==
    /\ tokenNow < TokenTime
    /\ tokenNow' = tokenNow + 1
    /\ UNCHANGED <<tokens, familyUntil, grant>>

(* rotateRefreshToken up to the first UPDATE; a refused request ends here   *)
(* and changes nothing.                                                     *)
SelectToken(g, t) ==
    /\ grant[g].at = "idle"
    /\ tokens[t].expires > tokenNow /\ familyUntil <= tokenNow
    /\ tokens[t].replaced \/ ~tokens[t].revoked
    /\ grant' = [grant EXCEPT ![g] = [NoGrant EXCEPT
                    !.at = IF tokens[t].replaced THEN "reused" ELSE "selected",
                    !.token = t, !.now = tokenNow]]
    /\ UNCHANGED <<tokens, familyUntil, tokenNow>>

(* revokeRefreshToken *)
SelectToRevoke(g, t) ==
    /\ grant[g].at = "idle"
    /\ grant' = [grant EXCEPT ![g] = [NoGrant EXCEPT !.at = "reused", !.token = t, !.now = tokenNow]]
    /\ UNCHANGED <<tokens, familyUntil, tokenNow>>

ClaimToken_Unconditional(g) ==
    /\ grant[g].at = "selected"
    /\ grant[g].token \notin LockedRows(g)
    /\ GrantGoes(g, "claimed")
    /\ UNCHANGED <<tokens, familyUntil, tokenNow>>

(* The UPDATE looks again at a row that another transaction has updated. *)
ClaimToken(g) ==
    LET token == tokens[grant[g].token]
    IN /\ grant[g].at = "selected"
       /\ grant[g].token \notin LockedRows(g)
       /\ \/ /\ ~token.revoked /\ ~token.replaced /\ token.expires > grant[g].now
             /\ GrantGoes(g, "claimed")
          \/ /\ token.replaced
             /\ GrantGoes(g, "reused")
          \/ /\ ~token.replaced
             /\ token.revoked \/ token.expires <= grant[g].now
             /\ GrantEnds(g)
       /\ UNCHANGED <<tokens, familyUntil, tokenNow>>

(* The new token is inserted and the others of the family are revoked. *)
RotateCommitted(g) ==
    LET t == grant[g].token
    IN /\ grant[g].at = "claimed"
       /\ Len(tokens) < MaxTokens
       /\ LockedRows(g) = {}
       /\ tokens' = Append([RevokeRows(DOMAIN tokens) EXCEPT ![t].replaced = TRUE],
                           [expires |-> grant[g].now + TokenTtl, revoked |-> FALSE,
                            replaced |-> FALSE, previous |-> t])
       /\ GrantEnds(g)
       /\ UNCHANGED <<familyUntil, tokenNow>>

(* refreshFamilyMaxExpiry *)
FamilyExpiry(g) ==
    /\ grant[g].at = "reused"
    /\ grant' = [grant EXCEPT ![g].at = "expiry",
                              ![g].until = Max({tokens[i].expires : i \in DOMAIN tokens})]
    /\ UNCHANGED <<tokens, familyUntil, tokenNow>>

(* The UPDATE of the family begins: it sees the rows committed by now. *)
FamilyUpdate(g) ==
    /\ grant[g].at = "expiry"
    /\ grant' = [grant EXCEPT ![g].at = "updating", ![g].rows = DOMAIN tokens]
    /\ UNCHANGED <<tokens, familyUntil, tokenNow>>

RevokeCommitted(g) ==
    /\ grant[g].at = "updating"
    /\ grant[g].rows \cap LockedRows(g) = {}
    /\ tokens' = RevokeRows(grant[g].rows)
    /\ familyUntil' = Max({familyUntil, grant[g].until})
    /\ GrantEnds(g)
    /\ UNCHANGED tokenNow

(* A statement fails, or the server breaks a deadlock: ROLLBACK. *)
GrantAborts(g) ==
    /\ grant[g].at # "idle"
    /\ GrantEnds(g)
    /\ UNCHANGED <<tokens, familyUntil, tokenNow>>

TokensNext ==
    \/ TokenTick
    \/ \E g \in Grants :
         \/ \E t \in DOMAIN tokens : SelectToken(g, t) \/ SelectToRevoke(g, t)
         \/ ClaimToken(g) \/ RotateCommitted(g)
         \/ FamilyExpiry(g) \/ FamilyUpdate(g) \/ RevokeCommitted(g)
         \/ GrantAborts(g)

TokensSpec == TokensInit /\ [][TokensNext]_tokenVars

-----------------------------------------------------------------------------
Refreshable(t) ==
    /\ ~tokens[t].revoked /\ ~tokens[t].replaced
    /\ tokens[t].expires > tokenNow
    /\ familyUntil <= tokenNow

(* However many requests refresh with one token at once, one of them gets   *)
(* the next token: no token has two successors, and no two tokens of a      *)
(* family can be refreshed.                                                 *)
TokensFormAChain ==
    /\ \A s, t \in DOMAIN tokens : tokens[s].previous = tokens[t].previous => s = t
    /\ Cardinality({t \in DOMAIN tokens : Refreshable(t)}) <= 1
=============================================================================
