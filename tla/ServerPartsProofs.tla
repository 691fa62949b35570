--------------------------- MODULE ServerPartsProofs ---------------------------
(***************************************************************************)
(* What is proved of the smaller parts of the server, one after another:   *)
(* the refresh tokens, the preset store, the order of the shutdown, the    *)
(* sessions of the simulation service, and then, with what BufferProofs    *)
(* has of the others, the parts side by side.                              *)
(***************************************************************************)
EXTENDS MCServerParts, BufferProofs, FiniteSetTheorems, TLAPS

-----------------------------------------------------------------------------
(* RefreshTokens *)

Token == [expires : Nat, revoked : BOOLEAN, replaced : BOOLEAN, previous : Nat]

GrantIn(Untils) ==
    [at : {"idle", "selected", "claimed", "reused", "expiry", "updating"},
     token : Nat, now : Nat, until : Untils, rows : SUBSET Nat]

ChainTypes ==
    /\ tokens \in Seq(Token)
    /\ tokenNow \in Nat
    /\ \E Untils : grant \in [Grants -> GrantIn(Untils)]

(* A token that has a successor is marked, and has one; all but the last    *)
(* are revoked.                                                             *)
Chained ==
    /\ \A t \in DOMAIN tokens : tokens[t].previous # 0 =>
         tokens[t].previous \in DOMAIN tokens /\ tokens[tokens[t].previous].replaced
    /\ \A s, t \in DOMAIN tokens : tokens[s].previous = tokens[t].previous => s = t
    /\ \A t \in DOMAIN tokens : t # Len(tokens) => tokens[t].revoked

(* The row lock: what one request has claimed no other changes. *)
ClaimedFresh ==
    \A g \in Grants :
        /\ grant[g].at \in {"selected", "claimed"} => grant[g].token \in DOMAIN tokens
        /\ grant[g].at = "claimed" =>
             ~tokens[grant[g].token].revoked /\ ~tokens[grant[g].token].replaced

ChainInv == ChainTypes /\ Chained /\ ClaimedFresh

-----------------------------------------------------------------------------
(* What revoking rows leaves of a token *)
LEMMA RowsRevoked ==
  ASSUME tokens \in Seq(Token), NEW rows
  PROVE  /\ RevokeRows(rows) \in Seq(Token)
         /\ Len(RevokeRows(rows)) = Len(tokens)
         /\ \A i \in DOMAIN tokens :
              /\ RevokeRows(rows)[i].revoked = (i \in rows \/ tokens[i].revoked)
              /\ RevokeRows(rows)[i].replaced = tokens[i].replaced
              /\ RevokeRows(rows)[i].previous = tokens[i].previous
              /\ RevokeRows(rows)[i].expires = tokens[i].expires
  <1>1. DOMAIN tokens = 1..Len(tokens) /\ Len(tokens) \in Nat
        /\ \A i \in 1..Len(tokens) : tokens[i] \in Token
    OBVIOUS
  <1>2. \A i \in DOMAIN tokens : RevokeRows(rows)[i] =
          IF i \in rows THEN [tokens[i] EXCEPT !.revoked = TRUE] ELSE tokens[i]
    BY DEF RevokeRows
  <1>3. \A i \in DOMAIN tokens : RevokeRows(rows)[i] \in Token
    BY <1>1, <1>2 DEF Token
  <1>4. DOMAIN RevokeRows(rows) = 1..Len(tokens)
    BY <1>1 DEF RevokeRows
  <1>5. RevokeRows(rows) \in [1..Len(tokens) -> Token]
    BY <1>1, <1>3, <1>4 DEF RevokeRows
  <1>6. RevokeRows(rows) \in Seq(Token) /\ Len(RevokeRows(rows)) = Len(tokens)
    BY <1>1, <1>4, <1>5
  <1>7. \A i \in DOMAIN tokens :
          /\ RevokeRows(rows)[i].revoked = (i \in rows \/ tokens[i].revoked)
          /\ RevokeRows(rows)[i].replaced = tokens[i].replaced
          /\ RevokeRows(rows)[i].previous = tokens[i].previous
          /\ RevokeRows(rows)[i].expires = tokens[i].expires
    <2> TAKE i \in DOMAIN tokens
    <2>1. tokens[i] \in Token
      BY <1>1
    <2>2. CASE i \in rows
      BY <1>2, <2>1, <2>2 DEF Token
    <2>3. CASE i \notin rows
      BY <1>2, <2>1, <2>3 DEF Token
    <2> QED
      BY <2>2, <2>3
  <1> QED
    BY <1>6, <1>7

LEMMA InitChain == ASSUME TokensInit PROVE ChainInv
  <1>1. tokens \in Seq(Token) /\ DOMAIN tokens = {1} /\ Len(tokens) = 1
        /\ tokens[1].previous = 0
    BY RefreshTokensAssumption DEF TokensInit, Token
  <1>2. grant \in [Grants -> GrantIn({0})] /\ tokenNow \in Nat
        /\ \A g \in Grants : grant[g].at = "idle"
    BY DEF TokensInit, NoGrant, GrantIn
  <1>3. ChainTypes
    BY <1>1, <1>2 DEF ChainTypes
  <1> QED
    BY <1>1, <1>2, <1>3 DEF ChainInv, Chained, ClaimedFresh

(* The one that claims, or has claimed, a token that is not revoked claims  *)
(* the last.                                                                *)
LEMMA ClaimedIsLast ==
  ASSUME ChainInv, NEW g \in Grants, grant[g].at = "claimed"
  PROVE  grant[g].token = Len(tokens) /\ grant[g].token \in DOMAIN tokens
  BY DEF ChainInv, Chained, ClaimedFresh

(* Steps that change no token and claim none *)
LEMMA GrantStep ==
  ASSUME ChainInv, NEW g \in Grants, UNCHANGED tokens, tokenNow' \in Nat,
         NEW entry, grant' = [grant EXCEPT ![g] = entry],
         NEW until, entry \in GrantIn({until}),
         entry.at \in {"selected", "claimed"} => entry.token \in DOMAIN tokens,
         entry.at = "claimed" => ~tokens[entry.token].revoked /\ ~tokens[entry.token].replaced
  PROVE  ChainInv'
  <1>1. PICK Untils : grant \in [Grants -> GrantIn(Untils)]
    BY DEF ChainInv, ChainTypes
  <1>2. \A h \in Grants : grant[h] \in GrantIn(Untils \cup {until})
    BY <1>1 DEF GrantIn
  <1>3. entry \in GrantIn(Untils \cup {until})
    BY DEF GrantIn
  <1>4. grant' \in [Grants -> GrantIn(Untils \cup {until})]
    BY <1>1, <1>2, <1>3
  <1>5. ChainTypes'
    BY <1>4 DEF ChainInv, ChainTypes
  <1>6. Chained'
    BY DEF ChainInv, Chained
  <1>7. grant'[g] = entry /\ \A h \in Grants : h # g => grant'[h] = grant[h]
    BY <1>1
  <1>8. ClaimedFresh'
    BY <1>7 DEF ChainInv, ClaimedFresh
  <1> QED
    BY <1>5, <1>6, <1>8 DEF ChainInv

LEMMA EndedStep ==
  ASSUME ChainInv, NEW g \in Grants, UNCHANGED tokens, tokenNow' = tokenNow, GrantEnds(g)
  PROVE  ChainInv'
  <1>1. NoGrant \in GrantIn({0}) /\ NoGrant.at = "idle"
    BY DEF NoGrant, GrantIn
  <1>2. tokenNow' \in Nat
    BY DEF ChainInv, ChainTypes
  <1> QED
    BY <1>1, <1>2, GrantStep DEF GrantEnds

(* A request goes on, with what it has noted. *)
LEMMA GoneStep ==
  ASSUME ChainInv, NEW g \in Grants, UNCHANGED <<tokens, tokenNow>>,
         NEW at \in {"claimed", "reused", "expiry", "updating"}, NEW until,
         NEW rows \in SUBSET Nat,
         \/ grant' = [grant EXCEPT ![g].at = at]
         \/ grant' = [grant EXCEPT ![g].at = at, ![g].until = until]
         \/ grant' = [grant EXCEPT ![g].at = at, ![g].rows = rows],
         at = "claimed" =>
             /\ grant[g].token \in DOMAIN tokens
             /\ ~tokens[grant[g].token].revoked /\ ~tokens[grant[g].token].replaced
  PROVE  ChainInv'
  <1>1. PICK Untils : grant \in [Grants -> GrantIn(Untils)]
    BY DEF ChainInv, ChainTypes
  <1>2. grant[g] \in GrantIn(Untils)
    BY <1>1
  <1>3. tokenNow' \in Nat
    BY DEF ChainInv, ChainTypes
  <1>4. CASE grant' = [grant EXCEPT ![g].at = at]
    <2> DEFINE entry == [grant[g] EXCEPT !.at = at]
    <2>1. entry \in GrantIn({grant[g].until}) /\ entry.at = at /\ entry.token = grant[g].token
      BY <1>2 DEF GrantIn
    <2>2. grant' = [grant EXCEPT ![g] = entry]
      BY <1>4
    <2> HIDE DEF entry
    <2> QED
      BY <1>3, <2>1, <2>2, GrantStep
  <1>5. CASE grant' = [grant EXCEPT ![g].at = at, ![g].until = until]
    <2> DEFINE entry == [grant[g] EXCEPT !.at = at, !.until = until]
    <2>1. entry \in GrantIn({until}) /\ entry.at = at /\ entry.token = grant[g].token
      BY <1>2 DEF GrantIn
    <2>2. grant' = [grant EXCEPT ![g] = entry]
      BY <1>1, <1>5
    <2> HIDE DEF entry
    <2> QED
      BY <1>3, <2>1, <2>2, GrantStep
  <1>6. CASE grant' = [grant EXCEPT ![g].at = at, ![g].rows = rows]
    <2> DEFINE entry == [grant[g] EXCEPT !.at = at, !.rows = rows]
    <2>1. entry \in GrantIn({grant[g].until}) /\ entry.at = at /\ entry.token = grant[g].token
      BY <1>2 DEF GrantIn
    <2>2. grant' = [grant EXCEPT ![g] = entry]
      BY <1>1, <1>6
    <2> HIDE DEF entry
    <2> QED
      BY <1>3, <2>1, <2>2, GrantStep
  <1> QED
    BY <1>4, <1>5, <1>6

(* A request starts. *)
LEMMA SelectedStep ==
  ASSUME ChainInv, NEW g \in Grants, NEW t \in DOMAIN tokens,
         SelectToken(g, t) \/ SelectToRevoke(g, t)
  PROVE  ChainInv'
  <1>1. t \in Nat /\ tokenNow \in Nat
    BY DEF ChainInv, ChainTypes
  <1>2. PICK at \in {"selected", "reused"} :
          grant' = [grant EXCEPT ![g] = [NoGrant EXCEPT !.at = at, !.token = t, !.now = tokenNow]]
    BY DEF SelectToken, SelectToRevoke
  <1> DEFINE entry == [NoGrant EXCEPT !.at = at, !.token = t, !.now = tokenNow]
  <1>3. entry \in GrantIn({0}) /\ entry.at = at /\ entry.token = t
    BY <1>1 DEF NoGrant, GrantIn
  <1>4. grant' = [grant EXCEPT ![g] = entry] /\ UNCHANGED <<tokens, tokenNow>>
    BY <1>2 DEF SelectToken, SelectToRevoke
  <1> HIDE DEF entry
  <1> QED
    BY <1>1, <1>3, <1>4, GrantStep

LEMMA ClaimStep == ASSUME ChainInv, NEW g \in Grants, ClaimToken(g) PROVE ChainInv'
  <1>1. grant[g].token \in DOMAIN tokens /\ UNCHANGED <<tokens, tokenNow>>
    BY DEF ClaimToken, ChainInv, ClaimedFresh
  <1>2. CASE GrantEnds(g)
    BY <1>1, <1>2, EndedStep
  <1>3. CASE GrantGoes(g, "reused")
    BY <1>1, <1>3, GoneStep DEF GrantGoes
  <1>4. CASE /\ GrantGoes(g, "claimed")
             /\ ~tokens[grant[g].token].revoked /\ ~tokens[grant[g].token].replaced
    BY <1>1, <1>4, GoneStep DEF GrantGoes
  <1> QED
    BY <1>2, <1>3, <1>4 DEF ClaimToken

-----------------------------------------------------------------------------
(* What a request is left with when it ends *)
LEMMA GrantEnded ==
  ASSUME ChainInv, NEW g \in Grants, GrantEnds(g)
  PROVE  /\ \E Untils : grant' \in [Grants -> GrantIn(Untils)]
         /\ grant'[g].at = "idle"
         /\ \A h \in Grants : h # g => grant'[h] = grant[h]
  <1>1. PICK Untils : grant \in [Grants -> GrantIn(Untils)]
    BY DEF ChainInv, ChainTypes
  <1>2. \A h \in Grants : grant[h] \in GrantIn(Untils \cup {0})
    BY <1>1 DEF GrantIn
  <1>3. NoGrant \in GrantIn(Untils \cup {0}) /\ NoGrant.at = "idle"
    BY DEF NoGrant, GrantIn
  <1>4. grant' = [grant EXCEPT ![g] = NoGrant]
    BY DEF GrantEnds
  <1>5. grant' \in [Grants -> GrantIn(Untils \cup {0})]
    BY <1>1, <1>2, <1>3, <1>4
  <1>6. grant'[g] = NoGrant /\ \A h \in Grants : h # g => grant'[h] = grant[h]
    BY <1>1, <1>4
  <1> QED
    BY <1>3, <1>5, <1>6

(* What marking a token leaves of a family *)
LEMMA TokenMarked ==
  ASSUME NEW family \in Seq(Token), NEW t \in 1..Len(family)
  PROVE  LET marked == [family EXCEPT ![t].replaced = TRUE]
         IN /\ marked \in Seq(Token) /\ Len(marked) = Len(family)
            /\ \A i \in 1..Len(family) :
                 /\ marked[i].replaced = (i = t \/ family[i].replaced)
                 /\ marked[i].revoked = family[i].revoked
                 /\ marked[i].previous = family[i].previous
  <1> DEFINE marked == [family EXCEPT ![t].replaced = TRUE]
             one == [family[t] EXCEPT !.replaced = TRUE]
  <1>1. family[t] \in Token
    OBVIOUS
  <1>2. one \in Token /\ one.replaced /\ one.revoked = family[t].revoked
        /\ one.previous = family[t].previous
    BY <1>1 DEF Token
  <1>3. marked = [family EXCEPT ![t] = one]
    OBVIOUS
  <1> HIDE DEF one, marked
  <1>4. /\ marked \in Seq(Token) /\ Len(marked) = Len(family) /\ marked[t] = one
        /\ \A i \in 1..Len(family) : i # t => marked[i] = family[i]
    BY <1>2, <1>3
  <1>5. \A i \in 1..Len(family) : family[i] \in Token
    OBVIOUS
  <1>6. \A i \in 1..Len(family) : /\ marked[i].replaced = (i = t \/ family[i].replaced)
                                  /\ marked[i].revoked = family[i].revoked
                                  /\ marked[i].previous = family[i].previous
    BY <1>2, <1>4, <1>5 DEF Token
  <1> QED
    BY <1>4, <1>6 DEF marked

(* The rotation waits for whoever else has claimed a token: the claim of a  *)
(* request is the only one, and it is for the last token.                   *)
LEMMA RotateStep == ASSUME ChainInv, NEW g \in Grants, RotateCommitted(g) PROVE ChainInv'
  <1> DEFINE t == grant[g].token
             revoked == RevokeRows(DOMAIN tokens)
             marked == [revoked EXCEPT ![t].replaced = TRUE]
             next == [expires |-> grant[g].now + TokenTtl, revoked |-> FALSE,
                      replaced |-> FALSE, previous |-> t]
  <1>1. tokens \in Seq(Token) /\ Len(tokens) \in Nat /\ DOMAIN tokens = 1..Len(tokens)
    BY DEF ChainInv, ChainTypes
  <1>2. t \in DOMAIN tokens /\ t = Len(tokens) /\ ~tokens[t].replaced
    BY ClaimedIsLast DEF RotateCommitted, ChainInv, ClaimedFresh
  <1>3. tokens' = Append(marked, next) /\ GrantEnds(g) /\ tokenNow' = tokenNow
        /\ LockedRows(g) = {}
    BY DEF RotateCommitted
  <1>4. grant[g].now \in Nat
    BY DEF ChainInv, ChainTypes, GrantIn
  <1>5. next \in Token /\ next.previous = t
    BY <1>1, <1>2, <1>4, RefreshTokensAssumption DEF Token
  <1>6. /\ revoked \in Seq(Token) /\ Len(revoked) = Len(tokens)
        /\ \A i \in DOMAIN tokens : /\ revoked[i] \in Token /\ revoked[i].revoked
                                    /\ revoked[i].replaced = tokens[i].replaced
                                    /\ revoked[i].previous = tokens[i].previous
    <2>1. /\ revoked \in Seq(Token) /\ Len(revoked) = Len(tokens)
          /\ \A i \in DOMAIN tokens : /\ revoked[i].revoked = (i \in DOMAIN tokens \/ tokens[i].revoked)
                                      /\ revoked[i].replaced = tokens[i].replaced
                                      /\ revoked[i].previous = tokens[i].previous
      BY <1>1, RowsRevoked
    <2> HIDE DEF revoked
    <2>2. \A i \in DOMAIN tokens : revoked[i] \in Token
      BY <1>1, <2>1
    <2>3. \A i \in DOMAIN tokens : revoked[i].revoked
      BY <2>1, Zenon
    <2> QED
      BY <2>1, <2>2, <2>3, Zenon
  <1> HIDE DEF revoked, next
  <1>7. /\ marked \in Seq(Token) /\ Len(marked) = Len(tokens)
        /\ \A i \in DOMAIN tokens : /\ marked[i].revoked
                                    /\ tokens[i].replaced \/ i = t => marked[i].replaced
                                    /\ marked[i].previous = tokens[i].previous
    <2>1. t \in 1..Len(revoked)
      BY <1>1, <1>2, <1>6
    <2>2. /\ marked \in Seq(Token) /\ Len(marked) = Len(revoked)
          /\ \A i \in 1..Len(revoked) :
               /\ marked[i].replaced = (i = t \/ revoked[i].replaced)
               /\ marked[i].revoked = revoked[i].revoked
               /\ marked[i].previous = revoked[i].previous
      BY <1>6, <2>1, TokenMarked
    <2> QED
      BY <1>1, <1>6, <2>2
  <1> HIDE DEF marked
  <1>8. /\ tokens' \in Seq(Token) /\ Len(tokens') = Len(tokens) + 1
        /\ DOMAIN tokens' = 1..(Len(tokens) + 1)
        /\ tokens'[Len(tokens) + 1] = next
        /\ \A i \in DOMAIN tokens : tokens'[i] = marked[i]
    BY <1>1, <1>3, <1>5, <1>7
  <1>9. ChainTypes'
    BY <1>3, <1>8, GrantEnded DEF ChainTypes, ChainInv
  <1>10. Chained'
    <2>1. ASSUME NEW i \in DOMAIN tokens', tokens'[i].previous # 0
          PROVE  tokens'[i].previous \in DOMAIN tokens' /\ tokens'[tokens'[i].previous].replaced
      <3>1. CASE i = Len(tokens) + 1
        BY <1>1, <1>2, <1>5, <1>7, <1>8, <3>1
      <3>2. CASE i # Len(tokens) + 1
        <4>1. i \in DOMAIN tokens /\ tokens'[i].previous = tokens[i].previous
          BY <1>1, <1>7, <1>8, <3>2
        <4>2. tokens[i].previous \in DOMAIN tokens /\ tokens[tokens[i].previous].replaced
          BY <2>1, <4>1 DEF ChainInv, Chained
        <4> QED
          BY <1>1, <1>7, <1>8, <4>1, <4>2
      <3> QED
        BY <3>1, <3>2
    <2>2. ASSUME NEW i \in DOMAIN tokens', NEW j \in DOMAIN tokens',
                 tokens'[i].previous = tokens'[j].previous
          PROVE  i = j
      <3>1. \A k \in DOMAIN tokens : tokens'[k].previous # t
        <4> TAKE k \in DOMAIN tokens
        <4>1. tokens'[k].previous = tokens[k].previous
          BY <1>7, <1>8
        <4>2. t # 0
          BY <1>1, <1>2
        <4> QED
          BY <1>2, <4>1, <4>2 DEF ChainInv, Chained
      <3>2. tokens'[Len(tokens) + 1].previous = t
        BY <1>5, <1>8
      <3>3. \A k \in DOMAIN tokens' : k \in DOMAIN tokens \/ k = Len(tokens) + 1
        BY <1>1, <1>8
      <3>4. CASE i \in DOMAIN tokens /\ j \in DOMAIN tokens
        BY <2>2, <3>4, <1>7, <1>8 DEF ChainInv, Chained
      <3> QED
        BY <2>2, <3>1, <3>2, <3>3, <3>4
    <2>3. \A i \in DOMAIN tokens' : i # Len(tokens') => tokens'[i].revoked
      BY <1>1, <1>7, <1>8
    <2> QED
      BY <2>1, <2>2, <2>3 DEF Chained
  <1>11. ClaimedFresh'
    <2>1. ASSUME NEW h \in Grants, h # g PROVE grant'[h].at # "claimed"
      <3>1. h \notin Claimers(g)
        BY <1>3 DEF LockedRows
      <3> QED
        BY <1>3, <2>1, <3>1, GrantEnded DEF Claimers
    <2>2. \A h \in Grants : grant'[h].at # "claimed"
      BY <1>3, <2>1, GrantEnded
    <2>3. ASSUME NEW h \in Grants, grant'[h].at = "selected" PROVE grant'[h].token \in DOMAIN tokens'
      <3>1. h # g /\ grant'[h] = grant[h]
        BY <1>3, <2>3, GrantEnded
      <3> QED
        BY <1>1, <1>8, <2>3, <3>1 DEF ChainInv, ClaimedFresh
    <2> QED
      BY <2>2, <2>3 DEF ClaimedFresh
  <1> QED
    BY <1>9, <1>10, <1>11 DEF ChainInv

(* The revocation of a family waits for the claims on the rows it has seen. *)
LEMMA RevokeStep == ASSUME ChainInv, NEW g \in Grants, RevokeCommitted(g) PROVE ChainInv'
  <1> DEFINE rows == grant[g].rows
  <1>1. tokens \in Seq(Token) /\ DOMAIN tokens = 1..Len(tokens)
    BY DEF ChainInv, ChainTypes
  <1>2. tokens' = RevokeRows(rows) /\ GrantEnds(g) /\ tokenNow' = tokenNow
        /\ rows \cap LockedRows(g) = {}
    BY DEF RevokeCommitted
  <1>3. /\ tokens' \in Seq(Token) /\ Len(tokens') = Len(tokens) /\ DOMAIN tokens' = DOMAIN tokens
        /\ \A i \in DOMAIN tokens :
             /\ tokens'[i].revoked = (i \in rows \/ tokens[i].revoked)
             /\ tokens'[i].replaced = tokens[i].replaced
             /\ tokens'[i].previous = tokens[i].previous
    BY <1>1, <1>2, RowsRevoked
  <1>4. ChainTypes'
    BY <1>2, <1>3, GrantEnded DEF ChainTypes, ChainInv
  <1>5. Chained'
    BY <1>3 DEF ChainInv, Chained
  <1>6. ASSUME NEW h \in Grants
        PROVE  /\ grant'[h].at \in {"selected", "claimed"} => grant'[h].token \in DOMAIN tokens'
               /\ grant'[h].at = "claimed" =>
                    ~tokens'[grant'[h].token].revoked /\ ~tokens'[grant'[h].token].replaced
    <2>1. CASE h = g
      BY <1>2, <2>1, GrantEnded
    <2>2. CASE h # g
      <3>1. grant'[h] = grant[h]
        BY <1>2, <2>2, GrantEnded
      <3>2. grant[h].at = "claimed" => grant[h].token \notin rows
        BY <1>2, <2>2 DEF LockedRows, Claimers
      <3> QED
        BY <1>3, <3>1, <3>2 DEF ChainInv, ClaimedFresh
    <2> QED
      BY <2>1, <2>2
  <1> QED
    BY <1>4, <1>5, <1>6 DEF ChainInv, ClaimedFresh

-----------------------------------------------------------------------------
LEMMA NextChain == ASSUME ChainInv, TokensNext PROVE ChainInv'
  <1>1. CASE TokenTick
    BY <1>1 DEF TokenTick, ChainInv, ChainTypes, Chained, ClaimedFresh
  <1>2. ASSUME NEW g \in Grants, FamilyExpiry(g) PROVE ChainInv'
    BY <1>2, GoneStep DEF FamilyExpiry
  <1>3. ASSUME NEW g \in Grants, FamilyUpdate(g) PROVE ChainInv'
    <2>1. DOMAIN tokens \in SUBSET Nat
      BY DEF ChainInv, ChainTypes
    <2> QED
      BY <1>3, <2>1, GoneStep DEF FamilyUpdate
  <1>4. ASSUME NEW g \in Grants, GrantAborts(g) PROVE ChainInv'
    BY <1>4, EndedStep DEF GrantAborts
  <1> QED
    BY <1>1, <1>2, <1>3, <1>4, SelectedStep, ClaimStep, RotateStep, RevokeStep DEF TokensNext

(* Refreshable are the tokens that are not revoked: the last at most. *)
LEMMA ChainSuffices == ASSUME ChainInv PROVE TokensFormAChain
  <1> DEFINE fresh == {t \in DOMAIN tokens : Refreshable(t)}
  <1>1. fresh = {} \/ fresh = {Len(tokens)}
    BY DEF ChainInv, Chained, Refreshable
  <1>2. Cardinality(fresh) = 0 \/ Cardinality(fresh) = 1
    BY <1>1, FS_EmptySet, FS_Singleton
  <1>3. Cardinality(fresh) <= 1
    BY <1>2
  <1> QED
    BY <1>3 DEF TokensFormAChain, ChainInv, Chained

(* However many requests refresh with one token at once, in transactions    *)
(* that wait for each other's rows, one of them gets the next token         *)
(* (rotateRefreshToken and revokeRefreshToken of oauth-repository.ts).      *)
THEOREM OneSuccessor == TokensSpec => []TokensFormAChain
  <1>1. ASSUME ChainInv, UNCHANGED tokenVars PROVE ChainInv'
    BY <1>1 DEF tokenVars, ChainInv, ChainTypes, Chained, ClaimedFresh
  <1>2. TokensSpec => []ChainInv
    BY InitChain, NextChain, <1>1, PTL DEF TokensSpec
  <1> QED
    BY <1>2, ChainSuffices, PTL

-----------------------------------------------------------------------------
(* RefreshTokens: the types of the state                                    *)

LEMMA GreatestValue ==
  ASSUME NEW n \in Nat, n # 0, NEW f, \A i \in 1..n : f[i] \in Nat
  PROVE  Max({f[i] : i \in 1..n}) \in Nat
  <1> DEFINE Most(k) == \E i \in 1..k : \A j \in 1..k : f[j] <= f[i]
             S == {k \in 0..n : k = 0 \/ Most(k)}
  <1>1. 0 \in S
    OBVIOUS
  <1>2. ASSUME NEW k \in 0..n - 1, k \in S PROVE k + 1 \in S
    <2>1. k + 1 \in 1..n /\ (\A j \in 1..k + 1 : j = k + 1 \/ j \in 1..k) /\ 1..k \subseteq 1..n
          /\ k + 1 \in 1..k + 1 /\ 1..k \subseteq 1..k + 1
      OBVIOUS
    <2>2. CASE k = 0
      <3>1. \A j \in 1..1 : j = 1
        OBVIOUS
      <3>2. f[1] <= f[1]
        BY <2>1, <2>2
      <3>3. Most(1)
        BY <3>1, <3>2
      <3> QED
        BY <2>1, <2>2, <3>3
    <2>3. CASE Most(k)
      <3>1. PICK i \in 1..k : \A j \in 1..k : f[j] <= f[i]
        BY <2>3
      <3>2. f[i] \in Nat /\ f[k + 1] \in Nat /\ \A j \in 1..k : f[j] \in Nat
        BY <2>1
      <3>3. CASE f[k + 1] <= f[i]
        <4>1. \A j \in 1..k + 1 : f[j] <= f[i]
          BY <2>1, <3>1, <3>3
        <4>2. Most(k + 1)
          BY <2>1, <4>1
        <4> QED
          BY <2>1, <4>2
      <3>4. CASE ~(f[k + 1] <= f[i])
        <4>1. \A j \in 1..k : f[j] <= f[k + 1]
          BY <3>1, <3>2, <3>4
        <4>2. f[k + 1] <= f[k + 1]
          BY <3>2
        <4>3. \A j \in 1..k + 1 : f[j] <= f[k + 1]
          BY <2>1, <4>1, <4>2
        <4>4. Most(k + 1)
          BY <2>1, <4>3
        <4> QED
          BY <2>1, <4>4
      <3> QED
        BY <3>3, <3>4
    <2> QED
      BY <1>2, <2>2, <2>3
  <1> HIDE DEF S
  <1>3. n \in S
    <2>1. 0..n \subseteq S
      BY <1>1, <1>2, UpTo
    <2> QED
      BY <2>1
  <1>4. PICK i \in 1..n : \A j \in 1..n : f[j] <= f[i]
    BY <1>3 DEF S
  <1> DEFINE V == {f[j] : j \in 1..n}
  <1>5. f[i] \in V /\ \A v \in V : f[i] >= v
    BY <1>4
  <1>6. V \subseteq Nat
    OBVIOUS
  <1> HIDE DEF V
  <1>7. Max(V) \in V
    BY <1>5 DEF Max
  <1> QED
    BY <1>6, <1>7 DEF V

TokenTypes ==
    /\ Len(tokens) \in 1..MaxTokens
    /\ familyUntil \in Nat
    /\ tokenNow \in 0..TokenTime
    /\ \A g \in Grants : grant[g].until \in Nat /\ grant[g].rows \subseteq 1..MaxTokens

TokenTypeInv == ChainInv /\ TokenTypes

LEMMA TokenTypesStated == ASSUME TokenTypeInv PROVE TokensTypeOK
  <1>1. PICK U : grant \in [Grants -> GrantIn(U)]
    BY DEF TokenTypeInv, ChainInv, ChainTypes
  <1> DEFINE Typed == [at : {"idle", "selected", "claimed", "reused", "expiry", "updating"},
                       token : Nat, now : Nat, until : Nat, rows : SUBSET (1..MaxTokens)]
  <1>2. ASSUME NEW g \in Grants PROVE grant[g] \in Typed
    <2>1. grant[g] \in GrantIn(U) /\ grant[g].until \in Nat /\ grant[g].rows \in SUBSET (1..MaxTokens)
      BY <1>1 DEF TokenTypeInv, TokenTypes
    <2> DEFINE All == SUBSET (1..MaxTokens)
               Some == SUBSET Nat
    <2>2. grant[g].rows \in All
      BY <2>1
    <2>3. grant[g] \in [at : {"idle", "selected", "claimed", "reused", "expiry", "updating"},
                        token : Nat, now : Nat, until : U, rows : Some]
      BY <2>1 DEF GrantIn
    <2> HIDE DEF All, Some
    <2>4. grant[g] \in [at : {"idle", "selected", "claimed", "reused", "expiry", "updating"},
                        token : Nat, now : Nat, until : Nat, rows : All]
      BY <2>1, <2>2, <2>3
    <2> QED
      BY <2>4 DEF All
  <1> HIDE DEF Typed
  <1>3. grant \in [Grants -> Typed]
    BY <1>1, <1>2
  <1>4. Len(tokens) <= MaxTokens
    BY RefreshTokensAssumption DEF TokenTypeInv, TokenTypes
  <1> QED
    BY <1>3, <1>4 DEF TokenTypeInv, ChainInv, ChainTypes, TokenTypes, TokensTypeOK, Token, Typed

LEMMA TokenTypesInit == ASSUME TokensInit PROVE TokenTypeInv
  <1>1. Len(tokens) = 1 /\ 1 \in 1..MaxTokens /\ 0 \in 0..TokenTime
    BY RefreshTokensAssumption DEF TokensInit
  <1>2. \A g \in Grants : grant[g].until = 0 /\ grant[g].rows = {}
    BY DEF TokensInit, NoGrant
  <1> QED
    BY <1>1, <1>2, InitChain DEF TokensInit, TokenTypeInv, TokenTypes

LEMMA GrantTypes ==
  ASSUME TokenTypeInv, NEW g \in Grants, NEW k, k.until \in Nat, k.rows \subseteq 1..MaxTokens,
         grant' = [grant EXCEPT ![g] = k]
  PROVE  \A h \in Grants : grant'[h].until \in Nat /\ grant'[h].rows \subseteq 1..MaxTokens
  <1>1. \A h \in Grants : grant'[h] = IF h = g THEN k ELSE grant[h]
    BY DEF TokenTypeInv, ChainInv, ChainTypes
  <1> QED
    BY <1>1 DEF TokenTypeInv, TokenTypes

LEMMA GrantGone ==
  ASSUME TokenTypeInv, NEW g \in Grants, GrantEnds(g)
  PROVE  \A h \in Grants : grant'[h].until \in Nat /\ grant'[h].rows \subseteq 1..MaxTokens
  <1>1. NoGrant.until \in Nat /\ NoGrant.rows \subseteq 1..MaxTokens
    BY DEF NoGrant
  <1> QED
    BY <1>1, GrantTypes DEF GrantEnds

LEMMA TokenTypesNext == ASSUME TokenTypeInv, [TokensNext]_tokenVars PROVE TokenTypeInv'
  <1>1. ChainInv'
    <2>1. CASE TokensNext
      BY <2>1, NextChain DEF TokenTypeInv
    <2>2. CASE UNCHANGED tokenVars
      BY <2>2 DEF tokenVars, TokenTypeInv, ChainInv, ChainTypes, Chained, ClaimedFresh
    <2> QED
      BY <2>1, <2>2
  <1>2. tokens \in Seq(Token) /\ TokenTypes /\ DOMAIN tokens = 1..Len(tokens)
        /\ Len(tokens) \in 1..MaxTokens /\ 1..Len(tokens) \subseteq 1..MaxTokens
        /\ MaxTokens \in Nat
    BY RefreshTokensAssumption DEF TokenTypeInv, ChainInv, ChainTypes, TokenTypes
  <1>3. CASE TokenTick
    <2>1. tokenNow' \in 0..TokenTime
      BY <1>2, <1>3, RefreshTokensAssumption DEF TokenTick, TokenTypes
    <2> QED
      BY <1>1, <1>2, <1>3, <2>1 DEF TokenTick, TokenTypeInv, TokenTypes
  <1>4. ASSUME NEW g \in Grants, UNCHANGED <<tokens, familyUntil, tokenNow>>,
               \A h \in Grants : grant'[h].until \in Nat /\ grant'[h].rows \subseteq 1..MaxTokens
        PROVE  TokenTypeInv'
    BY <1>1, <1>2, <1>4 DEF TokenTypeInv, TokenTypes
  <1>5. ASSUME NEW g \in Grants, NEW t \in DOMAIN tokens, SelectToken(g, t) \/ SelectToRevoke(g, t)
        PROVE  TokenTypeInv'
    <2>1. \E at : grant' = [grant EXCEPT ![g] = [NoGrant EXCEPT !.at = at, !.token = t, !.now = tokenNow]]
      BY <1>5 DEF SelectToken, SelectToRevoke
    <2>2. PICK at : grant' = [grant EXCEPT ![g] = [NoGrant EXCEPT !.at = at, !.token = t, !.now = tokenNow]]
      BY <2>1
    <2> DEFINE k == [NoGrant EXCEPT !.at = at, !.token = t, !.now = tokenNow]
    <2>3. k.until \in Nat /\ k.rows \subseteq 1..MaxTokens /\ grant' = [grant EXCEPT ![g] = k]
      BY <2>2 DEF NoGrant
    <2> HIDE DEF k
    <2>4. \A h \in Grants : grant'[h].until \in Nat /\ grant'[h].rows \subseteq 1..MaxTokens
      BY <2>3, GrantTypes
    <2>5. UNCHANGED <<tokens, familyUntil, tokenNow>>
      BY <1>5 DEF SelectToken, SelectToRevoke
    <2> QED
      BY <1>4, <2>4, <2>5
  <1>6. ASSUME NEW g \in Grants, NEW at, GrantGoes(g, at), UNCHANGED <<tokens, familyUntil, tokenNow>>
        PROVE  TokenTypeInv'
    <2> DEFINE k == [grant[g] EXCEPT !.at = at]
    <2>1. grant' = [grant EXCEPT ![g] = k]
      BY <1>6 DEF GrantGoes, TokenTypeInv, ChainInv, ChainTypes
    <2>2. k.until = grant[g].until /\ k.rows = grant[g].rows
      BY DEF TokenTypeInv, ChainInv, ChainTypes, GrantIn
    <2> HIDE DEF k
    <2> QED
      BY <1>2, <1>4, <1>6, <2>1, <2>2, GrantTypes DEF TokenTypes
  <1>7. ASSUME NEW g \in Grants, GrantEnds(g), UNCHANGED <<tokens, familyUntil, tokenNow>>
        PROVE  TokenTypeInv'
    BY <1>4, <1>7, GrantGone
  <1>8. ASSUME NEW g \in Grants, ClaimToken(g) PROVE TokenTypeInv'
    BY <1>6, <1>7, <1>8 DEF ClaimToken
  <1>9. ASSUME NEW g \in Grants, GrantAborts(g) PROVE TokenTypeInv'
    BY <1>7, <1>9 DEF GrantAborts
  <1>10. ASSUME NEW g \in Grants, RotateCommitted(g) PROVE TokenTypeInv'
    <2> DEFINE t == grant[g].token
               n == [expires |-> grant[g].now + TokenTtl, revoked |-> FALSE,
                     replaced |-> FALSE, previous |-> t]
               marked == [RevokeRows(DOMAIN tokens) EXCEPT ![t].replaced = TRUE]
    <2>1. /\ Len(tokens) < MaxTokens /\ tokens' = Append(marked, n) /\ GrantEnds(g)
          /\ UNCHANGED <<familyUntil, tokenNow>>
      BY <1>10 DEF RotateCommitted
    <2>2. DOMAIN marked = DOMAIN tokens
      BY DEF RevokeRows
    <2> HIDE DEF marked, n
    <2>3. tokens' \in Seq(Token)
      BY <1>1 DEF ChainInv, ChainTypes
    <2>4. Len(tokens') = Len(tokens) + 1
      <3>1. Len(marked) = Len(tokens)
        BY <1>2, <2>2
      <3> QED
        BY <1>2, <2>1, <3>1
    <2> QED
      BY <1>1, <1>2, <2>1, <2>4, GrantGone DEF TokenTypeInv, TokenTypes
  <1>11. ASSUME NEW g \in Grants, FamilyExpiry(g) PROVE TokenTypeInv'
    <2> DEFINE f == [i \in 1..Len(tokens) |-> tokens[i].expires]
               until == Max({tokens[i].expires : i \in DOMAIN tokens})
               k == [grant[g] EXCEPT !.at = "expiry", !.until = until]
    <2>1. \A i \in 1..Len(tokens) : tokens[i].expires \in Nat /\ f[i] = tokens[i].expires
      <3>1. \A i \in 1..Len(tokens) : tokens[i] \in Token
        BY <1>2
      <3>2. \A i \in 1..Len(tokens) : tokens[i].expires \in Nat
        BY <3>1 DEF Token
      <3> QED
        BY <3>2
    <2>2. {tokens[i].expires : i \in DOMAIN tokens} = {f[i] : i \in 1..Len(tokens)}
      BY <1>2, <2>1
    <2> HIDE DEF f
    <2>3. Max({f[i] : i \in 1..Len(tokens)}) \in Nat
      <3>1. Len(tokens) \in Nat /\ Len(tokens) # 0
        BY <1>2
      <3> QED
        BY <2>1, <3>1, GreatestValue
    <2>4. until \in Nat
      BY <2>2, <2>3
    <2>5. grant' = [grant EXCEPT ![g] = k]
      BY <1>11 DEF FamilyExpiry, TokenTypeInv, ChainInv, ChainTypes
    <2> HIDE DEF until
    <2>6. k.until = until /\ k.rows = grant[g].rows
      BY DEF TokenTypeInv, ChainInv, ChainTypes, GrantIn
    <2> HIDE DEF k
    <2> QED
      BY <1>2, <1>4, <1>11, <2>4, <2>5, <2>6, GrantTypes DEF TokenTypes, FamilyExpiry
  <1>12. ASSUME NEW g \in Grants, FamilyUpdate(g) PROVE TokenTypeInv'
    <2> DEFINE k == [grant[g] EXCEPT !.at = "updating", !.rows = DOMAIN tokens]
    <2>1. grant' = [grant EXCEPT ![g] = k]
      BY <1>12 DEF FamilyUpdate, TokenTypeInv, ChainInv, ChainTypes
    <2>2. k.until = grant[g].until /\ k.rows = DOMAIN tokens
      BY DEF TokenTypeInv, ChainInv, ChainTypes, GrantIn
    <2> HIDE DEF k
    <2> QED
      BY <1>2, <1>4, <1>12, <2>1, <2>2, GrantTypes DEF TokenTypes, FamilyUpdate
  <1>13. ASSUME NEW g \in Grants, RevokeCommitted(g) PROVE TokenTypeInv'
    <2>1. /\ tokens' = RevokeRows(grant[g].rows) /\ GrantEnds(g) /\ tokenNow' = tokenNow
          /\ familyUntil' = Max({familyUntil, grant[g].until})
      BY <1>13 DEF RevokeCommitted
    <2>2. Len(tokens') = Len(tokens)
      BY <1>2, <2>1, RowsRevoked
    <2>3. familyUntil \in Nat /\ grant[g].until \in Nat
      BY <1>2 DEF TokenTypes
    <2>4. \E x \in {familyUntil, grant[g].until} : \A y \in {familyUntil, grant[g].until} : x >= y
      BY <2>3
    <2>5. familyUntil' \in {familyUntil, grant[g].until}
      BY <2>1, <2>4 DEF Max
    <2> QED
      BY <1>1, <1>2, <2>1, <2>2, <2>3, <2>5, GrantGone DEF TokenTypeInv, TokenTypes
  <1>14. CASE UNCHANGED tokenVars
    BY <1>1, <1>2, <1>14 DEF tokenVars, TokenTypeInv, TokenTypes
  <1> QED
    BY <1>3, <1>5, <1>8, <1>9, <1>10, <1>11, <1>12, <1>13, <1>14 DEF TokensNext

-----------------------------------------------------------------------------
(* Presets *)

Locked == {"save", "delete"}

(* The lock: at most one editor has it, and it knows the row as it is. *)
LockInv ==
    \A e, f \in Editors :
        /\ editor[e].at \in Locked => editor[e].revision = preset.revision
        /\ editor[e].at \in Locked /\ editor[f].at \in Locked => e = f

(* An editor that knows the revision of the row knows its content. *)
ContentInv ==
    \A e \in Editors :
        /\ editor[e].revision <= preset.revision
        /\ (editor[e].at \in {"open", "save"} /\ editor[e].revision = preset.revision)
              => editor[e].content = preset.content

Numbered == preset.revision >= 1

PresetsInv == Numbered /\ PresetsTypeOK /\ LockInv /\ ContentInv /\ NoSaveIsLost

LEMMA PresetsInitInv == ASSUME PresetsInit PROVE PresetsInv
  <1>1. <<{}>> \in Seq(SUBSET (1..MaxChanges)) /\ Len(<<{}>>) = 1 /\ <<{}>>[1] = {}
    OBVIOUS
  <1>2. PresetsTypeOK
    BY <1>1 DEF PresetsInit, PresetsTypeOK, Closed
  <1>3. LockInv /\ ContentInv /\ Numbered
    BY DEF PresetsInit, Numbered, LockInv, ContentInv, Closed, Locked
  <1>4. NoSaveIsLost
    BY <1>1 DEF PresetsInit, NoSaveIsLost
  <1> QED
    BY <1>2, <1>3, <1>4 DEF PresetsInv

(* A commit appends to the versions what the row becomes.                   *)
LEMMA VersionAppended ==
  ASSUME PresetsTypeOK, NoSaveIsLost,
         NEW saved \in SUBSET (1..MaxChanges), preset.content \subseteq saved,
         NEW deleted \in BOOLEAN,
         preset' = [revision |-> preset.revision + 1, content |-> saved, deleted |-> deleted],
         versions' = Append(versions, saved)
  PROVE  NoSaveIsLost' /\ versions' \in Seq(SUBSET (1..MaxChanges))
  <1>1. versions \in Seq(SUBSET (1..MaxChanges)) /\ Len(versions) \in Nat
    BY DEF PresetsTypeOK
  <1>2. /\ versions' \in Seq(SUBSET (1..MaxChanges))
        /\ Len(versions') = Len(versions) + 1
        /\ versions'[Len(versions) + 1] = saved
        /\ \A i \in 1..Len(versions) : versions'[i] = versions[i]
    BY <1>1
  <1>3. preset'.revision = Len(versions') /\ preset'.content = versions'[Len(versions')]
    BY <1>2 DEF NoSaveIsLost
  <1>4. ASSUME NEW i \in 1..Len(versions') - 1
        PROVE  versions'[i] \subseteq versions'[i + 1]
    <2>1. CASE i = Len(versions)
      BY <2>1, <1>1, <1>2 DEF NoSaveIsLost
    <2>2. CASE i # Len(versions)
      BY <2>2, <1>1, <1>2 DEF NoSaveIsLost
    <2> QED
      BY <2>1, <2>2
  <1> QED
    BY <1>2, <1>3, <1>4 DEF NoSaveIsLost

(* Steps that change what the editors have only                            *)
LEMMA RowStays ==
  ASSUME NoSaveIsLost, UNCHANGED <<preset, versions>>
  PROVE  NoSaveIsLost'
  BY DEF NoSaveIsLost

LEMMA PresetsNextInv == ASSUME PresetsInv, [PresetsNext]_presetVars PROVE PresetsInv'
  <1> USE DEF PresetsInv
  <1> DEFINE Row == [at : {"closed", "open", "save", "delete"}, revision : Nat,
                     content : SUBSET (1..MaxChanges)]
  <1>0. Closed \in Row
    BY DEF Closed
  <1>1. ASSUME NEW e \in Editors, OpenPreset(e) PROVE PresetsInv'
    <2>1. [at |-> "open", revision |-> preset.revision, content |-> preset.content] \in Row
      BY DEF PresetsTypeOK
    <2>2. PresetsTypeOK'
      BY <1>1, <2>1 DEF OpenPreset, PresetsTypeOK
    <2>3. LockInv' /\ ContentInv' /\ Numbered'
      BY <1>1 DEF Numbered, OpenPreset, PresetsTypeOK, LockInv, ContentInv, Locked
    <2> QED
      BY <1>1, <2>2, <2>3, RowStays DEF OpenPreset
  <1>2. ASSUME NEW e \in Editors, LockForUpdate(e) PROVE PresetsInv'
    <2>0. ASSUME NEW call \in {"save", "delete"}
          PROVE  [editor[e] EXCEPT !.at = call] \in Row
      BY DEF PresetsTypeOK
    <2>1. PresetsTypeOK'
      <3>1. editor' \in [Editors -> Row] /\ UNCHANGED <<preset, versions>>
        <4>1. editor \in [Editors -> Row]
          BY DEF PresetsTypeOK
        <4>2. CASE ~preset.deleted /\ preset.revision = editor[e].revision
          BY <1>2, <2>0, <4>1, <4>2 DEF LockForUpdate
        <4>3. CASE ~(~preset.deleted /\ preset.revision = editor[e].revision)
          BY <1>2, <1>0, <4>1, <4>3 DEF LockForUpdate
        <4> QED
          BY <1>2, <4>2, <4>3 DEF LockForUpdate
      <3> QED
        BY <3>1 DEF PresetsTypeOK
    <2>2. LockInv' /\ ContentInv' /\ Numbered'
      BY <1>2 DEF Numbered, LockForUpdate, PresetsTypeOK, LockInv, ContentInv, Locked, Unlocked, Closed
    <2> QED
      BY <1>2, <2>1, <2>2, RowStays DEF LockForUpdate
  <1>3. ASSUME NEW e \in Editors, LockToDelete(e) PROVE PresetsInv'
    <2>1. PresetsTypeOK'
      BY <1>3 DEF LockToDelete, PresetsTypeOK
    <2>2. LockInv' /\ ContentInv' /\ Numbered'
      BY <1>3 DEF Numbered, LockToDelete, PresetsTypeOK, LockInv, ContentInv, Locked, Unlocked
    <2> QED
      BY <1>3, <2>1, <2>2, RowStays DEF LockToDelete
  <1>4. ASSUME NEW e \in Editors, SaveCommitted(e) PROVE PresetsInv'
    <2> DEFINE saved == editor[e].content \cup {preset.revision}
    <2>1. editor[e].revision = preset.revision /\ editor[e].content = preset.content
      BY <1>4 DEF SaveCommitted, LockInv, ContentInv, Locked
    <2>2. preset.revision \in 1..MaxChanges
      BY <1>4, PresetsAssumption DEF SaveCommitted, PresetsTypeOK, Numbered
    <2>3. saved \in SUBSET (1..MaxChanges) /\ preset.content \subseteq saved
      BY <2>1, <2>2 DEF PresetsTypeOK
    <2>4. preset' = [revision |-> preset.revision + 1, content |-> saved,
                     deleted |-> preset.deleted]
      BY <1>4 DEF SaveCommitted, PresetsTypeOK
    <2>5. versions' = Append(versions, saved) /\ editor' = [editor EXCEPT ![e] = Closed]
      BY <1>4 DEF SaveCommitted
    <2>6. preset.deleted \in BOOLEAN /\ preset.revision \in Nat
      BY DEF PresetsTypeOK
    <2>7. NoSaveIsLost' /\ versions' \in Seq(SUBSET (1..MaxChanges))
      BY <2>3, <2>4, <2>5, <2>6, VersionAppended
    <2>8. PresetsTypeOK'
      BY <1>0, <2>3, <2>4, <2>5, <2>6, <2>7 DEF PresetsTypeOK
    <2>9. LockInv' /\ ContentInv' /\ Numbered'
      BY <1>4, <2>4, <2>5, <2>6 DEF Numbered, SaveCommitted, PresetsTypeOK, LockInv, ContentInv, Locked, Closed
    <2> QED
      BY <2>7, <2>8, <2>9
  <1>5. ASSUME NEW e \in Editors, DeleteCommitted(e) PROVE PresetsInv'
    <2>1. preset' = [revision |-> preset.revision + 1, content |-> preset.content, deleted |-> TRUE]
      BY <1>5 DEF DeleteCommitted, PresetsTypeOK
    <2>2. versions' = Append(versions, preset.content) /\ editor' = [editor EXCEPT ![e] = Closed]
      BY <1>5 DEF DeleteCommitted
    <2>3. preset.content \in SUBSET (1..MaxChanges) /\ preset.revision \in Nat
      BY DEF PresetsTypeOK
    <2>4. NoSaveIsLost' /\ versions' \in Seq(SUBSET (1..MaxChanges))
      BY <2>1, <2>2, <2>3, VersionAppended
    <2>5. PresetsTypeOK'
      BY <1>0, <2>1, <2>2, <2>3, <2>4 DEF PresetsTypeOK
    <2>6. LockInv' /\ ContentInv' /\ Numbered'
      BY <1>5, <2>1, <2>2, <2>3 DEF Numbered, DeleteCommitted, PresetsTypeOK, LockInv, ContentInv, Locked, Closed
    <2> QED
      BY <2>4, <2>5, <2>6
  <1>6. ASSUME NEW e \in Editors, PresetAborts(e) PROVE PresetsInv'
    <2>1. PresetsTypeOK'
      BY <1>0, <1>6 DEF PresetAborts, PresetsTypeOK
    <2>2. LockInv' /\ ContentInv' /\ Numbered'
      BY <1>6 DEF Numbered, PresetAborts, PresetsTypeOK, LockInv, ContentInv, Locked, Closed
    <2> QED
      BY <1>6, <2>1, <2>2, RowStays DEF PresetAborts
  <1>7. CASE UNCHANGED presetVars
    BY <1>7 DEF Numbered, presetVars, PresetsTypeOK, LockInv, ContentInv, NoSaveIsLost
  <1> QED
    BY <1>1, <1>2, <1>3, <1>4, <1>5, <1>6, <1>7 DEF PresetsNext

(* The versions of a preset hold every change that was saved: an update is  *)
(* accepted only from an editor that knows the row it replaces.             *)
THEOREM SavesAreKept == PresetsSpec => []NoSaveIsLost
  <1>1. PresetsInit => PresetsInv
    BY PresetsInitInv
  <1>2. PresetsInv /\ [PresetsNext]_presetVars => PresetsInv'
    BY PresetsNextInv
  <1>3. PresetsInv => NoSaveIsLost
    BY DEF PresetsInv
  <1> QED
    BY <1>1, <1>2, <1>3, PTL DEF PresetsSpec

-----------------------------------------------------------------------------
(* Shutdown *)

(* No request whose client is still there *)
Quiet == \A r \in Requests : request[r] \in {"none", "cut", "done"}

(* What the stages mean: requests pass the gate and streams are tracked     *)
(* while the server is up only; after an unforced drain no client waits;    *)
(* the store is closed once the services have settled.                      *)
StageInv ==
    /\ stage # "up" => \A r \in Requests : request[r] # "stream"
    /\ (stage \notin {"up", "drain"} /\ ~forced) => Quiet
    /\ stage = "drained" => StartSettled
    /\ database = "closed" => stage \in {"stopped", "exited"} /\ StartSettled

ShutdownInv == ShutdownTypeOK /\ StageInv

LEMMA ShutdownInitInv == ASSUME ShutdownInit PROVE ShutdownInv
  BY DEF ShutdownInit, ShutdownInv, ShutdownTypeOK, StageInv

(* A request that moves without becoming a stream disturbs nothing, unless  *)
(* all was quiet; one that begins or becomes a stream does so while the     *)
(* server is up.                                                            *)
LEMMA RequestMoves ==
  ASSUME ShutdownInv, NEW r \in Requests, NEW to \in {"handled", "stream", "cut", "done"},
         RequestGoes(r, to), stage = "up" \/ to \in {"cut", "done"}
  PROVE  ShutdownInv'
  <1>1. ShutdownTypeOK'
    BY DEF ShutdownInv, RequestGoes, ShutdownTypeOK
  <1>2. StageInv'
    <2>1. stage # "up" => \A q \in Requests : request'[q] # "stream"
      BY DEF ShutdownInv, RequestGoes, ShutdownTypeOK, StageInv
    <2>2. (stage \notin {"up", "drain"} /\ ~forced) => Quiet'
      BY DEF ShutdownInv, RequestGoes, ShutdownTypeOK, StageInv, Quiet
    <2>3. StartSettled' <=> StartSettled
      BY DEF RequestGoes, StartSettled
    <2> QED
      BY <2>1, <2>2, <2>3 DEF ShutdownInv, RequestGoes, StageInv
  <1> QED
    BY <1>1, <1>2 DEF ShutdownInv

LEMMA ShutdownNextInv == ASSUME ShutdownInv, [ShutdownNext]_shutdownVars PROVE ShutdownInv'
  <1>1. ASSUME NEW r \in Requests, Arrives(r) PROVE ShutdownInv'
    BY <1>1, RequestMoves DEF Arrives
  <1>2. ASSUME NEW r \in Requests, Track(r) PROVE ShutdownInv'
    <2>1. CASE stage = "up" /\ Cardinality(Streams) < MaxStreams
      BY <1>2, <2>1, RequestMoves DEF Track
    <2>2. CASE ~(stage = "up" /\ Cardinality(Streams) < MaxStreams)
      BY <1>2, <2>2, RequestMoves DEF Track
    <2> QED
      BY <2>1, <2>2
  <1>3. ASSUME NEW r \in Requests, RequestEnds(r) PROVE ShutdownInv'
    BY <1>3, RequestMoves DEF RequestEnds
  <1>4. ASSUME NEW r \in Requests, ClientGone(r) PROVE ShutdownInv'
    BY <1>4, RequestMoves DEF ClientGone
  <1>5. CASE ShutdownBegins
    BY <1>5 DEF ShutdownBegins, ShutdownInv, ShutdownTypeOK, StageInv
  <1>6. ASSUME NEW s \in Services, ServiceSettles(s) PROVE ShutdownInv'
    <2>1. StartSettled => StartSettled'
      BY <1>6 DEF ServiceSettles, StartSettled, ShutdownInv, ShutdownTypeOK
    <2>2. ShutdownTypeOK'
      BY <1>6 DEF ServiceSettles, ShutdownInv, ShutdownTypeOK
    <2>3. StageInv'
      BY <1>6, <2>1 DEF ServiceSettles, ShutdownInv, StageInv, Quiet
    <2> QED
      BY <2>2, <2>3 DEF ShutdownInv
  <1>7. CASE Drained
    <2>1. /\ stage = "drain" /\ stage' = "finalize" /\ request' = request /\ service' = service
          /\ forced' = forced /\ database' = database
          /\ \A r \in Requests : request[r] \notin {"handled", "stream"}
      BY <1>7 DEF Drained
    <2>2. request \in [Requests -> {"none", "handled", "stream", "cut", "done"}]
      BY DEF ShutdownInv, ShutdownTypeOK
    <2>3. Quiet'
      BY <2>1, <2>2 DEF Quiet
    <2>4. ShutdownTypeOK'
      BY <2>1 DEF ShutdownInv, ShutdownTypeOK
    <2>5. StageInv'
      BY <2>1, <2>3 DEF ShutdownInv, StageInv
    <2> QED
      BY <2>4, <2>5 DEF ShutdownInv
  <1>8. CASE DrainDeadline
    BY <1>8 DEF DrainDeadline, ShutdownInv, ShutdownTypeOK, StageInv, StartSettled
  <1>9. CASE Finalize
    BY <1>9 DEF Finalize, ShutdownInv, ShutdownTypeOK, StageInv, Quiet, StartSettled
  <1>10. CASE StoreClosed
    BY <1>10 DEF StoreClosed, ShutdownInv, ShutdownTypeOK, StageInv, Quiet, StartSettled
  <1>11. CASE Exit
    BY <1>11 DEF Exit, ShutdownInv, ShutdownTypeOK, StageInv, Quiet, StartSettled
  <1>12. CASE UNCHANGED shutdownVars
    BY <1>12 DEF shutdownVars, ShutdownInv, ShutdownTypeOK, StageInv, Quiet, StartSettled
  <1> QED
    BY <1>1, <1>2, <1>3, <1>4, <1>5, <1>6, <1>7, <1>8, <1>9, <1>10, <1>11, <1>12 DEF ShutdownNext

LEMMA StagesInOrder == ShutdownInv => StopsInOrder
  <1> SUFFICES ASSUME ShutdownInv PROVE StopsInOrder
    OBVIOUS
  <1>1. stage # "up" => Streams = {}
    BY DEF ShutdownInv, StageInv, Streams
  <1>2. database = "closed" =>
          /\ \A s \in Services : service[s] = "settled"
          /\ ~forced => \A r \in Requests : request[r] \in {"none", "cut", "done"}
    BY DEF ShutdownInv, StageInv, StartSettled, Quiet
  <1> QED
    BY <1>1, <1>2 DEF StopsInOrder

(* The database is never closed under a service nor, unless the drain was   *)
(* forced, under a request whose client is still there; and no stream       *)
(* outlives the closing of streams.                                         *)
THEOREM ServerStopsInOrder == ShutdownSpec => []StopsInOrder
  BY ShutdownInitInv, ShutdownNextInv, StagesInOrder, PTL DEF ShutdownSpec

-----------------------------------------------------------------------------
(***************************************************************************)
(* SimulationSessions: the live feed belongs to live sessions, and close   *)
(* leaves no session, for any set of runs and wherever an await is         *)
(* overtaken.                                                              *)
(***************************************************************************)
Busy(r) == start[r] # "none" \/ active[r]

(* What holds of a run whatever the others do: it has a session only after  *)
(* its start, which happens once; the session that is finalized is not live *)
(* and holds no subscription; and close goes on only when what it waits for *)
(* is over.                                                                 *)
RunInv(r) ==
    /\ feed[r] # {} => phase[r] \in Live /\ feed[r] \subseteq release[r]
    /\ start[r] # "none" \/ status[r] = "none" =>
         phase[r] = "none" /\ final[r] = "none" /\ feed[r] = {} /\ ~active[r]
    /\ start[r] \in {"mark", "event", "failing"} => status[r] # "none"
    /\ final[r] # "none" => phase[r] \notin Live /\ feed[r] = {} /\ intent[r] \in Over
    /\ active[r] => final[r] # "done" /\ (final[r] = "none" => phase[r] \in Live)
    /\ ~active[r] => final[r] \in {"none", "done"} /\ phase[r] \notin Live
    /\ closing \notin {"open", "starts"} => start[r] = "none"
    /\ closing = "sessions" => ~active[r] \/ final[r] # "none"
    /\ closing \in {"progress", "closed"} => ~active[r]

(* The owner has one start or session. *)
OneBusy == \A r, s \in Runs : Busy(r) /\ Busy(s) => r = s

(* The types of what a session is made of *)
SessionTypes ==
    /\ status \in [Runs -> {"none"} \cup Active \cup Over]
    /\ start \in [Runs -> {"none", "create", "mark", "event", "failing"}]
    /\ active \in [Runs -> BOOLEAN]
    /\ phase \in [Runs -> {"none", "finalizing"} \cup Live \cup Over]
    /\ feed \in [Runs -> SUBSET {"candidates", "selected"}]
    /\ release \in [Runs -> SUBSET {"candidates", "selected"}]
    /\ final \in [Runs -> {"none", "ask", "persist", "write", "recheck", "salvage", "close", "done"}]
    /\ intent \in [Runs -> {"none"} \cup Over]

SessionInv == SessionTypes /\ OneBusy /\ \A r \in Runs : RunInv(r)

(* The state of a run that RunInv speaks of *)
RunState(r) ==
    <<status[r], start[r], active[r], phase[r], feed[r], release[r], final[r], intent[r]>>

sessionState == <<status, start, active, phase, feed, release, final, intent, closing>>

-----------------------------------------------------------------------------
LEMMA InitInv == ASSUME SimulationInit PROVE SessionInv
  BY DEF SimulationInit, SourceInit, SessionInv, SessionTypes, OneBusy, Busy, RunInv,
         Active, Over, Live

(* Steps that leave all of it alone *)
LEMMA Inert == ASSUME SessionInv, UNCHANGED sessionState PROVE SessionInv'
  BY DEF sessionState, SessionInv, SessionTypes, OneBusy, Busy, RunInv

LEMMA InertSteps ==
  ASSUME NEW r \in Runs,
         \/ Scanned(r) \/ Selected(r) \/ TimersArmed(r) \/ ProgressTimer(r)
         \/ ProgressEnds(r) \/ CancelCalled(r) \/ CancelReturns(r)
  PROVE  UNCHANGED sessionState
  BY DEF sessionState, Scanned, Selected, InitGoes, TimersArmed,
         ProgressTimer, ProgressEnds, CancelCalled, CancelReturns,
         sessionVars, sourceVars

-----------------------------------------------------------------------------
LEMMA TypeNext ==
  ASSUME SessionInv, SimulationNext, ~ UNCHANGED sessionState PROVE SessionTypes'
  <1> USE DEF SessionTypes, Active, Over, Live, sessionVars, sourceVars
  <1>0. SessionTypes
    BY DEF SessionInv
  <1>1. ASSUME NEW r \in Runs, StartRun(r) PROVE SessionTypes'
    BY <1>0, <1>1 DEF StartRun
  <1>2. ASSUME NEW r \in Runs, CreateRun(r) PROVE SessionTypes'
    BY <1>0, <1>2 DEF CreateRun
  <1>3. ASSUME NEW r \in Runs, MarkRunning(r) PROVE SessionTypes'
    BY <1>0, <1>3 DEF MarkRunning
  <1>4. ASSUME NEW r \in Runs, SessionCreated(r) PROVE SessionTypes'
    BY <1>0, <1>4 DEF SessionCreated
  <1>5. ASSUME NEW r \in Runs, StartFails(r) PROVE SessionTypes'
    BY <1>0, <1>5 DEF StartFails, Ended, Announced
  <1>6. ASSUME NEW r \in Runs, CandidatesRetained(r) PROVE SessionTypes'
    BY <1>0, <1>6 DEF CandidatesRetained, InitGoes
  <1>7. ASSUME NEW r \in Runs, SelectedRetained(r) PROVE SessionTypes'
    BY <1>0, <1>7 DEF SelectedRetained, InitGoes
  <1>8. ASSUME NEW r \in Runs, Prepared(r) PROVE SessionTypes'
    BY <1>0, <1>8 DEF Prepared, InitGoes
  <1>9. ASSUME NEW r \in Runs, InitFails(r) PROVE SessionTypes'
    BY <1>0, <1>9 DEF InitFails, Finish, BeginFinalization, NoFinalization
  <1>10. ASSUME NEW r \in Runs, EndTimer(r) PROVE SessionTypes'
    BY <1>0, <1>10 DEF EndTimer, Finish, BeginFinalization, NoFinalization
  <1>11. ASSUME NEW r \in Runs, ProgressAsked(r) PROVE SessionTypes'
    BY <1>0, <1>11 DEF ProgressAsked, Finish, BeginFinalization,
           NoFinalization
  <1>12. ASSUME NEW r \in Runs, CancellationAsked(r) PROVE SessionTypes'
    BY <1>0, <1>12 DEF CancellationAsked, FinalGoes
  <1>13. ASSUME NEW r \in Runs, ArtifactsPersisted(r) PROVE SessionTypes'
    BY <1>0, <1>13 DEF ArtifactsPersisted, FinalGoes
  <1>14. ASSUME NEW r \in Runs, EndWritten(r) PROVE SessionTypes'
    BY <1>0, <1>14 DEF EndWritten, FinalGoes, Ended, Announced
  <1>15. ASSUME NEW r \in Runs, EndRechecked(r) PROVE SessionTypes'
    BY <1>0, <1>15 DEF EndRechecked, FinalGoes, Announced
  <1>16. ASSUME NEW r \in Runs, Salvaged(r) PROVE SessionTypes'
    BY <1>0, <1>16 DEF Salvaged, FinalGoes, Ended, Announced
  <1>17. ASSUME NEW r \in Runs, SessionRemoved(r) PROVE SessionTypes'
    BY <1>0, <1>17 DEF SessionRemoved, FinalGoes
  <1>18. ASSUME NEW r \in Runs, CancelRequested(r) PROVE SessionTypes'
    BY <1>0, <1>18 DEF CancelRequested
  <1>19. ASSUME NEW r \in Runs, CancelActs(r) PROVE SessionTypes'
    BY <1>0, <1>19 DEF CancelActs, Finish, BeginFinalization, NoFinalization,
           Ended
  <1>20. CASE CloseCalled
    BY <1>0, <1>20 DEF CloseCalled
  <1>21. CASE StartsSettled
    BY <1>0, <1>21 DEF StartsSettled, Finish, BeginFinalization,
           NoFinalization
  <1>22. CASE SessionsFinished
    BY <1>0, <1>22 DEF SessionsFinished
  <1>23. CASE ProgressSettled
    BY <1>0, <1>23 DEF ProgressSettled
  <1>24. CASE ServerRestart
    BY <1>0, <1>24 DEF ServerRestart, SourceRestart
  <1> QED
    BY <1>1, <1>2, <1>3, <1>4, <1>5, <1>6, <1>7, <1>8, <1>9, <1>10, <1>11,
       <1>12, <1>13, <1>14, <1>15, <1>16, <1>17, <1>18, <1>19, <1>20, <1>21,
       <1>22, <1>23, <1>24, InertSteps DEF SimulationNext, StartStep,
           InitStep, TimerStep, FinalStep, CancelStep, CloseStep

(* A step of one run *)
LEMMA RunStep ==
  ASSUME SessionInv, SessionTypes', NEW r \in Runs,
         \A q \in Runs \ {r} : RunState(q)' = RunState(q),
         closing' = closing, Busy(r)' => Busy(r), RunInv(r)'
  PROVE  SessionInv'
  BY DEF SessionInv, OneBusy, Busy, RunInv, RunState

-----------------------------------------------------------------------------
LEMMA RunSteps ==
  ASSUME SessionInv, SessionTypes', NEW r \in Runs,
         \/ CreateRun(r) \/ MarkRunning(r) \/ SessionCreated(r)
         \/ StartFails(r) \/ CandidatesRetained(r) \/ SelectedRetained(r)
         \/ Prepared(r) \/ InitFails(r) \/ EndTimer(r) \/ ProgressAsked(r)
         \/ CancellationAsked(r) \/ ArtifactsPersisted(r) \/ EndWritten(r)
         \/ EndRechecked(r) \/ Salvaged(r) \/ SessionRemoved(r)
         \/ CancelRequested(r) \/ CancelActs(r)
  PROVE  SessionInv'
  <1> USE DEF SessionTypes, Active, Over, Live, Open, sessionVars, sourceVars
  <1>0. SessionTypes /\ RunInv(r)
    BY DEF SessionInv
  <1>1. CASE CreateRun(r)
    <2>1. \A q \in Runs \ {r} : RunState(q)' = RunState(q)
      BY <1>0, <1>1 DEF CreateRun, RunState
    <2>2. closing' = closing /\ (Busy(r)' => Busy(r))
      BY <1>0, <1>1 DEF CreateRun, Busy, RunInv
    <2>3. RunInv(r)'
      BY <1>0, <1>1 DEF CreateRun, RunInv
    <2> QED
      BY <2>1, <2>2, <2>3, RunStep
  <1>2. CASE MarkRunning(r)
    <2>1. \A q \in Runs \ {r} : RunState(q)' = RunState(q)
      BY <1>0, <1>2 DEF MarkRunning, RunState
    <2>2. closing' = closing /\ (Busy(r)' => Busy(r))
      BY <1>0, <1>2 DEF MarkRunning, Busy, RunInv
    <2>3. RunInv(r)'
      BY <1>0, <1>2 DEF MarkRunning, RunInv
    <2> QED
      BY <2>1, <2>2, <2>3, RunStep
  <1>3. CASE SessionCreated(r)
    <2>1. \A q \in Runs \ {r} : RunState(q)' = RunState(q)
      BY <1>0, <1>3 DEF SessionCreated, RunState
    <2>2. closing' = closing /\ (Busy(r)' => Busy(r))
      BY <1>0, <1>3 DEF SessionCreated, Busy, RunInv
    <2>3. RunInv(r)'
      BY <1>0, <1>3 DEF SessionCreated, RunInv
    <2> QED
      BY <2>1, <2>2, <2>3, RunStep
  <1>4. CASE StartFails(r)
    <2>1. \A q \in Runs \ {r} : RunState(q)' = RunState(q)
      BY <1>0, <1>4 DEF StartFails, Ended, Announced, RunState
    <2>2. closing' = closing /\ (Busy(r)' => Busy(r))
      BY <1>0, <1>4 DEF StartFails, Ended, Announced, Busy, RunInv
    <2>3. RunInv(r)'
      BY <1>0, <1>4 DEF StartFails, Ended, Announced, RunInv
    <2> QED
      BY <2>1, <2>2, <2>3, RunStep
  <1>5. CASE CandidatesRetained(r)
    <2>1. \A q \in Runs \ {r} : RunState(q)' = RunState(q)
      BY <1>0, <1>5 DEF CandidatesRetained, InitGoes, RunState
    <2>2. closing' = closing /\ (Busy(r)' => Busy(r))
      BY <1>0, <1>5 DEF CandidatesRetained, InitGoes, Busy, RunInv
    <2>3. RunInv(r)'
      BY <1>0, <1>5 DEF CandidatesRetained, InitGoes, RunInv
    <2> QED
      BY <2>1, <2>2, <2>3, RunStep
  <1>6. CASE SelectedRetained(r)
    <2>1. \A q \in Runs \ {r} : RunState(q)' = RunState(q)
      BY <1>0, <1>6 DEF SelectedRetained, InitGoes, RunState
    <2>2. closing' = closing /\ (Busy(r)' => Busy(r))
      BY <1>0, <1>6 DEF SelectedRetained, InitGoes, Busy, RunInv
    <2>3. RunInv(r)'
      BY <1>0, <1>6 DEF SelectedRetained, InitGoes, RunInv
    <2> QED
      BY <2>1, <2>2, <2>3, RunStep
  <1>7. CASE Prepared(r)
    <2>1. \A q \in Runs \ {r} : RunState(q)' = RunState(q)
      BY <1>0, <1>7 DEF Prepared, InitGoes, RunState
    <2>2. closing' = closing /\ (Busy(r)' => Busy(r))
      BY <1>0, <1>7 DEF Prepared, InitGoes, Busy, RunInv
    <2>3. RunInv(r)'
      BY <1>0, <1>7 DEF Prepared, InitGoes, RunInv
    <2> QED
      BY <2>1, <2>2, <2>3, RunStep
  <1>8. CASE InitFails(r)
    <2>1. \A q \in Runs \ {r} : RunState(q)' = RunState(q)
      BY <1>0, <1>8 DEF InitFails, Finish, BeginFinalization, NoFinalization,
             RunState
    <2>2. closing' = closing /\ (Busy(r)' => Busy(r))
      BY <1>0, <1>8 DEF InitFails, Finish, BeginFinalization, NoFinalization,
             Busy, RunInv
    <2>3. RunInv(r)'
      BY <1>0, <1>8 DEF InitFails, Finish, BeginFinalization, NoFinalization,
             RunInv
    <2> QED
      BY <2>1, <2>2, <2>3, RunStep
  <1>9. CASE EndTimer(r)
    <2>1. \A q \in Runs \ {r} : RunState(q)' = RunState(q)
      BY <1>0, <1>9 DEF EndTimer, Finish, BeginFinalization, NoFinalization,
             RunState
    <2>2. closing' = closing /\ (Busy(r)' => Busy(r))
      BY <1>0, <1>9 DEF EndTimer, Finish, BeginFinalization, NoFinalization,
             Busy, RunInv
    <2>3. RunInv(r)'
      BY <1>0, <1>9 DEF EndTimer, Finish, BeginFinalization, NoFinalization,
             RunInv
    <2> QED
      BY <2>1, <2>2, <2>3, RunStep
  <1>10. CASE ProgressAsked(r)
    <2>1. \A q \in Runs \ {r} : RunState(q)' = RunState(q)
      BY <1>0, <1>10 DEF ProgressAsked, Finish, BeginFinalization,
             NoFinalization, RunState
    <2>2. closing' = closing /\ (Busy(r)' => Busy(r))
      BY <1>0, <1>10 DEF ProgressAsked, Finish, BeginFinalization,
             NoFinalization, Busy, RunInv
    <2>3. RunInv(r)'
      BY <1>0, <1>10 DEF ProgressAsked, Finish, BeginFinalization,
             NoFinalization, RunInv
    <2> QED
      BY <2>1, <2>2, <2>3, RunStep
  <1>11. CASE CancellationAsked(r)
    <2>1. \A q \in Runs \ {r} : RunState(q)' = RunState(q)
      BY <1>0, <1>11 DEF CancellationAsked, FinalGoes, RunState
    <2>2. closing' = closing /\ (Busy(r)' => Busy(r))
      BY <1>0, <1>11 DEF CancellationAsked, FinalGoes, Busy, RunInv
    <2>3. RunInv(r)'
      BY <1>0, <1>11 DEF CancellationAsked, FinalGoes, RunInv
    <2> QED
      BY <2>1, <2>2, <2>3, RunStep
  <1>12. CASE ArtifactsPersisted(r)
    <2>1. \A q \in Runs \ {r} : RunState(q)' = RunState(q)
      BY <1>0, <1>12 DEF ArtifactsPersisted, FinalGoes, RunState
    <2>2. closing' = closing /\ (Busy(r)' => Busy(r))
      BY <1>0, <1>12 DEF ArtifactsPersisted, FinalGoes, Busy, RunInv
    <2>3. RunInv(r)'
      BY <1>0, <1>12 DEF ArtifactsPersisted, FinalGoes, RunInv
    <2> QED
      BY <2>1, <2>2, <2>3, RunStep
  <1>13. CASE EndWritten(r)
    <2>1. \A q \in Runs \ {r} : RunState(q)' = RunState(q)
      BY <1>0, <1>13 DEF EndWritten, FinalGoes, Ended, Announced, RunState
    <2>2. closing' = closing /\ (Busy(r)' => Busy(r))
      BY <1>0, <1>13 DEF EndWritten, FinalGoes, Ended, Announced, Busy, RunInv
    <2>3. RunInv(r)'
      BY <1>0, <1>13 DEF EndWritten, FinalGoes, Ended, Announced, RunInv
    <2> QED
      BY <2>1, <2>2, <2>3, RunStep
  <1>14. CASE EndRechecked(r)
    <2>1. \A q \in Runs \ {r} : RunState(q)' = RunState(q)
      BY <1>0, <1>14 DEF EndRechecked, FinalGoes, Announced, RunState
    <2>2. closing' = closing /\ (Busy(r)' => Busy(r))
      BY <1>0, <1>14 DEF EndRechecked, FinalGoes, Announced, Busy, RunInv
    <2>3. RunInv(r)'
      BY <1>0, <1>14 DEF EndRechecked, FinalGoes, Announced, RunInv
    <2> QED
      BY <2>1, <2>2, <2>3, RunStep
  <1>15. CASE Salvaged(r)
    <2>1. \A q \in Runs \ {r} : RunState(q)' = RunState(q)
      BY <1>0, <1>15 DEF Salvaged, FinalGoes, Ended, Announced, RunState
    <2>2. closing' = closing /\ (Busy(r)' => Busy(r))
      BY <1>0, <1>15 DEF Salvaged, FinalGoes, Ended, Announced, Busy, RunInv
    <2>3. RunInv(r)'
      BY <1>0, <1>15 DEF Salvaged, FinalGoes, Ended, Announced, RunInv
    <2> QED
      BY <2>1, <2>2, <2>3, RunStep
  <1>16. CASE SessionRemoved(r)
    <2>1. \A q \in Runs \ {r} : RunState(q)' = RunState(q)
      BY <1>0, <1>16 DEF SessionRemoved, FinalGoes, RunState
    <2>2. closing' = closing /\ (Busy(r)' => Busy(r))
      BY <1>0, <1>16 DEF SessionRemoved, FinalGoes, Busy, RunInv
    <2>3. RunInv(r)'
      BY <1>0, <1>16 DEF SessionRemoved, FinalGoes, RunInv
    <2> QED
      BY <2>1, <2>2, <2>3, RunStep
  <1>17. CASE CancelRequested(r)
    <2>1. \A q \in Runs \ {r} : RunState(q)' = RunState(q)
      BY <1>0, <1>17 DEF CancelRequested, RunState
    <2>2. closing' = closing /\ (Busy(r)' => Busy(r))
      BY <1>0, <1>17 DEF CancelRequested, Busy, RunInv
    <2>3. RunInv(r)'
      BY <1>0, <1>17 DEF CancelRequested, RunInv
    <2> QED
      BY <2>1, <2>2, <2>3, RunStep
  <1>18. CASE CancelActs(r)
    <2>1. \A q \in Runs \ {r} : RunState(q)' = RunState(q)
      BY <1>0, <1>18 DEF CancelActs, Finish, BeginFinalization,
             NoFinalization, Ended, RunState
    <2>2. closing' = closing /\ (Busy(r)' => Busy(r))
      BY <1>0, <1>18 DEF CancelActs, Finish, BeginFinalization,
             NoFinalization, Ended, Busy, RunInv
    <2>3. RunInv(r)'
      BY <1>0, <1>18 DEF CancelActs, Finish, BeginFinalization,
             NoFinalization, Ended, RunInv
    <2> QED
      BY <2>1, <2>2, <2>3, RunStep
  <1> QED
    BY <1>1, <1>2, <1>3, <1>4, <1>5, <1>6, <1>7, <1>8, <1>9, <1>10, <1>11,
       <1>12, <1>13, <1>14, <1>15, <1>16, <1>17, <1>18

LEMMA StartStepInv ==
  ASSUME SessionInv, SessionTypes', NEW r \in Runs, StartRun(r) PROVE SessionInv'
  <1>1. UNCHANGED <<status, active, phase, feed, release, final, intent, closing>>
    BY DEF StartRun, sourceVars, sessionVars
  <1>2. closing = "open" /\ \A q \in Runs : ~Busy(q) /\ (q # r => start'[q] = start[q])
    BY DEF StartRun, Busy, SessionInv, SessionTypes
  <1>3. OneBusy'
    BY <1>1, <1>2 DEF OneBusy, Busy
  <1>4. ASSUME NEW q \in Runs PROVE RunInv(q)'
    <2>1. CASE q = r
      <3>1. status[r] = "none" /\ start'[r] = "create"
        BY DEF StartRun, SessionInv, SessionTypes
      <3> QED
        BY <1>1, <1>2, <2>1, <3>1 DEF SessionInv, RunInv
    <2>2. CASE q # r
      BY <1>1, <1>2, <2>2 DEF SessionInv, RunInv
    <2> QED
      BY <2>1, <2>2
  <1> QED
    BY <1>3, <1>4 DEF SessionInv

LEMMA CloseCalledInv ==
  ASSUME SessionInv, SessionTypes', CloseCalled PROVE SessionInv'
  BY DEF CloseCalled, SessionInv, OneBusy, Busy, RunInv, sessionVars, sourceVars

(* One session at most is finished here: the owner has one. *)
LEMMA StartsSettledInv ==
  ASSUME SessionInv, SessionTypes', StartsSettled PROVE SessionInv'
  <1>1. closing = "starts" /\ closing' = "sessions" /\ UNCHANGED <<status, start>>
        /\ \A q \in Runs : start[q] = "none"
    BY DEF StartsSettled, sourceVars
  <1>2. active' = active
    BY DEF StartsSettled, Finish, BeginFinalization, NoFinalization, sessionVars
  <1>3. OneBusy'
    BY <1>1, <1>2 DEF SessionInv, OneBusy, Busy
  <1>4. CASE \E r \in Runs : active[r]
    <2>1. PICK r \in Runs : active[r] /\ Finish(r, "cancelled")
      BY <1>4 DEF StartsSettled
    <2>2. ASSUME NEW q \in Runs, q # r PROVE RunInv(q)'
      <3>1. ~active[q]
        BY <2>1, <2>2 DEF SessionInv, OneBusy, Busy
      <3>2. RunState(q)' = RunState(q)
        BY <1>1, <2>1, <2>2 DEF Finish, BeginFinalization, NoFinalization, RunState,
           SessionInv, SessionTypes, sessionVars
      <3> QED
        BY <1>1, <3>1, <3>2 DEF SessionInv, RunInv, RunState
    <2>3. RunInv(r)'
      <3>1. RunInv(r) /\ SessionTypes
        BY DEF SessionInv
      <3> QED
        BY <1>1, <2>1, <3>1 DEF Finish, BeginFinalization, NoFinalization, RunInv, SessionTypes,
           Live, Over, sessionVars
    <2> QED
      BY <1>3, <2>2, <2>3 DEF SessionInv
  <1>5. CASE \A r \in Runs : ~active[r]
    <2>1. UNCHANGED <<phase, feed, release, final, intent>>
      BY <1>5 DEF StartsSettled, NoFinalization, sessionVars
    <2> QED
      BY <1>1, <1>2, <1>3, <1>5, <2>1 DEF SessionInv, RunInv
  <1> QED
    BY <1>4, <1>5

LEMMA SessionsFinishedInv ==
  ASSUME SessionInv, SessionTypes', SessionsFinished PROVE SessionInv'
  <1>1. \A q \in Runs : ~active[q]
    BY DEF SessionsFinished, SessionInv, RunInv
  <1> QED
    BY <1>1 DEF SessionsFinished, SessionInv, OneBusy, Busy, RunInv, sessionVars, sourceVars

LEMMA ProgressSettledInv ==
  ASSUME SessionInv, SessionTypes', ProgressSettled PROVE SessionInv'
  BY DEF ProgressSettled, SessionInv, OneBusy, Busy, RunInv, sessionVars, sourceVars

LEMMA RestartInv ==
  ASSUME SessionInv, SessionTypes', ServerRestart PROVE SessionInv'
  <1>1. closing' = "open" /\ \A q \in Runs :
          /\ start'[q] = "none" /\ active'[q] = FALSE /\ phase'[q] = "none"
          /\ feed'[q] = {} /\ final'[q] = "none"
    BY DEF ServerRestart
  <1> QED
    BY <1>1 DEF SessionInv, OneBusy, Busy, RunInv, Live

LEMMA NextInv == ASSUME SessionInv, SimulationNext PROVE SessionInv'
  <1>1. CASE UNCHANGED sessionState
    BY <1>1, Inert
  <1>2. CASE ~ UNCHANGED sessionState
    <2>1. SessionTypes'
      BY <1>2, TypeNext
    <2> QED
      BY <1>2, <2>1, InertSteps, RunSteps, StartStepInv, CloseCalledInv, StartsSettledInv,
         SessionsFinishedInv, ProgressSettledInv, RestartInv
         DEF SimulationNext, StartStep, InitStep, TimerStep, FinalStep, CancelStep, CloseStep
  <1> QED
    BY <1>1, <1>2

LEMMA SessionInvHolds == SimulationSpec => []SessionInv
  <1>1. ASSUME SessionInv, UNCHANGED simVars PROVE SessionInv'
    BY <1>1, Inert DEF simVars, sessionVars, sourceVars, sessionState
  <1> QED
    BY InitInv, NextInv, <1>1, PTL DEF SimulationSpec

-----------------------------------------------------------------------------
(* Whatever the sessions of any number of runs are waiting for when they    *)
(* end: a subscription to the feed belongs to a live session (initialize of *)
(* simulation-service.ts).                                                  *)
THEOREM FeedOwned == SimulationSpec => []FeedIsOwned
  <1>1. SessionInv => FeedIsOwned
    BY DEF SessionInv, RunInv, FeedIsOwned
  <1> QED
    BY <1>1, SessionInvHolds, PTL

(* Whatever is in flight when close is called: when it has returned, no     *)
(* start is under way and no session is left (close of                      *)
(* simulation-service.ts).                                                  *)
THEOREM NothingLeft == SimulationSpec => []ClosedLeavesNothing
  <1>1. SessionInv => ClosedLeavesNothing
    BY DEF SessionInv, RunInv, ClosedLeavesNothing
  <1> QED
    BY <1>1, SessionInvHolds, PTL

-----------------------------------------------------------------------------
(* The end of a run: who will store it, and what may be announced.  A run   *)
(* that is over before its session was, with nothing announced, was         *)
(* cancelled while it started: no other end comes from outside a session.   *)
DriveInv(r) ==
    /\ start[r] = "create" => status[r] = "none"
    /\ final[r] = "close" => status[r] \in Over \/ unwritten[r]
    /\ cancel[r].at \in {"request", "act"} => cancel[r].seen \in Active \/ status[r] \in Over
    /\ announced[r] = "none" /\ Busy(r) /\ status[r] \in Over => status[r] = "cancelled"
    /\ status[r] \in Active => Busy(r) \/ cancel[r].at = "act" \/ unwritten[r]

DriveTypes ==
    /\ announced \in [Runs -> {"none"} \cup Over]
    /\ cancel \in [Runs -> [at : {"none", "request", "act", "wait"}, seen : {"none"} \cup Active \cup Over]]
    /\ unwritten \in [Runs -> BOOLEAN]

DriversInv == SessionInv /\ DriveTypes /\ \A r \in Runs : DriveInv(r)

(* The state of a run that DriveInv speaks of *)
DriveState(r) ==
    <<status[r], announced[r], start[r], active[r], final[r], cancel[r], unwritten[r]>>

LEMMA InitDrivers == ASSUME SimulationInit PROVE DriversInv
  BY InitInv DEF SimulationInit, SourceInit, DriversInv, DriveTypes, DriveInv, Busy, NoCancel,
     Active, Over

(* A step of one run *)
LEMMA DriveStep ==
  ASSUME DriversInv, SessionInv', DriveTypes', NEW r \in Runs,
         \A q \in Runs \ {r} : DriveState(q)' = DriveState(q), DriveInv(r)'
  PROVE  DriversInv'
  BY DEF DriversInv, DriveInv, DriveState, Busy

(* Steps that leave all of it alone *)
LEMMA InertDrivers ==
  ASSUME DriversInv, SessionInv', UNCHANGED <<status, announced, start, active, final, cancel, unwritten>>
  PROVE  DriversInv'
  BY DEF DriversInv, DriveTypes, DriveInv, Busy

LEMMA DriveTypesKept ==
  ASSUME DriversInv, NEW r \in Runs,
         \/ StartRun(r) \/ CreateRun(r) \/ MarkRunning(r)
         \/ SessionCreated(r) \/ StartFails(r) \/ InitFails(r)
         \/ EndTimer(r) \/ ProgressAsked(r) \/ CancellationAsked(r)
         \/ ArtifactsPersisted(r) \/ EndWritten(r) \/ EndRechecked(r)
         \/ Salvaged(r) \/ SessionRemoved(r) \/ CancelCalled(r)
         \/ CancelRequested(r) \/ CancelActs(r) \/ CancelReturns(r)
  PROVE  DriveTypes'
  <1> USE DEF DriveTypes, Active, Over, sessionVars, sourceVars
  <1>0. DriveTypes /\ SessionTypes
    BY DEF DriversInv, SessionInv
  <1>1. CASE StartRun(r)
    BY <1>0, <1>1 DEF StartRun, SessionTypes
  <1>2. CASE CreateRun(r)
    BY <1>0, <1>2 DEF CreateRun, SessionTypes
  <1>3. CASE MarkRunning(r)
    BY <1>0, <1>3 DEF MarkRunning, SessionTypes
  <1>4. CASE SessionCreated(r)
    BY <1>0, <1>4 DEF SessionCreated, SessionTypes
  <1>5. CASE StartFails(r)
    BY <1>0, <1>5 DEF StartFails, Ended, Announced, SessionTypes
  <1>6. CASE InitFails(r)
    BY <1>0, <1>6 DEF InitFails, Finish, BeginFinalization, NoFinalization, SessionTypes
  <1>7. CASE EndTimer(r)
    BY <1>0, <1>7 DEF EndTimer, Finish, BeginFinalization, NoFinalization, SessionTypes
  <1>8. CASE ProgressAsked(r)
    BY <1>0, <1>8 DEF ProgressAsked, Finish, BeginFinalization, NoFinalization, SessionTypes
  <1>9. CASE CancellationAsked(r)
    BY <1>0, <1>9 DEF CancellationAsked, FinalGoes, SessionTypes
  <1>10. CASE ArtifactsPersisted(r)
    BY <1>0, <1>10 DEF ArtifactsPersisted, FinalGoes, SessionTypes
  <1>11. CASE EndWritten(r)
    <2>1. announced' \in [Runs -> {"none"} \cup Over] /\ cancel' = cancel
      BY <1>0, <1>11 DEF EndWritten, FinalGoes, Announced, RunInv, DriversInv, SessionInv
    <2>2. unwritten' = unwritten \/ unwritten' = [unwritten EXCEPT ![r] = intent[r] = "failed"]
      BY <1>11 DEF EndWritten
    <2>3. (intent[r] = "failed") \in BOOLEAN
      OBVIOUS
    <2>4. unwritten' \in [Runs -> BOOLEAN]
      BY <1>0, <2>2, <2>3, Zenon
    <2> QED
      BY <1>0, <2>1, <2>4
  <1>12. CASE EndRechecked(r)
    BY <1>0, <1>12 DEF EndRechecked, FinalGoes, Announced, SessionTypes
  <1>13. CASE Salvaged(r)
    BY <1>0, <1>13 DEF Salvaged, FinalGoes, Ended, Announced, SessionTypes
  <1>14. CASE SessionRemoved(r)
    BY <1>0, <1>14 DEF SessionRemoved, FinalGoes, SessionTypes
  <1>15. CASE CancelCalled(r)
    BY <1>0, <1>15 DEF CancelCalled, SessionTypes, Open
  <1>16. CASE CancelRequested(r)
    <2>1. announced' = announced /\ unwritten' = unwritten
      BY <1>16 DEF CancelRequested
    <2>2. cancel' = [cancel EXCEPT ![r].at = "act"] \/ cancel' = [cancel EXCEPT ![r] = NoCancel]
      BY <1>16 DEF CancelRequested
    <2>3. cancel' \in [Runs -> [at : {"none", "request", "act", "wait"}, seen : {"none"} \cup Active \cup Over]]
      BY <1>0, <2>2 DEF NoCancel
    <2> QED
      BY <1>0, <2>1, <2>3
  <1>17. CASE CancelActs(r)
    <2>1. announced' = announced /\ unwritten' = unwritten
      BY <1>17 DEF CancelActs
    <2>2. cancel' = [cancel EXCEPT ![r].at = "wait"] \/ cancel' = [cancel EXCEPT ![r] = NoCancel]
      BY <1>17 DEF CancelActs
    <2>3. cancel' \in [Runs -> [at : {"none", "request", "act", "wait"}, seen : {"none"} \cup Active \cup Over]]
      BY <1>0, <2>2 DEF NoCancel
    <2> QED
      BY <1>0, <2>1, <2>3
  <1>18. CASE CancelReturns(r)
    BY <1>0, <1>18 DEF CancelReturns, NoCancel, SessionTypes
  <1> QED
    BY <1>1, <1>2, <1>3, <1>4, <1>5, <1>6, <1>7, <1>8, <1>9, <1>10, <1>11, <1>12, <1>13, <1>14, <1>15, <1>16, <1>17, <1>18

LEMMA DriveSteps ==
  ASSUME DriversInv, SessionInv', NEW r \in Runs,
         \/ StartRun(r) \/ CreateRun(r) \/ MarkRunning(r)
         \/ SessionCreated(r) \/ StartFails(r) \/ InitFails(r)
         \/ EndTimer(r) \/ ProgressAsked(r) \/ CancellationAsked(r)
         \/ ArtifactsPersisted(r) \/ EndWritten(r) \/ EndRechecked(r)
         \/ Salvaged(r) \/ SessionRemoved(r) \/ CancelCalled(r)
         \/ CancelRequested(r) \/ CancelActs(r) \/ CancelReturns(r)
  PROVE  DriversInv'
  <1> USE DEF SessionTypes, DriveTypes, DriveInv, RunInv, Busy, Active, Over, Live, Open, sessionVars, sourceVars
  <1>0. SessionTypes /\ DriveTypes /\ RunInv(r) /\ DriveInv(r)
    BY DEF DriversInv, SessionInv
  <1>t. DriveTypes'
    BY DriveTypesKept
  <1>1. CASE StartRun(r)
    <2>1. \A q \in Runs \ {r} : DriveState(q)' = DriveState(q)
      BY <1>0, <1>1 DEF StartRun, DriveState
    <2>2. DriveInv(r)'
      BY <1>0, <1>1 DEF StartRun
    <2> QED
      BY <1>t, <2>1, <2>2, DriveStep
  <1>2. CASE CreateRun(r)
    <2>1. \A q \in Runs \ {r} : DriveState(q)' = DriveState(q)
      BY <1>0, <1>2 DEF CreateRun, DriveState
    <2>2. DriveInv(r)'
      BY <1>0, <1>2 DEF CreateRun
    <2> QED
      BY <1>t, <2>1, <2>2, DriveStep
  <1>3. CASE MarkRunning(r)
    <2>1. \A q \in Runs \ {r} : DriveState(q)' = DriveState(q)
      BY <1>0, <1>3 DEF MarkRunning, DriveState
    <2>2. DriveInv(r)'
      BY <1>0, <1>3 DEF MarkRunning
    <2> QED
      BY <1>t, <2>1, <2>2, DriveStep
  <1>4. CASE SessionCreated(r)
    <2>1. \A q \in Runs \ {r} : DriveState(q)' = DriveState(q)
      BY <1>0, <1>4 DEF SessionCreated, DriveState
    <2>2. DriveInv(r)'
      BY <1>0, <1>4 DEF SessionCreated
    <2> QED
      BY <1>t, <2>1, <2>2, DriveStep
  <1>5. CASE StartFails(r)
    <2>1. \A q \in Runs \ {r} : DriveState(q)' = DriveState(q)
      BY <1>0, <1>5 DEF StartFails, Ended, Announced, DriveState
    <2>2. DriveInv(r)'
      BY <1>0, <1>5 DEF StartFails, Ended, Announced
    <2> QED
      BY <1>t, <2>1, <2>2, DriveStep
  <1>6. CASE InitFails(r)
    <2>1. \A q \in Runs \ {r} : DriveState(q)' = DriveState(q)
      BY <1>0, <1>6 DEF InitFails, Finish, BeginFinalization, NoFinalization, DriveState
    <2>2. DriveInv(r)'
      BY <1>0, <1>6 DEF InitFails, Finish, BeginFinalization, NoFinalization
    <2> QED
      BY <1>t, <2>1, <2>2, DriveStep
  <1>7. CASE EndTimer(r)
    <2>1. \A q \in Runs \ {r} : DriveState(q)' = DriveState(q)
      BY <1>0, <1>7 DEF EndTimer, Finish, BeginFinalization, NoFinalization, DriveState
    <2>2. DriveInv(r)'
      BY <1>0, <1>7 DEF EndTimer, Finish, BeginFinalization, NoFinalization
    <2> QED
      BY <1>t, <2>1, <2>2, DriveStep
  <1>8. CASE ProgressAsked(r)
    <2>1. \A q \in Runs \ {r} : DriveState(q)' = DriveState(q)
      BY <1>0, <1>8 DEF ProgressAsked, Finish, BeginFinalization, NoFinalization, DriveState
    <2>2. DriveInv(r)'
      BY <1>0, <1>8 DEF ProgressAsked, Finish, BeginFinalization, NoFinalization
    <2> QED
      BY <1>t, <2>1, <2>2, DriveStep
  <1>9. CASE CancellationAsked(r)
    <2>1. \A q \in Runs \ {r} : DriveState(q)' = DriveState(q)
      BY <1>0, <1>9 DEF CancellationAsked, FinalGoes, DriveState
    <2>2. DriveInv(r)'
      BY <1>0, <1>9 DEF CancellationAsked, FinalGoes
    <2> QED
      BY <1>t, <2>1, <2>2, DriveStep
  <1>10. CASE ArtifactsPersisted(r)
    <2>1. \A q \in Runs \ {r} : DriveState(q)' = DriveState(q)
      BY <1>0, <1>10 DEF ArtifactsPersisted, FinalGoes, DriveState
    <2>2. DriveInv(r)'
      BY <1>0, <1>10 DEF ArtifactsPersisted, FinalGoes
    <2> QED
      BY <1>t, <2>1, <2>2, DriveStep
  <1>11. CASE EndWritten(r)
    <2>1. \A q \in Runs \ {r} : DriveState(q)' = DriveState(q)
      BY <1>0, <1>11 DEF EndWritten, FinalGoes, Ended, Announced, DriveState
    <2>2. DriveInv(r)'
      BY <1>0, <1>11 DEF EndWritten, FinalGoes, Ended, Announced
    <2> QED
      BY <1>t, <2>1, <2>2, DriveStep
  <1>12. CASE EndRechecked(r)
    <2>1. \A q \in Runs \ {r} : DriveState(q)' = DriveState(q)
      BY <1>0, <1>12 DEF EndRechecked, FinalGoes, Announced, DriveState
    <2>2. DriveInv(r)'
      BY <1>0, <1>12 DEF EndRechecked, FinalGoes, Announced
    <2> QED
      BY <1>t, <2>1, <2>2, DriveStep
  <1>13. CASE Salvaged(r)
    <2>1. \A q \in Runs \ {r} : DriveState(q)' = DriveState(q)
      BY <1>0, <1>13 DEF Salvaged, FinalGoes, Ended, Announced, DriveState
    <2>2. DriveInv(r)'
      BY <1>0, <1>13 DEF Salvaged, FinalGoes, Ended, Announced
    <2> QED
      BY <1>t, <2>1, <2>2, DriveStep
  <1>14. CASE SessionRemoved(r)
    <2>1. \A q \in Runs \ {r} : DriveState(q)' = DriveState(q)
      BY <1>0, <1>14 DEF SessionRemoved, FinalGoes, DriveState
    <2>2. DriveInv(r)'
      BY <1>0, <1>14 DEF SessionRemoved, FinalGoes
    <2> QED
      BY <1>t, <2>1, <2>2, DriveStep
  <1>15. CASE CancelCalled(r)
    <2>1. \A q \in Runs \ {r} : DriveState(q)' = DriveState(q)
      BY <1>0, <1>15 DEF CancelCalled, DriveState
    <2>2. DriveInv(r)'
      BY <1>0, <1>15 DEF CancelCalled
    <2> QED
      BY <1>t, <2>1, <2>2, DriveStep
  <1>16. CASE CancelRequested(r)
    <2>1. \A q \in Runs \ {r} : DriveState(q)' = DriveState(q)
      BY <1>0, <1>16 DEF CancelRequested, NoCancel, DriveState
    <2>2. DriveInv(r)'
      BY <1>0, <1>16 DEF CancelRequested, NoCancel
    <2> QED
      BY <1>t, <2>1, <2>2, DriveStep
  <1>17. CASE CancelActs(r)
    <2>1. \A q \in Runs \ {r} : DriveState(q)' = DriveState(q)
      BY <1>0, <1>17 DEF CancelActs, Finish, BeginFinalization, NoFinalization, Ended, NoCancel, DriveState
    <2>2. DriveInv(r)'
      BY <1>0, <1>17 DEF CancelActs, Finish, BeginFinalization, NoFinalization, Ended, NoCancel
    <2> QED
      BY <1>t, <2>1, <2>2, DriveStep
  <1>18. CASE CancelReturns(r)
    <2>1. \A q \in Runs \ {r} : DriveState(q)' = DriveState(q)
      BY <1>0, <1>18 DEF CancelReturns, NoCancel, DriveState
    <2>2. DriveInv(r)'
      BY <1>0, <1>18 DEF CancelReturns, NoCancel
    <2> QED
      BY <1>t, <2>1, <2>2, DriveStep
  <1> QED
    BY <1>1, <1>2, <1>3, <1>4, <1>5, <1>6, <1>7, <1>8, <1>9, <1>10, <1>11, <1>12, <1>13, <1>14, <1>15, <1>16, <1>17, <1>18

-----------------------------------------------------------------------------
(* What the statements write, as RunSource sees it *)

(* The end of a run is stored if it is open, and announced if none was. *)
LEMMA EndMaps ==
  ASSUME SessionTypes, DriveTypes, NEW r \in Runs, NEW end \in Over, status[r] # "none",
         status[r] = "cancel_requested" => end # "completed",
         status[r] \in Over => announced[r] # "none" \/ end \in {status[r], "failed"},
         status' = [status EXCEPT ![r] = Ended(@, end)], Announced(r, end)
  PROVE  SourceNext \/ UNCHANGED sourceVars
  <1> USE DEF SessionTypes, DriveTypes, Active, Over
  <1>1. CASE status[r] \in Active
    <2>1. end \in MayBecome(status[r]) \cap Over
      BY <1>1 DEF MayBecome
    <2>2. status' = [status EXCEPT ![r] = end]
      BY <1>1 DEF Ended
    <2>3. End(r)
      BY <2>1, <2>2 DEF End, Announced
    <2> QED
      BY <2>3 DEF SourceNext
  <1>2. CASE status[r] \in Over
    <2>1. status' = status
      BY <1>2 DEF Ended
    <2>2. CASE announced[r] = "none"
      <3>1. announced' = [announced EXCEPT ![r] = end]
        BY <2>2 DEF Announced
      <3>2. Announce(r, end)
        BY <1>2, <2>1, <2>2, <3>1 DEF Announce
      <3> QED
        BY <3>2 DEF SourceNext
    <2>3. CASE announced[r] # "none"
      BY <2>1, <2>3 DEF Announced, sourceVars
    <2> QED
      BY <2>2, <2>3
  <1> QED
    BY <1>1, <1>2

LEMMA MoveMaps ==
  ASSUME NEW r \in Runs, NEW s \in MayBecome(status[r]),
         status' = [status EXCEPT ![r] = s], announced' = announced
  PROVE  SourceNext
  BY DEF SourceNext, Move

LEMMA StepMaps == ASSUME DriversInv, SimulationNext PROVE SourceNext \/ UNCHANGED sourceVars
  <1> USE DEF SessionTypes, DriveTypes
  <1>0. SessionTypes /\ DriveTypes /\ \A r \in Runs : RunInv(r) /\ DriveInv(r)
    BY DEF DriversInv, SessionInv
  <1>1. ASSUME NEW r \in Runs, CreateRun(r) PROVE SourceNext \/ UNCHANGED sourceVars
    <2>1. "queued" \in MayBecome(status[r])
      BY <1>0, <1>1 DEF CreateRun, DriveInv, MayBecome
    <2> QED
      BY <1>1, <2>1, MoveMaps DEF CreateRun, sourceVars
  <1>2. ASSUME NEW r \in Runs, MarkRunning(r) PROVE SourceNext \/ UNCHANGED sourceVars
    <2>1. status[r] = "queued" => "running" \in MayBecome(status[r])
      BY DEF MayBecome
    <2> QED
      BY <1>2, <2>1, MoveMaps DEF MarkRunning, sourceVars
  <1>3. ASSUME NEW r \in Runs, StartFails(r) PROVE SourceNext \/ UNCHANGED sourceVars
    <2>1. status[r] # "none"
      BY <1>0, <1>3 DEF StartFails, RunInv
    <2> QED
      BY <1>0, <1>3, <2>1, EndMaps DEF StartFails, Over
  <1>4. ASSUME NEW r \in Runs, EndWritten(r) PROVE SourceNext \/ UNCHANGED sourceVars
    <2>1. active[r] /\ status[r] # "none" /\ intent[r] \in Over
      BY <1>0, <1>4 DEF EndWritten, FinalGoes, RunInv
    <2>2. CASE announced' # announced \/ status' # status
      <3>1. /\ intent[r] = "completed" => status[r] \in Open
            /\ status' = [status EXCEPT ![r] = Ended(@, intent[r])]
            /\ Announced(r, intent[r])
        BY <1>4, <2>2 DEF EndWritten, sourceVars
      <3>2. status[r] = "cancel_requested" => intent[r] # "completed"
        BY <3>1 DEF Open
      <3>3. status[r] \in Over => announced[r] # "none" \/ intent[r] \in {status[r], "failed"}
        BY <1>0, <2>1, <3>1 DEF Open, Over, DriveInv, Busy
      <3> QED
        BY <1>0, <2>1, <3>1, <3>2, <3>3, EndMaps
    <2> QED
      BY <2>2 DEF sourceVars
  <1>5. ASSUME NEW r \in Runs, EndRechecked(r) PROVE SourceNext \/ UNCHANGED sourceVars
    <2>1. status' = status
      BY <1>5 DEF EndRechecked
    <2>2. CASE announced' = announced
      BY <2>1, <2>2 DEF sourceVars
    <2>3. CASE announced' # announced
      <3>1. status[r] \in Over /\ Announced(r, status[r])
        BY <1>5, <2>3 DEF EndRechecked
      <3>2. status[r] # "none" /\ status[r] # "cancel_requested" /\ status[r] \notin Active
        BY <3>1 DEF Over, Active
      <3>3. status' = [status EXCEPT ![r] = Ended(@, status[r])]
        BY <1>0, <2>1, <3>2 DEF Ended
      <3> QED
        BY <1>0, <3>1, <3>2, <3>3, EndMaps
    <2> QED
      BY <2>2, <2>3
  <1>6. ASSUME NEW r \in Runs, Salvaged(r) PROVE SourceNext \/ UNCHANGED sourceVars
    <2>1. status[r] # "none"
      BY <1>0, <1>6 DEF Salvaged, FinalGoes, RunInv
    <2> QED
      BY <1>0, <1>6, <2>1, EndMaps DEF Salvaged, Over
  <1>7. ASSUME NEW r \in Runs, CancelRequested(r) PROVE SourceNext \/ UNCHANGED sourceVars
    <2>1. status[r] \in Open => "cancel_requested" \in MayBecome(status[r])
      BY DEF MayBecome, Open
    <2>2. CASE status[r] \in Open /\ status' # status
      BY <1>7, <2>1, <2>2, MoveMaps DEF CancelRequested
    <2> QED
      BY <1>0, <1>7, <2>2 DEF CancelRequested, sourceVars
  <1>8. ASSUME NEW r \in Runs, CancelActs(r) PROVE SourceNext \/ UNCHANGED sourceVars
    <2>1. status[r] \in Active => "cancelled" \in MayBecome(status[r])
      BY DEF MayBecome, Active, Over
    <2>2. CASE status' # status
      <3>1. status[r] \in Active /\ status' = [status EXCEPT ![r] = "cancelled"]
        BY <1>0, <1>8, <2>2 DEF CancelActs, Ended
      <3> QED
        BY <1>8, <2>1, <3>1, MoveMaps DEF CancelActs
    <2> QED
      BY <1>8, <2>2 DEF CancelActs, sourceVars
  <1>9. CASE ServerRestart
    BY <1>9 DEF ServerRestart, SourceNext
  <1>10. ASSUME NEW r \in Runs,
                \/ StartRun(r) \/ SessionCreated(r) \/ InitStep(r) \/ EndTimer(r)
                \/ TimerStep(r) \/ CancellationAsked(r) \/ ArtifactsPersisted(r)
                \/ SessionRemoved(r) \/ CancelCalled(r) \/ CancelReturns(r)
         PROVE  UNCHANGED sourceVars
    BY <1>10 DEF StartRun, SessionCreated, InitStep, Scanned, CandidatesRetained, Selected,
       SelectedRetained, Prepared, InitGoes, TimersArmed, InitFails, EndTimer, TimerStep,
       ProgressTimer, ProgressAsked, ProgressEnds, CancellationAsked, ArtifactsPersisted,
       SessionRemoved, CancelCalled, CancelReturns
  <1>11. CASE CloseCalled \/ CloseStep
    BY <1>11 DEF CloseCalled, CloseStep, StartsSettled, SessionsFinished, ProgressSettled
  <1> QED
    BY <1>1, <1>2, <1>3, <1>4, <1>5, <1>6, <1>7, <1>8, <1>9, <1>10, <1>11
       DEF SimulationNext, StartStep, FinalStep, CancelStep

-----------------------------------------------------------------------------
LEMMA DriversNext == ASSUME DriversInv, SimulationNext PROVE DriversInv'
  <1>1. SessionInv'
    BY NextInv DEF DriversInv
  <1>2. ASSUME NEW r \in Runs,
               \/ Scanned(r) \/ CandidatesRetained(r) \/ Selected(r) \/ SelectedRetained(r)
               \/ Prepared(r) \/ TimersArmed(r) \/ ProgressTimer(r) \/ ProgressEnds(r)
        PROVE  DriversInv'
    <2>1. UNCHANGED <<status, announced, start, active, final, cancel, unwritten>>
      BY <1>2 DEF Scanned, CandidatesRetained, Selected, SelectedRetained, Prepared, InitGoes,
         TimersArmed, ProgressTimer, ProgressEnds, sessionVars, sourceVars
    <2> QED
      BY <1>1, <2>1, InertDrivers
  <1>3. CASE CloseCalled \/ SessionsFinished \/ ProgressSettled
    <2>1. UNCHANGED <<status, announced, start, active, final, cancel, unwritten>>
      BY <1>3 DEF CloseCalled, SessionsFinished, ProgressSettled, sessionVars, sourceVars
    <2> QED
      BY <1>1, <2>1, InertDrivers
  <1>4. CASE StartsSettled
    <2>1. UNCHANGED <<status, announced, start, active, cancel, unwritten>>
      BY <1>4 DEF StartsSettled, Finish, BeginFinalization, NoFinalization, sessionVars, sourceVars
    <2>2. \A r \in Runs : final'[r] = "close" => final[r] = "close"
      BY <1>4 DEF StartsSettled, Finish, BeginFinalization, NoFinalization, sessionVars,
         DriversInv, SessionInv, SessionTypes
    <2> QED
      BY <1>1, <2>1, <2>2 DEF DriversInv, DriveTypes, DriveInv, Busy
  <1>5. CASE ServerRestart
    <2>1. DriveTypes'
      BY <1>5 DEF ServerRestart, SourceRestart, DriveTypes, NoCancel
    <2>2. \A r \in Runs : status'[r] \notin Active
      BY <1>5 DEF ServerRestart, SourceRestart, Active
    <2>3. \A r \in Runs :
            start'[r] = "none" /\ active'[r] = FALSE /\ final'[r] = "none" /\ cancel'[r].at = "none"
      BY <1>5 DEF ServerRestart, NoCancel
    <2> QED
      BY <1>1, <2>1, <2>2, <2>3 DEF DriversInv, DriveInv, Busy
  <1> QED
    BY <1>1, <1>2, <1>3, <1>4, <1>5, DriveSteps
       DEF SimulationNext, StartStep, InitStep, TimerStep, FinalStep, CancelStep, CloseStep

LEMMA DriversUnmoved == ASSUME DriversInv, UNCHANGED simVars PROVE DriversInv'
  <1>1. SessionInv'
    BY Inert DEF DriversInv, simVars, sessionVars, sourceVars, sessionState
  <1> QED
    BY <1>1, InertDrivers DEF simVars, sessionVars, sourceVars

(* With any number of runs, and the start, the timers, a cancel call, a      *)
(* failure and a restart competing for the end of each: the terminal event   *)
(* comes after the end was stored and names it, or a failure (RunSource;     *)
(* finalize, finalizeFailure and cancel of simulation-service.ts).           *)
THEOREM ServiceIsASource == SimulationSpec => ImplementsSource
  <1>1. SimulationInit => SourceInit
    BY DEF SimulationInit
  <1>2. DriversInv /\ [SimulationNext]_simVars => [SourceNext]_sourceVars
    BY StepMaps DEF simVars, sourceVars
  <1>3. DriversInv /\ [SimulationNext]_simVars => DriversInv'
    BY DriversNext, DriversUnmoved
  <1> QED
    BY <1>1, <1>2, <1>3, InitDrivers, PTL DEF SimulationSpec, ImplementsSource, SourceSpec

-----------------------------------------------------------------------------
(* The parts side by side: each keeps its invariant where it moves and      *)
(* stays as it was at the start where another one does.                     *)

SourceTypes ==
    status \in [Runs -> {"none"} \cup Active \cup Over] /\ announced \in [Runs -> {"none"} \cup Over]

(* The types of what the sessions do not share with the events              *)
OwnTypes ==
    /\ start \in [Runs -> {"none", "create", "mark", "event", "failing"}]
    /\ active \in [Runs -> BOOLEAN]
    /\ phase \in [Runs -> {"none", "finalizing"} \cup Live \cup Over]
    /\ init \in [Runs -> {"none", "scan", "retain", "select", "retainSelected", "prepare", "ready"}]
    /\ feed \in [Runs -> SUBSET {"candidates", "selected"}]
    /\ release \in [Runs -> SUBSET {"candidates", "selected"}]
    /\ timers \in [Runs -> BOOLEAN]
    /\ progress \in [Runs -> {"none", "ask", "persist", "finish"}]
    /\ final \in [Runs -> {"none", "ask", "persist", "write", "recheck", "salvage", "close", "done"}]
    /\ intent \in [Runs -> {"none"} \cup Over]
    /\ cancel \in [Runs -> [at : {"none", "request", "act", "wait"}, seen : {"none"} \cup Active \cup Over]]
    /\ closing \in {"open", "starts", "sessions", "progress", "closed"}
    /\ unwritten \in [Runs -> BOOLEAN]

(* The types that DriversInv leaves out                                     *)
TimerTypes ==
    /\ init \in [Runs -> {"none", "scan", "retain", "select", "retainSelected", "prepare", "ready"}]
    /\ timers \in [Runs -> BOOLEAN]
    /\ progress \in [Runs -> {"none", "ask", "persist", "finish"}]
    /\ closing \in {"open", "starts", "sessions", "progress", "closed"}

LEMMA TimerTypesNext ==
  ASSUME OwnTypes, SimulationNext PROVE TimerTypes'
  <1> USE DEF OwnTypes, TimerTypes, sessionVars
  <1>1. ASSUME NEW r \in Runs,
               \/ StartRun(r) \/ CreateRun(r) \/ MarkRunning(r) \/ StartFails(r)
               \/ CancelCalled(r) \/ CancelRequested(r) \/ CancelReturns(r)
        PROVE  TimerTypes'
    BY <1>1 DEF StartRun, CreateRun, MarkRunning, StartFails, CancelCalled, CancelRequested, CancelReturns
  <1>2. ASSUME NEW r \in Runs, SessionCreated(r) PROVE TimerTypes'
    BY <1>2 DEF SessionCreated
  <1>3. ASSUME NEW r \in Runs,
               \/ Scanned(r) \/ CandidatesRetained(r) \/ Selected(r) \/ SelectedRetained(r) \/ Prepared(r)
        PROVE  TimerTypes'
    BY <1>3 DEF Scanned, CandidatesRetained, Selected, SelectedRetained, Prepared, InitGoes
  <1>4. ASSUME NEW r \in Runs, TimersArmed(r) PROVE TimerTypes'
    <2>1. (phase[r] = "running") \in BOOLEAN
      OBVIOUS
    <2>2. timers' \in [Runs -> BOOLEAN]
      BY <1>4, <2>1, Zenon DEF TimersArmed
    <2> QED
      BY <1>4, <2>2 DEF TimersArmed
  <1>5. ASSUME NEW r \in Runs, NEW end, Finish(r, end) PROVE timers' \in [Runs -> BOOLEAN]
    BY <1>5 DEF Finish, BeginFinalization, NoFinalization
  <1>6. ASSUME NEW r \in Runs, InitFails(r) PROVE TimerTypes'
    BY <1>5, <1>6 DEF InitFails
  <1>7. ASSUME NEW r \in Runs, EndTimer(r) PROVE TimerTypes'
    BY <1>5, <1>7 DEF EndTimer
  <1>8. ASSUME NEW r \in Runs, ProgressTimer(r) \/ ProgressEnds(r) PROVE TimerTypes'
    BY <1>8 DEF ProgressTimer, ProgressEnds
  <1>9. ASSUME NEW r \in Runs, ProgressAsked(r) PROVE TimerTypes'
    <2>1. timers' \in [Runs -> BOOLEAN]
      BY <1>5, <1>9 DEF ProgressAsked, NoFinalization
    <2> QED
      BY <1>9, <2>1 DEF ProgressAsked
  <1>10. ASSUME NEW r \in Runs, FinalStep(r) PROVE TimerTypes'
    BY <1>10 DEF FinalStep, CancellationAsked, ArtifactsPersisted, EndWritten, EndRechecked, Salvaged,
       SessionRemoved, FinalGoes
  <1>11. ASSUME NEW r \in Runs, CancelActs(r) PROVE TimerTypes'
    <2>1. timers' \in [Runs -> BOOLEAN]
      BY <1>5, <1>11 DEF CancelActs, NoFinalization
    <2> QED
      BY <1>11, <2>1 DEF CancelActs
  <1>12. CASE CloseCalled \/ SessionsFinished \/ ProgressSettled
    BY <1>12 DEF CloseCalled, SessionsFinished, ProgressSettled
  <1>13. CASE StartsSettled
    <2>1. timers' \in [Runs -> BOOLEAN]
      BY <1>5, <1>13 DEF StartsSettled, NoFinalization
    <2> QED
      BY <1>13, <2>1 DEF StartsSettled
  <1>14. CASE ServerRestart
    BY <1>14 DEF ServerRestart
  <1> QED
    BY <1>1, <1>2, <1>3, <1>4, <1>6, <1>7, <1>8, <1>9, <1>10, <1>11, <1>12, <1>13, <1>14
       DEF SimulationNext, StartStep, InitStep, TimerStep, CancelStep, CloseStep

SessionsPart ==
    /\ SourceTypes /\ OwnTypes
    /\ FeedIsOwned /\ ClosedLeavesNothing
    /\ part = "sessions" => DriversInv

EventsPart ==
    IF part = "events" THEN EventsInv
    ELSE EventsTypeOK /\ page.mode = "none" /\ conn.at = "none"

PartsInv ==
    /\ SessionsPart /\ EventsPart
    /\ TokenTypeInv /\ PresetsInv /\ BarsInv /\ MarketInv /\ ShutdownInv /\ FeedTypeInv

LEMMA EventTypes == ASSUME EventsInv PROVE EventsTypeOK
  <1> DEFINE over == status[Watched] \in Over
             G == TrueEvents(over)
  <1>1. G \subseteq RunEvent
    BY DEF TrueEvents
  <1>2. \A q \in Seq(G) : q \in Seq(RunEvent)
    BY <1>1
  <1>3. /\ StreamIs(hub, conn, wire, over) /\ page \in PageIn /\ joined \in BOOLEAN
        /\ session \in {"none", "live", "gone"} /\ datas \in 0..MaxData /\ hides \in 0..MaxHides
    BY DEF EventsInv, PageFollows, PageIsAt
  <1> DEFINE These == Seq(G)
             All == Seq(RunEvent)
  <1>4. /\ hub \in [rev : Nat, terminal : BOOLEAN, events : These] /\ Len(hub.events) <= ReplayLimit
        /\ conn \in [at : {"none", "asked", "read", "open"}, current : Statuses,
                     requested : Nat \cup {None}, lastSent : Nat, blocked : BOOLEAN, pending : These]
        /\ wire \in These
    BY <1>3 DEF StreamIs, RingOf, ConnIn
  <1>5. \A q \in These : q \in All
    BY <1>2
  <1> HIDE DEF These, All, G, over
  <1>6. /\ hub \in [rev : Nat, terminal : BOOLEAN, events : All]
        /\ conn \in [at : {"none", "asked", "read", "open"}, current : Statuses,
                     requested : Nat \cup {None}, lastSent : Nat, blocked : BOOLEAN, pending : All]
        /\ wire \in All
    BY <1>4, <1>5
  <1> QED
    BY <1>3, <1>4, <1>6 DEF All, PageIn, Statuses, EventsTypeOK

LEMMA PushedTypes == ASSUME MarketInv PROVE MarketTypeOK
  <1>1. /\ Tokens(events, coalesced, pushed, segment) /\ delivered \in Seq(DOMAIN pushed)
        /\ DOMAIN pushed = 1..Len(pushed) /\ Len(pushed) \in Nat /\ Len(pushed) <= MaxPushes + 1
        /\ MaxPushes \in Nat
    BY MarketEventsAssumption DEF MarketInv, QueueIs
  <1>2. events \in Seq(MarketToken) /\ Len(events) <= QueueDepth
        /\ \A i \in DOMAIN events : TokenIn(events[i], coalesced, pushed, segment)
    BY <1>1 DEF Tokens
  <1> DEFINE Typed == [kind : {"direct", "trade"} \cup Quotes, id : 0..MaxPushes + 1, seg : Nat]
  <1>3. ASSUME NEW i \in DOMAIN events PROVE events[i] \in Typed
    <2>1. events[i] \in MarketToken /\ (events[i].id # 0 => events[i].id \in DOMAIN pushed)
      <3>1. TokenIn(events[i], coalesced, pushed, segment) /\ events[i] \in MarketToken
        BY <1>2
      <3> QED
        BY <3>1 DEF TokenIn, OutOf
    <2>2. events[i].id \in 0..MaxPushes + 1
      BY <1>1, <2>1 DEF MarketToken
    <2> QED
      BY <2>1, <2>2 DEF MarketToken
  <1>4. events \in Seq(Typed)
    <2> HIDE DEF Typed
    <2>1. Len(events) \in Nat /\ events \in [1..Len(events) -> MarketToken] /\ DOMAIN events = 1..Len(events)
      BY <1>2
    <2>2. events \in [1..Len(events) -> Typed]
      BY <1>3, <2>1
    <2> QED
      BY <2>1, <2>2
  <1>5. ToSet(delivered) \subseteq DOMAIN pushed
    BY <1>1 DEF ToSet
  <1>6. \A key \in DOMAIN coalesced : key \in Quotes \X Nat /\ coalesced[key] \in DOMAIN pushed
    BY <1>1 DEF Tokens
  <1> QED
    BY <1>2, <1>4, <1>5, <1>6 DEF MarketInv, MarketTypeOK, Typed

LEMMA PartsTyped == ASSUME PartsInv PROVE PartsTypeOK
  <1>1. SimulationTypeOK
    BY DEF PartsInv, SessionsPart, SourceTypes, OwnTypes, SimulationTypeOK
  <1>2. EventsTypeOK
    BY EventTypes DEF PartsInv, EventsPart
  <1>3. PresetsTypeOK /\ BarsTypeOK /\ ShutdownTypeOK
    BY DEF PartsInv, PresetsInv, BarsInv, ShutdownInv
  <1>4. TokensTypeOK /\ MarketTypeOK /\ FeedTypeOK
    BY TokenTypesStated, PushedTypes, FeedTypesStated DEF PartsInv
  <1> QED
    BY <1>1, <1>2, <1>3, <1>4 DEF PartsTypeOK

LEMMA PartsInitInv == ASSUME PartsInit PROVE PartsInv
  <1>1. SimulationInit /\ EventsInit
    BY DEF PartsInit
  <1>2. SourceTypes /\ OwnTypes
    BY <1>1 DEF SimulationInit, SourceInit, SourceTypes, OwnTypes, NoCancel, Active, Over, Live
  <1>3. DriversInv /\ EventsInv
    BY <1>1, InitDrivers, EventsInitInv
  <1>4. FeedIsOwned /\ ClosedLeavesNothing
    BY <1>1 DEF SimulationInit, FeedIsOwned, ClosedLeavesNothing
  <1>5. EventsTypeOK /\ page.mode = "none" /\ conn.at = "none"
    BY <1>1, <1>3, EventTypes DEF EventsInit, NoConn
  <1>6. TokenTypeInv /\ PresetsInv /\ BarsInv /\ MarketInv /\ ShutdownInv /\ FeedTypeInv
    BY TokenTypesInit, PresetsInitInv, BarsInitInv, MarketInitInv, ShutdownInitInv, FeedTypesInit DEF PartsInit
  <1> QED
    BY <1>2, <1>3, <1>4, <1>5, <1>6 DEF PartsInv, SessionsPart, EventsPart

(* What each part sees of a step                                            *)
LEMMA PartSteps ==
  ASSUME [PartsNext]_partsVars
  PROVE  /\ part' = part
         /\ IF part = "sessions" THEN [SimulationNext]_simVars ELSE UNCHANGED sessionsOnly
         /\ IF part = "events" THEN [EventsNext]_eventVars ELSE UNCHANGED eventsOnly
         /\ part \notin {"sessions", "events"} => UNCHANGED sourceVars
         /\ [TokensNext]_tokenVars /\ [PresetsNext]_presetVars /\ [BarsNext]_barVars
         /\ [MarketNext]_marketVars /\ [ShutdownNext]_shutdownVars /\ [FeedNext]_feedVars
  <1>1. CASE PartsNext
    BY <1>1 DEF PartsNext, Stay
  <1>2. CASE UNCHANGED partsVars
    <2>1. UNCHANGED simVars /\ UNCHANGED eventVars
      BY <1>2 DEF partsVars, sessionsOnly, eventsOnly, simVars, eventVars
    <2> QED
      BY <1>2, <2>1 DEF partsVars
  <1> QED
    BY <1>1, <1>2

LEMMA SessionsPartNext ==
  ASSUME SessionsPart, EventsPart, [PartsNext]_partsVars
  PROVE  SessionsPart'
  <1>1. CASE part = "sessions"
    <2>1. [SimulationNext]_simVars /\ part' = part /\ DriversInv
      BY <1>1, PartSteps DEF SessionsPart
    <2>2. DriversInv'
      BY <2>1, DriversNext, DriversUnmoved
    <2>3. TimerTypes'
      <3>1. CASE SimulationNext
        BY <3>1, TimerTypesNext DEF SessionsPart
      <3>2. CASE UNCHANGED simVars
        BY <3>2 DEF simVars, sessionVars, SessionsPart, OwnTypes, TimerTypes
      <3> QED
        BY <2>1, <3>1, <3>2
    <2>4. SourceTypes' /\ OwnTypes'
      BY <2>2, <2>3 DEF DriversInv, DriveTypes, SessionInv, SessionTypes, TimerTypes, SourceTypes, OwnTypes
    <2>5. FeedIsOwned' /\ ClosedLeavesNothing'
      BY <2>2 DEF DriversInv, SessionInv, RunInv, FeedIsOwned, ClosedLeavesNothing
    <2> QED
      BY <2>2, <2>4, <2>5 DEF SessionsPart
  <1>2. CASE part # "sessions"
    <2>1. UNCHANGED sessionsOnly /\ part' = part
      BY <1>2, PartSteps
    <2>2. OwnTypes' /\ FeedIsOwned' /\ ClosedLeavesNothing'
      BY <2>1 DEF sessionsOnly, sessionVars, SessionsPart, OwnTypes, FeedIsOwned, ClosedLeavesNothing
    <2>3. SourceTypes'
      <3>1. CASE part = "events"
        <4>1. EventsInv'
          BY <3>1, PartSteps, EventsNextInv DEF EventsPart
        <4> QED
          BY <4>1 DEF EventsInv, Statuses, SourceTypes
      <3>2. CASE part # "events"
        <4>1. UNCHANGED sourceVars
          BY <1>2, <3>2, PartSteps
        <4> QED
          BY <4>1 DEF sourceVars, SourceTypes, SessionsPart
      <3> QED
        BY <3>1, <3>2
    <2> QED
      BY <1>2, <2>1, <2>2, <2>3 DEF SessionsPart
  <1> QED
    BY <1>1, <1>2

LEMMA EventsPartNext ==
  ASSUME EventsPart, [PartsNext]_partsVars
  PROVE  EventsPart'
  <1>1. CASE part = "events"
    <2>1. EventsInv' /\ part' = part
      BY <1>1, PartSteps, EventsNextInv DEF EventsPart
    <2> QED
      BY <1>1, <2>1 DEF EventsPart
  <1>2. CASE part # "events"
    <2>1. UNCHANGED eventsOnly /\ part' = part
      BY <1>2, PartSteps
    <2> QED
      BY <1>2, <2>1 DEF eventsOnly, EventsPart, EventsTypeOK
  <1> QED
    BY <1>1, <1>2

LEMMA PartsNextInv == ASSUME PartsInv, [PartsNext]_partsVars PROVE PartsInv'
  <1>1. SessionsPart' /\ EventsPart'
    BY SessionsPartNext, EventsPartNext DEF PartsInv
  <1>2. TokenTypeInv' /\ PresetsInv' /\ BarsInv'
    BY PartSteps, TokenTypesNext, PresetsNextInv, BarsNextInv DEF PartsInv
  <1>3. MarketInv' /\ ShutdownInv' /\ FeedTypeInv'
    BY PartSteps, MarketNextInv, ShutdownNextInv, FeedTypesNext DEF PartsInv
  <1> QED
    BY <1>1, <1>2, <1>3 DEF PartsInv

(* Whatever part of the server moves, every variable of every part keeps    *)
(* its type: generations, revisions, places in a queue and rows of a family *)
(* stay within their bounds.                                                *)
THEOREM PartsAreTyped == PartsSpec => []PartsTypeOK
  <1>1. PartsInv => PartsTypeOK
    BY PartsTyped
  <1> QED
    BY <1>1, PartsInitInv, PartsNextInv, PTL DEF PartsSpec

(* Every invariant that is proved of a part alone, for the parts as they    *)
(* are checked side by side, and for any values of all their bounds         *)
THEOREM PartsAreSafe ==
  PartsSpec => [](/\ FeedIsOwned /\ ClosedLeavesNothing
                  /\ OpenStreamIsCurrent /\ PageStopsOnlyAtEnd
                  /\ TokensFormAChain /\ NoSaveIsLost
                  /\ BarsReachTheStore /\ NothingCrossesABarrier
                  /\ StopsInOrder /\ LiveFeedIsDriven /\ ControlConverges)
  <1> DEFINE Safe == /\ FeedIsOwned /\ ClosedLeavesNothing
                     /\ OpenStreamIsCurrent /\ PageStopsOnlyAtEnd
                     /\ TokensFormAChain /\ NoSaveIsLost
                     /\ BarsReachTheStore /\ NothingCrossesABarrier
                     /\ StopsInOrder /\ LiveFeedIsDriven /\ ControlConverges
  <1>1. PartsInv => Safe
    <2> SUFFICES ASSUME PartsInv PROVE Safe
      OBVIOUS
    <2>1. FeedIsOwned /\ ClosedLeavesNothing
      BY DEF PartsInv, SessionsPart
    <2>2. OpenStreamIsCurrent /\ PageStopsOnlyAtEnd
      <3>1. CASE part = "events"
        BY <3>1, StreamFollowsHub, PageKnowsEnd DEF PartsInv, EventsPart
      <3>2. CASE part # "events"
        BY <3>2 DEF PartsInv, EventsPart, OpenStreamIsCurrent, PageStopsOnlyAtEnd
      <3> QED
        BY <3>1, <3>2
    <2>3. TokensFormAChain /\ NoSaveIsLost /\ BarsReachTheStore
      BY ChainSuffices DEF PartsInv, TokenTypeInv, PresetsInv, BarsInv
    <2>4. NothingCrossesABarrier /\ StopsInOrder
      BY NothingCrosses, StagesInOrder DEF PartsInv
    <2>5. LiveFeedIsDriven /\ ControlConverges
      BY DrivenByLine, ConvergesStated DEF PartsInv, FeedTypeInv, ConvergeInv
    <2> QED
      BY <2>1, <2>2, <2>3, <2>4, <2>5
  <1> HIDE DEF Safe
  <1>2. PartsSpec => []Safe
    BY <1>1, PartsInitInv, PartsNextInv, PTL DEF PartsSpec
  <1> QED
    BY <1>2, PTL DEF Safe

(* Whether the runs move by the sessions that drive them or by what the     *)
(* events rely on, they move as RunSource promises.                         *)
THEOREM PartsKeepTheSource == PartsSpec => ImplementsSource
  <1>1. PartsInit => SourceInit
    BY DEF PartsInit, SimulationInit
  <1>2. PartsInv /\ [PartsNext]_partsVars => [SourceNext]_sourceVars
    <2> SUFFICES ASSUME PartsInv, [PartsNext]_partsVars PROVE [SourceNext]_sourceVars
      OBVIOUS
    <2>1. CASE part = "sessions"
      <3>1. [SimulationNext]_simVars /\ DriversInv
        BY <2>1, PartSteps DEF PartsInv, SessionsPart
      <3> QED
        BY <3>1, StepMaps DEF simVars, sourceVars
    <2>2. CASE part = "events"
      <3>1. [EventsNext]_eventVars
        BY <2>2, PartSteps
      <3>2. CASE RunMoves
        BY <3>2, RunEventsAssumption DEF RunMoves, SourceNext
      <3>3. CASE EndPublished
        BY <3>3, RunEventsAssumption DEF EndPublished, SourceNext
      <3>4. CASE EventServerRestart
        BY <3>4 DEF EventServerRestart, SourceNext
      <3>5. CASE \/ SessionStarts \/ ReadRun \/ Subscribe \/ DrainEvent \/ DataPublished \/ Evicted \/ OpenPage
                 \/ Received \/ StreamFails \/ Poll \/ HidePage \/ ShowPage
        BY <3>5 DEF SessionStarts, ReadRun, Subscribe, DrainEvent, DataPublished, Evicted, OpenPage, Received,
                    StreamFails, Poll, HidePage, ShowPage
      <3>6. CASE UNCHANGED eventVars
        BY <3>6 DEF eventVars
      <3> QED
        BY <3>1, <3>2, <3>3, <3>4, <3>5, <3>6 DEF EventsNext
    <2>3. CASE part \notin {"sessions", "events"}
      BY <2>3, PartSteps
    <2> QED
      BY <2>1, <2>2, <2>3
  <1> QED
    BY <1>1, <1>2, PartsInitInv, PartsNextInv, PTL DEF PartsSpec, ImplementsSource, SourceSpec

(* A run that is open has somebody who will end it, or its end could not be *)
(* stored, in every behaviour of the sessions part (start, cancel and       *)
(* finalize of simulation-service.ts).                                      *)
THEOREM RunsAreDriven == PartsSpec => []SessionsDriveRuns
  <1>1. PartsInv => SessionsDriveRuns
    BY DEF PartsInv, SessionsPart, DriversInv, DriveInv, Busy, SessionsDriveRuns, OpenRunHasDriver
  <1> QED
    BY <1>1, PartsInitInv, PartsNextInv, PTL DEF PartsSpec

=============================================================================
