------------------------------ MODULE StoreProofs ------------------------------
(***************************************************************************)
(* What the store keeps beside the sessions: proofs about the grants and   *)
(* tokens of outside services, the deploys, the accounts and projects, the *)
(* devices that are pushed to, the database a start opens, the memories    *)
(* and what a turn is given of them, and the files of the model that       *)
(* embeds them.                                                            *)
(***************************************************************************)
EXTENDS MCStore, FiniteSetTheorems, SequenceTheorems, WellFoundedInduction, TLAPS

-----------------------------------------------------------------------------
(* Of any numbers one is the least. *)
LEMMA LeastOfNaturals ==
  ASSUME NEW T \in SUBSET Nat, T # {}
  PROVE  \E x \in T : \A y \in T : x <= y
<1> DEFINE R == OpToRel(<, Nat)
<1>1. \A x, y \in Nat : x < y => <<x, y>> \in R
  BY DEF OpToRel
<1>2. IsWellFoundedOn(R, Nat)
  BY NatLessThanWellFounded
<1> HIDE DEF R
<1>3. PICK x \in T : \A y \in T : ~(<<y, x>> \in R)
  BY <1>2, WFMin
<1>4. ASSUME NEW y \in T
      PROVE  x <= y
  <2>1. ~(y < x)
    BY <1>1, <1>3
  <2> QED
    BY <2>1
<1> QED
  BY <1>4

-----------------------------------------------------------------------------
(* What a request over a grant or a token may be in the middle of. *)
AtGrant == [at : {"refresh", "expire", "register"}, tokens : Tokens!Grant]
Saving == [at : {"save"}, again : BOOLEAN, tokens : Tokens!Grant]
AtGitHub == [at : {"token", "source"}, is : {"none", "oauth", "pat"}, flow : 0 .. MaxFlows]
TokenStates ==
  [at : {"idle", "exchange"}] \cup AtGrant \cup Saving \cup AtGitHub
    \cup [at : {"poll"}, flow : 1 .. MaxFlows]

TokenTypes ==
  /\ grant \in Tokens!Grant /\ issued \in 0 .. MaxTokens /\ valid \subseteq 1 .. issued
  /\ begun \in 0 .. MaxFlows /\ flows \subseteq 1 .. begun
  /\ codes \in 0 .. MaxFlows /\ devices \subseteq 1 .. codes
  /\ token \in {"none", "oauth", "pat"} /\ source \in {"none", "oauth", "pat"}
  /\ writing \in [Clients -> TokenStates]
FlagTypes ==
  forgot \in BOOLEAN /\ mixed \in BOOLEAN /\ lost \in BOOLEAN /\ torn \in BOOLEAN

Same(copy, g) ==
  /\ copy.client = g.client /\ copy.access = g.access
  /\ copy.refresh = g.refresh /\ copy.renewable = g.renewable

(* While no two requests met, a copy is of the grant that is stored... *)
CopiesAgree ==
  \A c \in Clients : writing[c].at \in {"refresh", "expire", "register"} =>
    Same(writing[c].tokens, grant)
Renewable(g) == g.renewable => g.refresh \in valid
(* ... what one request is to save can be renewed, and so can what is stored when
   none is... *)
OneSaves(c) == writing[c].at = "save" /\ \A d \in Clients \ {c} : writing[d].at # "save"
SavedRenews == \A c \in Clients : OneSaves(c) => Renewable(writing[c].tokens)
StoredRenews == (\A c \in Clients : writing[c].at # "save") => Renewable(grant)
(* ... and a grant that was forgotten is nobody's to refresh. *)
ForgottenStays ==
  forgot => /\ grant.access = 0 /\ grant.refresh = 0
            /\ \A c \in Clients : writing[c].at # "refresh"
            /\ \A c \in Clients : writing[c].at = "save" => ~writing[c].again
GrantHeld ==
  ~mixed /\ ~lost => CopiesAgree /\ SavedRenews /\ StoredRenews /\ ForgottenStays

(* While no two requests write a token, the one that is half way wrote it. *)
HalfWay ==
  ~torn => /\ \A c \in Clients : writing[c].at = "source" => writing[c].is = token
           /\ (\A c \in Clients : writing[c].at # "source") => source = token

TokensIInv == TokenTypes /\ FlagTypes /\ GrantHeld /\ HalfWay

LEMMA TokensInit == Tokens!Init => TokensIInv
<1> SUFFICES ASSUME Tokens!Init
             PROVE  TokensIInv
  OBVIOUS
<1>1. FlagTypes
  BY Zenon DEF Tokens!Init, FlagTypes
<1>2. Tokens!NoGrant \in Tokens!Grant
  BY TokensAssumption DEF Tokens!NoGrant, Tokens!Grant
<1>3. TokenTypes
  BY <1>2, TokensAssumption DEF Tokens!Init, TokenTypes, TokenStates, Tokens!Idle
<1>4. GrantHeld /\ HalfWay
  BY DEF Tokens!Init, GrantHeld, HalfWay, CopiesAgree, SavedRenews, OneSaves, StoredRenews,
         Renewable, ForgottenStays, Tokens!Idle, Tokens!NoGrant
<1> QED
  BY <1>1, <1>3, <1>4 DEF TokensIInv

LEMMA TokenTypesStep == TokenTypes /\ FlagTypes /\ [Tokens!Next]_tokenVars => TokenTypes' /\ FlagTypes'
<1> SUFFICES ASSUME TokenTypes, FlagTypes, [Tokens!Next]_tokenVars
             PROVE  TokenTypes' /\ FlagTypes'
  OBVIOUS
<1> USE TokensAssumption DEF TokenTypes, TokenStates, AtGrant, Saving, AtGitHub, Tokens!Grant,
     Tokens!grantVars, Tokens!githubVars, Tokens!flagVars, Tokens!Becomes, Tokens!Idle,
     Tokens!Store
<1>1. CASE Tokens!GrantExpires
  BY <1>1 DEF Tokens!GrantExpires, FlagTypes
<1>2. CASE Tokens!DeviceStart
  BY <1>2 DEF Tokens!DeviceStart, FlagTypes
<1>3. CASE Tokens!Restart
  BY <1>3 DEF Tokens!Restart, FlagTypes
<1>4. ASSUME NEW c \in Clients, Tokens!AccessToken(c)
      PROVE  TokenTypes' /\ FlagTypes'
  BY <1>4 DEF Tokens!AccessToken, FlagTypes
<1>5. ASSUME NEW c \in Clients, Tokens!Refresh(c)
      PROVE  TokenTypes' /\ FlagTypes'
  <2>1. CASE Tokens!Becomes(c, Tokens!Idle) /\ UNCHANGED <<issued, valid>>
    BY <1>5, <2>1 DEF Tokens!Refresh, FlagTypes
  <2> DEFINE old == writing[c].tokens
  <2>2. ASSUME issued < MaxTokens, issued' = issued + 1, NEW new \in {0, issued'},
               valid' = IF new = 0 THEN valid ELSE (valid \ {old.refresh}) \cup {new},
               writing' = [writing EXCEPT ![c] =
                 [at |-> "save", again |-> TRUE,
                  tokens |-> [old EXCEPT !.access = issued', !.fresh = TRUE,
                                         !.refresh = Tokens!SentOrOld(old.refresh, new)]]]
        PROVE  TokenTypes' /\ FlagTypes'
    <3>1. issued' \in 0 .. MaxTokens /\ new \in 0 .. MaxTokens
      BY <2>2
    <3>2. old \in Tokens!Grant
      BY <1>5 DEF Tokens!Refresh
    <3>3. [old EXCEPT !.access = issued', !.fresh = TRUE,
                      !.refresh = Tokens!SentOrOld(old.refresh, new)] \in Tokens!Grant
      BY <3>1, <3>2 DEF Tokens!SentOrOld
    <3>4. writing' \in [Clients -> TokenStates]
      BY <2>2, <3>3
    <3>5. valid' \subseteq 1 .. issued'
      BY <2>2
    <3> QED
      BY <1>5, <2>2, <3>1, <3>4, <3>5 DEF Tokens!Refresh, FlagTypes
  <2> QED
    BY <1>5, <2>1, <2>2 DEF Tokens!Refresh
<1>6. ASSUME NEW c \in Clients, Tokens!SaveTokens(c)
      PROVE  TokenTypes' /\ FlagTypes'
  BY <1>6 DEF Tokens!SaveTokens, FlagTypes
<1>7. ASSUME NEW c \in Clients, Tokens!InvalidateReads(c)
      PROVE  TokenTypes' /\ FlagTypes'
  BY <1>7 DEF Tokens!InvalidateReads, FlagTypes
<1>8. ASSUME NEW c \in Clients, Tokens!InvalidateSaves(c)
      PROVE  TokenTypes' /\ FlagTypes'
  BY <1>8 DEF Tokens!InvalidateSaves, FlagTypes
<1>9. ASSUME NEW c \in Clients, Tokens!StartReads(c)
      PROVE  TokenTypes' /\ FlagTypes'
  <2>1. begun' \in 0 .. MaxFlows /\ flows' \subseteq 1 .. begun'
    <3>1. \/ begun' = begun + 1 /\ flows' = flows \cup {begun'}
          \/ UNCHANGED <<begun, flows>>
      BY <1>9, Zenon DEF Tokens!StartReads
    <3>2. begun < MaxFlows
      BY <1>9 DEF Tokens!StartReads
    <3>3. begun \in Nat /\ begun \in 0 .. MaxFlows /\ flows \subseteq 1 .. begun
      OBVIOUS
    <3>4. CASE begun' = begun + 1 /\ flows' = flows \cup {begun'}
      BY <3>2, <3>3, <3>4
    <3> QED
      BY <3>1, <3>3, <3>4
  <2>2. [at |-> "register", tokens |-> grant] \in AtGrant
    OBVIOUS
  <2>3. writing' \in [Clients -> TokenStates]
    BY <1>9, <2>2 DEF Tokens!StartReads
  <2> QED
    BY <1>9, <2>1, <2>3 DEF Tokens!StartReads, FlagTypes
<1>10. ASSUME NEW c \in Clients, Tokens!StartRegisters(c)
       PROVE  TokenTypes' /\ FlagTypes'
  <2>1. [writing[c].tokens EXCEPT !.client = TRUE] \in Tokens!Grant
    BY <1>10 DEF Tokens!StartRegisters
  <2>2. grant' \in Tokens!Grant /\ mixed' \in BOOLEAN
    BY <1>10, <2>1 DEF Tokens!StartRegisters, FlagTypes
  <2>3. begun' \in 0 .. MaxFlows /\ flows' \subseteq 1 .. begun'
    BY <1>10 DEF Tokens!StartRegisters
  <2>4. writing' \in [Clients -> TokenStates]
    BY <1>10 DEF Tokens!StartRegisters
  <2> QED
    BY <1>10, <2>2, <2>3, <2>4 DEF Tokens!StartRegisters, FlagTypes
<1>11. ASSUME NEW c \in Clients, NEW f \in 1 .. MaxFlows, Tokens!CallbackTakes(c, f)
       PROVE  TokenTypes' /\ FlagTypes'
  BY <1>11 DEF Tokens!CallbackTakes, FlagTypes
<1>12. ASSUME NEW c \in Clients, Tokens!Exchange(c)
       PROVE  TokenTypes' /\ FlagTypes'
  <2>1. CASE Tokens!Becomes(c, Tokens!Idle) /\ UNCHANGED <<issued, valid>>
    BY <1>12, <2>1 DEF Tokens!Exchange, FlagTypes
  <2>2. ASSUME issued < MaxTokens, issued' = issued + 1,
               NEW new \in {0, issued'}, valid' = valid \cup ({new} \ {0}),
               writing' = [writing EXCEPT ![c] =
                 [at |-> "save", again |-> FALSE,
                  tokens |-> [client |-> TRUE, access |-> issued', fresh |-> TRUE,
                              refresh |-> new, renewable |-> new # 0]]]
        PROVE  TokenTypes' /\ FlagTypes'
    <3>1. issued' \in 0 .. MaxTokens /\ new \in 0 .. MaxTokens
      BY <2>2
    <3>2. [client |-> TRUE, access |-> issued', fresh |-> TRUE,
           refresh |-> new, renewable |-> new # 0] \in Tokens!Grant
      BY <3>1
    <3>3. writing' \in [Clients -> TokenStates]
      BY <2>2, <3>2
    <3> QED
      BY <1>12, <2>2, <3>1, <3>3 DEF Tokens!Exchange, FlagTypes
  <2> QED
    BY <1>12, <2>1, <2>2 DEF Tokens!Exchange
<1>13. ASSUME NEW c \in Clients, Tokens!Disconnect(c)
       PROVE  TokenTypes' /\ FlagTypes'
  BY <1>13 DEF Tokens!Disconnect, Tokens!NoGrant, FlagTypes
<1>14. ASSUME NEW c \in Clients, NEW f \in 1 .. MaxFlows, Tokens!DevicePoll(c, f)
       PROVE  TokenTypes' /\ FlagTypes'
  <2>1. [at |-> "poll", flow |-> f] \in [at : {"poll"}, flow : 1 .. MaxFlows]
    OBVIOUS
  <2>2. writing' \in [Clients -> TokenStates]
    BY <1>14, <2>1 DEF Tokens!DevicePoll
  <2>3. devices' \subseteq 1 .. codes
    BY <1>14 DEF Tokens!DevicePoll
  <2> QED
    BY <1>14, <2>2, <2>3 DEF Tokens!DevicePoll, FlagTypes
<1>15. ASSUME NEW c \in Clients, Tokens!DeviceAnswer(c)
       PROVE  TokenTypes' /\ FlagTypes'
  <2>1. writing[c].flow \in 1 .. MaxFlows
    BY <1>15 DEF Tokens!DeviceAnswer
  <2>2. [at |-> "token", is |-> "oauth", flow |-> writing[c].flow] \in AtGitHub
    BY <2>1
  <2>3. writing' \in [Clients -> TokenStates]
    BY <1>15, <2>2 DEF Tokens!DeviceAnswer
  <2> QED
    BY <1>15, <2>3 DEF Tokens!DeviceAnswer, FlagTypes
<1>16. ASSUME NEW c \in Clients, Tokens!PutToken(c)
       PROVE  TokenTypes' /\ FlagTypes'
  BY <1>16 DEF Tokens!PutToken, FlagTypes
<1>17. ASSUME NEW c \in Clients, Tokens!WriteToken(c)
       PROVE  TokenTypes' /\ FlagTypes'
  <2>1. writing[c] \in AtGitHub
    BY <1>17 DEF Tokens!WriteToken
  <2>2. [writing[c] EXCEPT !.at = "source"] \in AtGitHub
    BY <2>1
  <2>3. writing' \in [Clients -> TokenStates]
    BY <1>17, <2>2 DEF Tokens!WriteToken
  <2>4. token' \in {"none", "oauth", "pat"}
    BY <1>17, <2>1 DEF Tokens!WriteToken
  <2>5. FlagTypes'
    BY <1>17 DEF Tokens!WriteToken, FlagTypes
  <2> QED
    BY <1>17, <2>3, <2>4, <2>5 DEF Tokens!WriteToken
<1>18. ASSUME NEW c \in Clients, Tokens!WriteSource(c)
       PROVE  TokenTypes' /\ FlagTypes'
  BY <1>18 DEF Tokens!WriteSource, Tokens!SourceOf, FlagTypes
<1>19. CASE UNCHANGED tokenVars
  BY <1>19 DEF tokenVars, FlagTypes
<1> QED
  BY <1>1, <1>2, <1>3, <1>4, <1>5, <1>6, <1>7, <1>8, <1>9, <1>10, <1>11, <1>12, <1>13, <1>14,
     <1>15, <1>16, <1>17, <1>18, <1>19 DEF Tokens!Next

LEMMA GrantHeldStep ==
  TokenTypes /\ FlagTypes /\ GrantHeld /\ [Tokens!Next]_tokenVars => GrantHeld'
<1> SUFFICES ASSUME TokenTypes, FlagTypes, GrantHeld, [Tokens!Next]_tokenVars, ~mixed', ~lost'
             PROVE  CopiesAgree' /\ SavedRenews' /\ StoredRenews' /\ ForgottenStays'
  BY DEF GrantHeld
<1> USE TokensAssumption DEF Tokens!grantVars, Tokens!githubVars, Tokens!flagVars, Tokens!Becomes,
     Tokens!Store, CopiesAgree, Same, SavedRenews, OneSaves, StoredRenews, ForgottenStays,
     Renewable
<1>a. writing \in [Clients -> TokenStates] /\ grant \in Tokens!Grant /\ issued \in Nat
        /\ valid \subseteq 1 .. issued
  BY DEF TokenTypes
<1>1. CASE Tokens!GrantExpires
  BY <1>1, <1>a DEF Tokens!GrantExpires, GrantHeld, Tokens!Grant
<1>2. CASE Tokens!DeviceStart
  BY <1>2, <1>a DEF Tokens!DeviceStart, GrantHeld
<1>3. CASE Tokens!Restart
  BY <1>3, <1>a DEF Tokens!Restart, GrantHeld, Tokens!Idle
<1>4. ASSUME NEW c \in Clients, Tokens!AccessToken(c)
      PROVE  CopiesAgree' /\ SavedRenews' /\ StoredRenews' /\ ForgottenStays'
  BY <1>4, <1>a DEF Tokens!AccessToken, GrantHeld, Tokens!Idle
<1>5. ASSUME NEW c \in Clients, Tokens!Refresh(c)
      PROVE  CopiesAgree' /\ SavedRenews' /\ StoredRenews' /\ ForgottenStays'
  <2>1. CASE Tokens!Becomes(c, Tokens!Idle) /\ UNCHANGED <<issued, valid>>
    BY <1>5, <1>a, <2>1 DEF Tokens!Refresh, GrantHeld, Tokens!Idle
  <2> DEFINE old == writing[c].tokens
  <2>2. ASSUME old.refresh \in valid, issued' = issued + 1, NEW new \in {0, issued'},
               valid' = IF new = 0 THEN valid ELSE (valid \ {old.refresh}) \cup {new},
               writing' = [writing EXCEPT ![c] =
                 [at |-> "save", again |-> TRUE,
                  tokens |-> [old EXCEPT !.access = issued', !.fresh = TRUE,
                                         !.refresh = Tokens!SentOrOld(old.refresh, new)]]]
        PROVE  CopiesAgree' /\ SavedRenews' /\ StoredRenews' /\ ForgottenStays'
    <3>1. UNCHANGED <<grant, mixed, lost, forgot>> /\ writing[c].at = "refresh"
      BY <1>5 DEF Tokens!Refresh
    <3>2. old \in Tokens!Grant
      BY <3>1, <1>a DEF TokenStates, AtGrant, Saving, AtGitHub
    <3>3. /\ \A d \in Clients \ {c} : writing'[d] = writing[d]
          /\ writing'[c].at = "save"
          /\ writing'[c].tokens.refresh \in valid'
      BY <2>2, <3>2, <1>a DEF Tokens!SentOrOld, Tokens!Grant
    <3> QED
      BY <3>1, <3>3 DEF GrantHeld
  <2> QED
    BY <1>5, <2>1, <2>2 DEF Tokens!Refresh
<1>6. ASSUME NEW c \in Clients, Tokens!SaveTokens(c)
      PROVE  CopiesAgree' /\ SavedRenews' /\ StoredRenews' /\ ForgottenStays'
  BY <1>6, <1>a DEF Tokens!SaveTokens, GrantHeld, Tokens!Holds, Tokens!Idle
<1>7. ASSUME NEW c \in Clients, Tokens!InvalidateReads(c)
      PROVE  CopiesAgree' /\ SavedRenews' /\ StoredRenews' /\ ForgottenStays'
  BY <1>7, <1>a DEF Tokens!InvalidateReads, GrantHeld, Tokens!Idle
<1>8. ASSUME NEW c \in Clients, Tokens!InvalidateSaves(c)
      PROVE  CopiesAgree' /\ SavedRenews' /\ StoredRenews' /\ ForgottenStays'
  <2>1. writing[c].tokens \in Tokens!Grant
    BY <1>8, <1>a DEF Tokens!InvalidateSaves, TokenStates, AtGrant, Saving, AtGitHub
  <2>2. ~mixed /\ ~lost
    BY <1>8, Zenon DEF Tokens!InvalidateSaves
  <2>3. /\ \A d \in Clients \ {c} : writing'[d] = writing[d]
        /\ writing'[c].at = "idle"
    BY <1>8, <1>a DEF Tokens!InvalidateSaves, Tokens!Idle
  <2>4. ASSUME \A d \in Clients \ {c} : ~Tokens!Holds(d),
               grant' = [writing[c].tokens EXCEPT !.fresh = FALSE]
        PROVE  CopiesAgree' /\ SavedRenews' /\ StoredRenews' /\ ForgottenStays'
    <3>1. writing[c].at = "expire" /\ UNCHANGED <<valid, forgot>>
      BY <1>8 DEF Tokens!InvalidateSaves
    <3>2. /\ grant'.access = grant.access /\ grant'.refresh = grant.refresh
          /\ grant'.renewable = grant.renewable
      BY <2>1, <2>2, <2>4, <3>1 DEF GrantHeld, Tokens!Grant
    <3> QED
      BY <2>2, <2>3, <2>4, <3>1, <3>2 DEF GrantHeld, Tokens!Holds
  <2>5. /\ \A d \in Clients \ {c} : ~Tokens!Holds(d)
        /\ grant' = [writing[c].tokens EXCEPT !.fresh = FALSE]
    BY <1>8, Zenon DEF Tokens!InvalidateSaves
  <2> QED
    BY <2>4, <2>5
<1>9. ASSUME NEW c \in Clients, Tokens!StartReads(c)
      PROVE  CopiesAgree' /\ SavedRenews' /\ StoredRenews' /\ ForgottenStays'
  BY <1>9, <1>a DEF Tokens!StartReads, GrantHeld, Tokens!Idle
<1>10. ASSUME NEW c \in Clients, Tokens!StartRegisters(c)
       PROVE  CopiesAgree' /\ SavedRenews' /\ StoredRenews' /\ ForgottenStays'
  <2>1. writing[c].tokens \in Tokens!Grant
    BY <1>10, <1>a DEF Tokens!StartRegisters, TokenStates, AtGrant, Saving, AtGitHub
  <2>2. ~mixed /\ ~lost
    <3>1. /\ UNCHANGED lost
          /\ UNCHANGED mixed \/ mixed' = (mixed \/ \E d \in Clients \ {c} : Tokens!Holds(d))
      BY <1>10 DEF Tokens!StartRegisters
    <3>2. ASSUME mixed' = (mixed \/ \E d \in Clients \ {c} : Tokens!Holds(d))
          PROVE  ~mixed
      BY <3>2, Zenon
    <3>3. ASSUME UNCHANGED mixed
          PROVE  ~mixed
      BY <3>3
    <3>4. ~lost
      BY <3>1
    <3> QED
      BY <3>1, <3>2, <3>3, <3>4
  <2>3. /\ \A d \in Clients \ {c} : writing'[d] = writing[d]
        /\ writing'[c].at = "idle"
    BY <1>10, <1>a DEF Tokens!StartRegisters, Tokens!Idle
  <2>4. ASSUME \A d \in Clients \ {c} : ~Tokens!Holds(d),
               grant' = [writing[c].tokens EXCEPT !.client = TRUE]
        PROVE  CopiesAgree' /\ SavedRenews' /\ StoredRenews' /\ ForgottenStays'
    <3>1. writing[c].at = "register" /\ UNCHANGED <<valid, forgot>>
      BY <1>10 DEF Tokens!StartRegisters
    <3>2. /\ grant'.access = grant.access /\ grant'.refresh = grant.refresh
          /\ grant'.renewable = grant.renewable
      BY <2>1, <2>2, <2>4, <3>1 DEF GrantHeld, Tokens!Grant
    <3>3. \A d \in Clients : writing'[d].at \notin {"refresh", "save", "expire", "register"}
      BY <2>3, <2>4 DEF Tokens!Holds
    <3>4. StoredRenews'
      BY <2>2, <3>1, <3>2, <3>3, <2>4 DEF GrantHeld, Tokens!Holds
    <3>5. forgot' => grant'.access = 0 /\ grant'.refresh = 0
      BY <2>2, <3>1, <3>2 DEF GrantHeld
    <3> QED
      BY <3>3, <3>4, <3>5
  <2>5. CASE UNCHANGED grant
    BY <1>10, <2>2, <2>3, <2>5 DEF Tokens!StartRegisters, GrantHeld
  <2>6. UNCHANGED grant \/ (/\ \A d \in Clients \ {c} : ~Tokens!Holds(d)
                            /\ grant' = [writing[c].tokens EXCEPT !.client = TRUE])
    <3>1. UNCHANGED grant \/ Tokens!Store(c, [writing[c].tokens EXCEPT !.client = TRUE])
      BY <1>10 DEF Tokens!StartRegisters
    <3>2. CASE Tokens!Store(c, [writing[c].tokens EXCEPT !.client = TRUE])
      BY <3>2, Zenon
    <3> QED
      BY <3>1, <3>2
  <2> QED
    BY <2>4, <2>5, <2>6
<1>11. ASSUME NEW c \in Clients, NEW f \in 1 .. MaxFlows, Tokens!CallbackTakes(c, f)
       PROVE  CopiesAgree' /\ SavedRenews' /\ StoredRenews' /\ ForgottenStays'
  BY <1>11, <1>a DEF Tokens!CallbackTakes, GrantHeld, Tokens!Idle
<1>12. ASSUME NEW c \in Clients, Tokens!Exchange(c)
       PROVE  CopiesAgree' /\ SavedRenews' /\ StoredRenews' /\ ForgottenStays'
  <2>1. CASE Tokens!Becomes(c, Tokens!Idle) /\ UNCHANGED <<issued, valid>>
    BY <1>12, <1>a, <2>1 DEF Tokens!Exchange, GrantHeld, Tokens!Idle
  <2>2. ASSUME NEW new \in {0, issued'}, issued' = issued + 1, valid' = valid \cup ({new} \ {0}),
               writing' = [writing EXCEPT ![c] =
                 [at |-> "save", again |-> FALSE,
                  tokens |-> [client |-> TRUE, access |-> issued', fresh |-> TRUE,
                              refresh |-> new, renewable |-> new # 0]]]
        PROVE  CopiesAgree' /\ SavedRenews' /\ StoredRenews' /\ ForgottenStays'
    <3>1. UNCHANGED <<grant, mixed, lost, forgot>> /\ writing[c].at = "exchange"
      BY <1>12 DEF Tokens!Exchange
    <3>2. /\ \A d \in Clients \ {c} : writing'[d] = writing[d]
          /\ writing'[c].at = "save" /\ ~writing'[c].again
          /\ writing'[c].tokens.renewable => writing'[c].tokens.refresh \in valid'
      BY <2>2, <1>a
    <3> QED
      BY <3>1, <3>2 DEF GrantHeld
  <2> QED
    BY <1>12, <2>1, <2>2 DEF Tokens!Exchange
<1>13. ASSUME NEW c \in Clients, Tokens!Disconnect(c)
       PROVE  CopiesAgree' /\ SavedRenews' /\ StoredRenews' /\ ForgottenStays'
  <2>1. ~mixed /\ ~lost /\ \A d \in Clients \ {c} : ~Tokens!Holds(d)
    BY <1>13, Zenon DEF Tokens!Disconnect
  <2>2. UNCHANGED <<writing, valid>> /\ writing[c] = Tokens!Idle /\ grant' = Tokens!NoGrant
    BY <1>13 DEF Tokens!Disconnect
  <2> QED
    <3>1. grant'.access = 0 /\ grant'.refresh = 0 /\ ~grant'.renewable
      BY <2>2 DEF Tokens!NoGrant
    <3>2. \A d \in Clients : writing'[d].at \notin {"refresh", "save", "expire", "register"}
      BY <2>1, <2>2 DEF Tokens!Holds, Tokens!Idle
    <3> QED
      BY <3>1, <3>2
<1>14. ASSUME NEW c \in Clients, NEW f \in 1 .. MaxFlows, Tokens!DevicePoll(c, f)
       PROVE  CopiesAgree' /\ SavedRenews' /\ StoredRenews' /\ ForgottenStays'
  BY <1>14, <1>a DEF Tokens!DevicePoll, GrantHeld, Tokens!Idle
<1>15. ASSUME NEW c \in Clients, Tokens!DeviceAnswer(c)
       PROVE  CopiesAgree' /\ SavedRenews' /\ StoredRenews' /\ ForgottenStays'
  BY <1>15, <1>a DEF Tokens!DeviceAnswer, GrantHeld, Tokens!Idle
<1>16. ASSUME NEW c \in Clients, Tokens!PutToken(c)
       PROVE  CopiesAgree' /\ SavedRenews' /\ StoredRenews' /\ ForgottenStays'
  BY <1>16, <1>a DEF Tokens!PutToken, GrantHeld, Tokens!Idle
<1>17. ASSUME NEW c \in Clients, Tokens!WriteToken(c)
       PROVE  CopiesAgree' /\ SavedRenews' /\ StoredRenews' /\ ForgottenStays'
  <2>1. writing[c] \in AtGitHub
    BY <1>17, <1>a DEF Tokens!WriteToken, TokenStates, AtGrant, Saving, AtGitHub
  <2>2. /\ \A d \in Clients \ {c} : writing'[d] = writing[d]
        /\ writing'[c].at \in {"source", "idle"}
    BY <1>17, <1>a, <2>1 DEF Tokens!WriteToken, AtGitHub, Tokens!Idle
  <2>3. UNCHANGED <<grant, valid, mixed, lost, forgot>> /\ writing[c].at = "token"
    BY <1>17 DEF Tokens!WriteToken
  <2> QED
    BY <2>2, <2>3 DEF GrantHeld
<1>18. ASSUME NEW c \in Clients, Tokens!WriteSource(c)
       PROVE  CopiesAgree' /\ SavedRenews' /\ StoredRenews' /\ ForgottenStays'
  BY <1>18, <1>a DEF Tokens!WriteSource, GrantHeld, Tokens!Idle
<1>19. CASE UNCHANGED tokenVars
  BY <1>19, <1>a DEF tokenVars, GrantHeld
<1> QED
  BY <1>1, <1>2, <1>3, <1>4, <1>5, <1>6, <1>7, <1>8, <1>9, <1>10, <1>11, <1>12, <1>13, <1>14,
     <1>15, <1>16, <1>17, <1>18, <1>19 DEF Tokens!Next

LEMMA HalfWayStep == TokenTypes /\ FlagTypes /\ HalfWay /\ [Tokens!Next]_tokenVars => HalfWay'
<1> SUFFICES ASSUME TokenTypes, FlagTypes, HalfWay, [Tokens!Next]_tokenVars
             PROVE  HalfWay'
  OBVIOUS
<1> USE DEF Tokens!grantVars, Tokens!githubVars, Tokens!flagVars, Tokens!Becomes, HalfWay,
     Tokens!Store, Tokens!Idle
<1>a. writing \in [Clients -> TokenStates]
  BY DEF TokenTypes
<1>1. CASE Tokens!GrantExpires \/ Tokens!DeviceStart \/ Tokens!Restart
  <2>1. CASE Tokens!GrantExpires \/ Tokens!DeviceStart
    BY <2>1 DEF Tokens!GrantExpires, Tokens!DeviceStart
  <2>2. CASE Tokens!Restart
    <3>1. ~torn' => ~torn /\ \A c \in Clients : writing[c].at # "source"
      BY <2>2, Zenon DEF Tokens!Restart
    <3> QED
      BY <2>2, <3>1 DEF Tokens!Restart
  <2> QED
    BY <1>1, <2>1, <2>2
<1>2. ASSUME NEW c \in Clients,
             Tokens!AccessToken(c) \/ Tokens!Refresh(c) \/ Tokens!SaveTokens(c)
      PROVE  HalfWay'
  BY <1>2, <1>a DEF Tokens!AccessToken, Tokens!Refresh, Tokens!SaveTokens
<1>3. ASSUME NEW c \in Clients, Tokens!InvalidateReads(c) \/ Tokens!InvalidateSaves(c)
      PROVE  HalfWay'
  BY <1>3, <1>a DEF Tokens!InvalidateReads, Tokens!InvalidateSaves
<1>4. ASSUME NEW c \in Clients, Tokens!StartReads(c) \/ Tokens!StartRegisters(c)
      PROVE  HalfWay'
  BY <1>4, <1>a DEF Tokens!StartReads, Tokens!StartRegisters
<1>5. ASSUME NEW c \in Clients, Tokens!Exchange(c) \/ Tokens!Disconnect(c)
      PROVE  HalfWay'
  BY <1>5, <1>a DEF Tokens!Exchange, Tokens!Disconnect
<1>6. ASSUME NEW c \in Clients, NEW f \in 1 .. MaxFlows,
             Tokens!CallbackTakes(c, f) \/ Tokens!DevicePoll(c, f)
      PROVE  HalfWay'
  BY <1>6, <1>a DEF Tokens!CallbackTakes, Tokens!DevicePoll
<1>7. ASSUME NEW c \in Clients, Tokens!DeviceAnswer(c) \/ Tokens!PutToken(c)
      PROVE  HalfWay'
  BY <1>7, <1>a DEF Tokens!DeviceAnswer, Tokens!PutToken
<1>8. ASSUME NEW c \in Clients, Tokens!WriteToken(c)
      PROVE  HalfWay'
  <2>1. writing[c] \in AtGitHub
    BY <1>8, <1>a DEF Tokens!WriteToken, TokenStates, AtGrant, Saving, AtGitHub
  <2>2. CASE Tokens!Becomes(c, Tokens!Idle) /\ UNCHANGED <<token, torn>>
    BY <1>8, <1>a, <2>2 DEF Tokens!WriteToken
  <2>3. ASSUME ~torn', token' = writing[c].is,
               Tokens!Becomes(c, [writing[c] EXCEPT !.at = "source"]),
               torn' = (torn \/ \E d \in Clients \ {c} : Tokens!WritesGitHub(d))
        PROVE  HalfWay'
    <3>1. \A d \in Clients \ {c} : ~Tokens!WritesGitHub(d)
      BY <2>3, Zenon
    <3>2. \A d \in Clients \ {c} : writing'[d] = writing[d]
      BY <2>3, <1>a
    <3>3. writing'[c].at = "source" /\ writing'[c].is = token'
      BY <2>1, <2>3, <1>a DEF AtGitHub
    <3> QED
      BY <3>1, <3>2, <3>3 DEF Tokens!WritesGitHub
  <2> QED
    BY <1>8, <2>2, <2>3 DEF Tokens!WriteToken
<1>9. ASSUME NEW c \in Clients, Tokens!WriteSource(c)
      PROVE  HalfWay'
  BY <1>9, <1>a DEF Tokens!WriteSource, Tokens!SourceOf
<1>10. CASE UNCHANGED tokenVars
  BY <1>10 DEF tokenVars
<1> QED
  BY <1>1, <1>2, <1>3, <1>4, <1>5, <1>6, <1>7, <1>8, <1>9, <1>10 DEF Tokens!Next

LEMMA TokensStep == TokensIInv /\ [Tokens!Next]_tokenVars => TokensIInv'
BY TokenTypesStep, GrantHeldStep, HalfWayStep DEF TokensIInv

(* AccessToken and handleMCPOAuthDisconnect: over refreshes that rotate the token or
   do not, failed saves and restarts, a grant that can be renewed stays so and one the
   user disconnected stays away, unless two requests met; githubTokenSource: the
   source is the stored token's. *)
THEOREM TokensAreHeld == PartsSpec => []TokensHold
<1>1. PartsInit => TokensIInv
  BY TokensInit DEF PartsInit
<1>2. TokensIInv /\ [PartsNext]_vars => TokensIInv'
  <2> SUFFICES ASSUME TokensIInv, [PartsNext]_vars
               PROVE  TokensIInv'
    OBVIOUS
  <2>1. CASE InTokens(Tokens!Next)
    BY <2>1, TokensStep DEF InTokens
  <2>2. CASE UNCHANGED tokenVars
    BY <2>2, TokensStep
  <2> QED
    BY <2>1, <2>2, Zenon
       DEF PartsNext, InPeople, InOpened, InWritten, InRead, InEmbedder, InDevices, InDeploys,
           vars, outsideVars
<1>3. TokensIInv => TokensHold
  <2> SUFFICES ASSUME TokensIInv
               PROVE  TokensHold
    OBVIOUS
  <2>1. {forgot, mixed, lost, torn} \subseteq BOOLEAN
    BY Zenon DEF TokensIInv, FlagTypes
  <2>2. Tokens!TypeOK
    BY <2>1 DEF TokensIInv, TokenTypes, TokenStates, AtGrant, Saving, AtGitHub, Tokens!TypeOK
  <2>3. Tokens!GrantUsable
    BY DEF TokensIInv, GrantHeld, StoredRenews, Renewable, ForgottenStays, Tokens!GrantUsable
  <2>4. Tokens!SourceIsTokens
    BY DEF TokensIInv, HalfWay, Tokens!SourceIsTokens
  <2> QED
    BY <2>2, <2>3, <2>4 DEF TokensHold
<1> QED
  BY <1>1, <1>2, <1>3, PTL DEF PartsSpec
-----------------------------------------------------------------------------
DeployIds == 1 .. nextDeploy - 1
FlowIds == 1 .. nextState - 1

DeployTypes ==
  /\ nextDeploy \in 1 .. MaxDeploys + 1
  /\ DOMAIN deployRow \subseteq DeployIds
  /\ deployRow \in [DOMAIN deployRow -> [state : {"BUILDING", "READY", "ERROR"}, owner : Owners]]
  /\ DOMAIN slot \subseteq Owners
  /\ slot \in [DOMAIN slot -> [id : DeployIds, state : {"BUILDING"} \cup Vercel!Terminal]]
  /\ DOMAIN worker \subseteq DeployIds
  /\ worker \in [DOMAIN worker -> [at : {"accepted", "upload", "poll", "ended", "failed"},
                                   owner : Owners]]
  /\ DOMAIN remote \subseteq DeployIds
  /\ remote \in [DOMAIN remote -> {"QUEUED"} \cup Vercel!Terminal]
  /\ unsaved \subseteq DeployIds

(* A goroutine has its row unless the store refused it, polls what Vercel has, and
   ends without an error where Vercel has ended. *)
WorkerHeld ==
  \A d \in DOMAIN worker :
    /\ d \in DOMAIN deployRow \cup unsaved
    /\ worker[d].at \in {"poll", "ended"} => d \in DOMAIN remote
    /\ worker[d].at = "ended" => remote[d] \in Vercel!Terminal

(* A row that builds has its goroutine, and one that is READY a deploy that ended. *)
RowHeld ==
  \A d \in DOMAIN deployRow :
    /\ deployRow[d].state = "BUILDING" => d \in DOMAIN worker \cup unsaved
    /\ deployRow[d].state = "READY" => d \in DOMAIN remote /\ remote[d] \in Vercel!Terminal

(* A slot that builds has the goroutine that will settle it; one that is READY has
   the row, or the goroutine that is to write it. *)
SlotHeld ==
  \A u \in DOMAIN slot :
    LET d == slot[u].id IN
      /\ slot[u].state = "BUILDING" =>
           d \in DOMAIN worker /\ worker[d].owner = u /\ worker[d].at \in {"upload", "poll"}
      /\ slot[u].state = "READY" =>
           /\ d \in DOMAIN remote /\ remote[d] \in Vercel!Terminal
           /\ d \in DOMAIN worker => worker[d].at = "ended"
           /\ d \notin DOMAIN worker \cup unsaved =>
                d \in DOMAIN deployRow /\ deployRow[d].state = "READY"

(* Of a user's rows one is the latest. *)
HasLatest ==
  \A u \in Owners : Vercel!Mine(u) # {} =>
    \E d \in Vercel!Mine(u) : \A e \in Vercel!Mine(u) : e <= d

FlowTypes ==
  /\ nextState \in 1 .. MaxStates + 1
  /\ DOMAIN state \subseteq FlowIds
  /\ state \in [DOMAIN state -> [owner : Owners, old : BOOLEAN]]
  /\ exchanging \subseteq [flow : FlowIds, owner : Owners, at : {"exchange", "source"},
                           again : BOOLEAN]
  /\ consumed \subseteq FlowIds /\ consumed \cap DOMAIN state = {}
  /\ DOMAIN vercel = Owners

DeploysIInv ==
  DeployTypes /\ WorkerHeld /\ RowHeld /\ SlotHeld /\ HasLatest /\ FlowTypes /\ Vercel!FlowOnce

LEMMA DeploysInit == Vercel!Init => DeploysIInv
<1> SUFFICES ASSUME Vercel!Init
             PROVE  DeploysIInv
  OBVIOUS
<1>1. DeployTypes
  BY DeploysAssumption DEF Vercel!Init, DeployTypes, DeployIds
<1>2. WorkerHeld /\ RowHeld /\ SlotHeld /\ HasLatest
  BY DEF Vercel!Init, WorkerHeld, RowHeld, SlotHeld, HasLatest, Vercel!Mine
<1>3. FlowTypes /\ Vercel!FlowOnce
  BY DeploysAssumption DEF Vercel!Init, FlowTypes, FlowIds, Vercel!FlowOnce
<1> QED
  BY <1>1, <1>2, <1>3 DEF DeploysIInv

RowsHeld == DeployTypes /\ WorkerHeld /\ RowHeld /\ SlotHeld
FlowsHeld == FlowTypes /\ Vercel!FlowOnce

LEMMA RowsHeldStep == RowsHeld /\ [Vercel!Next]_deployVars => RowsHeld'
<1> SUFFICES ASSUME RowsHeld, [Vercel!Next]_deployVars
             PROVE  RowsHeld'
  OBVIOUS
<1> USE DeploysAssumption DEF RowsHeld, DeployTypes, WorkerHeld, RowHeld, SlotHeld, DeployIds,
     Vercel!connectVars, Vercel!deployVars, Vercel!With, Vercel!Drop, Vercel!Ids,
     Vercel!Terminal
<1>1. ASSUME NEW u \in Owners, Vercel!Deploy(u)
      PROVE  RowsHeld'
  BY <1>1 DEF Vercel!Deploy
<1>2. ASSUME NEW d \in Vercel!Ids, Vercel!TakeSlot(d)
      PROVE  RowsHeld'
  BY <1>2 DEF Vercel!TakeSlot
<1>3. ASSUME NEW d \in Vercel!Ids, Vercel!Upload(d)
      PROVE  RowsHeld'
  BY <1>3 DEF Vercel!Upload
<1>4. ASSUME NEW d \in Vercel!Ids, Vercel!PollEnds(d)
      PROVE  RowsHeld'
  BY <1>4 DEF Vercel!PollEnds, Vercel!Settled
<1>5. ASSUME NEW d \in Vercel!Ids, Vercel!PollFails(d)
      PROVE  RowsHeld'
  BY <1>5 DEF Vercel!PollFails, Vercel!Settled
<1>6. ASSUME NEW d \in Vercel!Ids, Vercel!UpdateRow(d)
      PROVE  RowsHeld'
  BY <1>6 DEF Vercel!UpdateRow, Vercel!RowState
<1>7. ASSUME NEW d \in Vercel!Ids, NEW o \in Vercel!Terminal, Vercel!Builds(d, o)
      PROVE  RowsHeld'
  BY <1>7 DEF Vercel!Builds
<1>8. CASE Vercel!Restart
  <2>1. /\ DOMAIN deployRow' = DOMAIN deployRow
        /\ \A d \in DOMAIN deployRow :
             /\ deployRow'[d].owner = deployRow[d].owner
             /\ deployRow'[d].state \in {"READY", "ERROR"}
             /\ deployRow'[d].state = "READY" => deployRow[d].state = "READY"
        /\ deployRow' \in [DOMAIN deployRow -> [state : {"BUILDING", "READY", "ERROR"},
                                                owner : Owners]]
    <3> DEFINE row(d) == IF deployRow[d].state = "BUILDING"
                           THEN [deployRow[d] EXCEPT !.state = "ERROR"] ELSE deployRow[d]
    <3>1. deployRow' = [d \in DOMAIN deployRow |-> row(d)]
      BY <1>8 DEF Vercel!Restart, Vercel!Interrupted
    <3>2. \A d \in DOMAIN deployRow :
            /\ row(d) \in [state : {"BUILDING", "READY", "ERROR"}, owner : Owners]
            /\ row(d).owner = deployRow[d].owner
            /\ row(d).state \in {"READY", "ERROR"}
            /\ row(d).state = "READY" => deployRow[d].state = "READY"
      OBVIOUS
    <3> HIDE DEF row
    <3> QED
      BY <3>1, <3>2
  <2>2. /\ DOMAIN slot' = {} /\ slot' = <<>>
        /\ DOMAIN worker' = {} /\ worker' = <<>>
        /\ UNCHANGED <<remote, nextDeploy, unsaved>>
    BY <1>8 DEF Vercel!Restart
  <2>3. DeployTypes'
    BY <2>1, <2>2
  <2>4. RowHeld'
    BY <2>1, <2>2
  <2> QED
    BY <2>2, <2>3, <2>4
<1>9. CASE UNCHANGED Vercel!deployVars
  BY <1>9
<1>10. ASSUME NEW u \in Owners, Vercel!OAuthStart(u) \/ Vercel!PutToken(u) \/ Vercel!ClearToken(u)
       PROVE  UNCHANGED Vercel!deployVars
  BY <1>10 DEF Vercel!OAuthStart, Vercel!PutToken, Vercel!ClearToken
<1>11. ASSUME NEW s \in Vercel!States,
              Vercel!FlowExpires(s) \/ Vercel!CallbackNoSession(s)
                \/ \E u \in Owners : Vercel!Callback(s, u)
       PROVE  UNCHANGED Vercel!deployVars
  BY <1>11 DEF Vercel!FlowExpires, Vercel!CallbackNoSession, Vercel!Callback
<1>12. ASSUME NEW x \in exchanging,
              Vercel!ExchangeFails(x) \/ Vercel!StoreToken(x) \/ Vercel!StoreSource(x)
       PROVE  UNCHANGED Vercel!deployVars
  BY <1>12 DEF Vercel!ExchangeFails, Vercel!StoreToken, Vercel!StoreSource
<1>13. UNCHANGED deployVars => UNCHANGED Vercel!deployVars
  BY DEF deployVars
<1> HIDE DEF RowsHeld, Vercel!deployVars
<1> QED
  BY <1>1, <1>2, <1>3, <1>4, <1>5, <1>6, <1>7, <1>8, <1>9, <1>10, <1>11, <1>12, <1>13
     DEF Vercel!Next


LEMMA LatestStep == RowsHeld /\ HasLatest /\ [Vercel!Next]_deployVars => HasLatest'
<1> SUFFICES ASSUME RowsHeld, HasLatest, [Vercel!Next]_deployVars
             PROVE  HasLatest'
  OBVIOUS
<1> DEFINE SameOwners ==
      /\ DOMAIN deployRow' = DOMAIN deployRow
      /\ \A d \in DOMAIN deployRow : deployRow'[d].owner = deployRow[d].owner
<1>1. ASSUME NEW u \in Owners, Vercel!Deploy(u)
      PROVE  HasLatest'
  <2>1. CASE UNCHANGED deployRow
    BY <2>1 DEF HasLatest, Vercel!Mine
  <2>2. CASE deployRow' = Vercel!With(deployRow, nextDeploy, [state |-> "BUILDING", owner |-> u])
    <3>1. /\ DOMAIN deployRow' = DOMAIN deployRow \cup {nextDeploy}
          /\ deployRow'[nextDeploy].owner = u
          /\ \A d \in DOMAIN deployRow : deployRow'[d].owner = deployRow[d].owner
          /\ nextDeploy \in Nat /\ \A d \in DOMAIN deployRow : d \in Nat /\ d < nextDeploy
      BY <2>2 DEF Vercel!With, RowsHeld, DeployTypes, DeployIds
    <3>2. Vercel!Mine(u)' = Vercel!Mine(u) \cup {nextDeploy}
      BY <3>1 DEF Vercel!Mine
    <3>3. \A v \in Owners \ {u} : Vercel!Mine(v)' = Vercel!Mine(v)
      BY <3>1 DEF Vercel!Mine
    <3>4. \A v \in Owners : Vercel!Mine(v) \subseteq DOMAIN deployRow
      BY DEF Vercel!Mine
    <3>5. \A e \in Vercel!Mine(u)' : e <= nextDeploy
      BY <3>1, <3>2, <3>4
    <3> QED
      BY <3>2, <3>3, <3>5 DEF HasLatest
  <2> QED
    BY <1>1, <2>1, <2>2 DEF Vercel!Deploy
<1>2. ASSUME SameOwners
      PROVE  HasLatest'
  <2>1. \A u \in Owners : Vercel!Mine(u)' = Vercel!Mine(u)
    BY <1>2 DEF Vercel!Mine
  <2> QED
    BY <2>1 DEF HasLatest
<1>3. ASSUME NEW d \in Vercel!Ids,
             Vercel!TakeSlot(d) \/ Vercel!Upload(d) \/ Vercel!PollEnds(d) \/ Vercel!PollFails(d)
               \/ \E o \in Vercel!Terminal : Vercel!Builds(d, o)
      PROVE  SameOwners
  BY <1>3 DEF Vercel!TakeSlot, Vercel!Upload, Vercel!PollEnds, Vercel!PollFails, Vercel!Builds
<1>4. ASSUME NEW d \in Vercel!Ids, Vercel!UpdateRow(d)
      PROVE  SameOwners
  BY <1>4 DEF Vercel!UpdateRow, RowsHeld, DeployTypes
<1>5. ASSUME Vercel!Restart
      PROVE  SameOwners
  BY <1>5 DEF Vercel!Restart, Vercel!Interrupted, RowsHeld, DeployTypes
<1>6. ASSUME NEW u \in Owners, Vercel!OAuthStart(u) \/ Vercel!PutToken(u) \/ Vercel!ClearToken(u)
      PROVE  SameOwners
  BY <1>6 DEF Vercel!OAuthStart, Vercel!PutToken, Vercel!ClearToken, Vercel!deployVars
<1>7. ASSUME NEW s \in Vercel!States,
             Vercel!FlowExpires(s) \/ Vercel!CallbackNoSession(s)
               \/ \E u \in Owners : Vercel!Callback(s, u)
      PROVE  SameOwners
  BY <1>7 DEF Vercel!FlowExpires, Vercel!CallbackNoSession, Vercel!Callback, Vercel!deployVars
<1>8. ASSUME NEW x \in exchanging,
             Vercel!ExchangeFails(x) \/ Vercel!StoreToken(x) \/ Vercel!StoreSource(x)
      PROVE  SameOwners
  BY <1>8 DEF Vercel!ExchangeFails, Vercel!StoreToken, Vercel!StoreSource, Vercel!deployVars
<1>9. ASSUME UNCHANGED deployVars
      PROVE  SameOwners
  BY <1>9 DEF deployVars
<1> HIDE DEF SameOwners
<1> QED
  BY <1>1, <1>2, <1>3, <1>4, <1>5, <1>6, <1>7, <1>8, <1>9 DEF Vercel!Next

LEMMA FlowsHeldStep == FlowsHeld /\ [Vercel!Next]_deployVars => FlowsHeld'
<1> SUFFICES ASSUME FlowsHeld, [Vercel!Next]_deployVars
             PROVE  FlowsHeld'
  OBVIOUS
<1> USE DeploysAssumption DEF FlowsHeld, FlowTypes, FlowIds, Vercel!FlowOnce,
     Vercel!connectVars, Vercel!deployVars, Vercel!With, Vercel!Drop, Vercel!States
<1>1. ASSUME NEW u \in Owners, Vercel!OAuthStart(u)
      PROVE  FlowsHeld'
  BY <1>1 DEF Vercel!OAuthStart
<1>2. ASSUME NEW u \in Owners, Vercel!PutToken(u) \/ Vercel!ClearToken(u)
      PROVE  FlowsHeld'
  BY <1>2 DEF Vercel!PutToken, Vercel!ClearToken
<1>3. ASSUME NEW s \in Vercel!States, Vercel!FlowExpires(s)
      PROVE  FlowsHeld'
  BY <1>3 DEF Vercel!FlowExpires
<1>4. ASSUME NEW s \in Vercel!States, Vercel!CallbackNoSession(s)
      PROVE  FlowsHeld'
  BY <1>4 DEF Vercel!CallbackNoSession
<1>5. ASSUME NEW s \in Vercel!States, NEW u \in Owners, Vercel!Callback(s, u)
      PROVE  FlowsHeld'
  BY <1>5 DEF Vercel!Callback, Vercel!Consumed
<1>6. ASSUME NEW x \in exchanging, Vercel!ExchangeFails(x)
      PROVE  FlowsHeld'
  BY <1>6 DEF Vercel!ExchangeFails
<1>7. ASSUME NEW x \in exchanging, Vercel!StoreToken(x)
      PROVE  FlowsHeld'
  BY <1>7 DEF Vercel!StoreToken
<1>8. ASSUME NEW x \in exchanging, Vercel!StoreSource(x)
      PROVE  FlowsHeld'
  BY <1>8 DEF Vercel!StoreSource
<1>9. CASE Vercel!Restart
  BY <1>9 DEF Vercel!Restart
<1>10. CASE UNCHANGED Vercel!connectVars
  BY <1>10
<1>11. ASSUME NEW u \in Owners, Vercel!Deploy(u)
       PROVE  UNCHANGED Vercel!connectVars
  BY <1>11 DEF Vercel!Deploy
<1>12. ASSUME NEW d \in Vercel!Ids,
             Vercel!TakeSlot(d) \/ Vercel!Upload(d) \/ Vercel!PollEnds(d) \/ Vercel!PollFails(d)
               \/ Vercel!UpdateRow(d) \/ \E o \in Vercel!Terminal : Vercel!Builds(d, o)
       PROVE  UNCHANGED Vercel!connectVars
  BY <1>12 DEF Vercel!TakeSlot, Vercel!Upload, Vercel!PollEnds, Vercel!PollFails, Vercel!Builds,
               Vercel!UpdateRow
<1>13. UNCHANGED deployVars => UNCHANGED Vercel!connectVars
  BY DEF deployVars
<1> HIDE DEF FlowsHeld, Vercel!connectVars
<1> QED
  BY <1>1, <1>2, <1>3, <1>4, <1>5, <1>6, <1>7, <1>8, <1>9, <1>10, <1>11, <1>12, <1>13
     DEF Vercel!Next

LEMMA ActiveIs ==
  ASSUME HasLatest, NEW u \in Owners
  PROVE  \/ u \in DOMAIN slot /\ Vercel!Active(u) = slot[u]
         \/ Vercel!Active(u).state = "none"
         \/ \E d \in DOMAIN deployRow : Vercel!Active(u) = [id |-> d, state |-> deployRow[d].state]
<1>1. CASE u \in DOMAIN slot \/ Vercel!Mine(u) = {}
  BY <1>1 DEF Vercel!Active
<1>2. CASE u \notin DOMAIN slot /\ Vercel!Mine(u) # {}
  <2> DEFINE d == CHOOSE e \in Vercel!Mine(u) : \A f \in Vercel!Mine(u) : f <= e
  <2>1. d \in Vercel!Mine(u)
    BY <1>2 DEF HasLatest
  <2>2. Vercel!Active(u) = [id |-> d, state |-> deployRow[d].state]
    BY <1>2 DEF Vercel!Active
  <2> QED
    BY <2>1, <2>2 DEF Vercel!Mine
<1> QED
  BY <1>1, <1>2

(* handleVercelDeployments, FailInterruptedVercelDeploys: over restarts, failures and
   deploys that overtake each other no page waits for a deploy nobody attends to, and
   READY is of a deploy that ended; handleVercelOAuthCallback: a flow is exchanged
   once. *)
THEOREM DeploysAreHeld == PartsSpec => []DeploysHold
<1>1. PartsInit => DeploysIInv
  BY DeploysInit DEF PartsInit
<1>2. DeploysIInv /\ [PartsNext]_vars => DeploysIInv'
  <2> SUFFICES ASSUME DeploysIInv, [PartsNext]_vars
               PROVE  DeploysIInv'
    OBVIOUS
  <2>1. [Vercel!Next]_deployVars => DeploysIInv'
    BY RowsHeldStep, LatestStep, FlowsHeldStep DEF DeploysIInv, RowsHeld, FlowsHeld
  <2>2. CASE InDeploys(Vercel!Next)
    BY <2>1, <2>2 DEF InDeploys
  <2>3. CASE UNCHANGED deployVars
    BY <2>1, <2>3
  <2> QED
    BY <2>2, <2>3, Zenon
       DEF PartsNext, InPeople, InOpened, InWritten, InRead, InEmbedder, InDevices, InTokens,
           vars, outsideVars
<1>3. DeploysIInv => DeploysHold
  <2> SUFFICES ASSUME DeploysIInv
               PROVE  DeploysHold
    OBVIOUS
  <2>1. Vercel!TypeOK
    BY DeploysAssumption
       DEF DeploysIInv, DeployTypes, DeployIds, FlowTypes, FlowIds, Vercel!TypeOK, Vercel!Ids,
           Vercel!States
  <2>2. Vercel!BuildingIsAttended
    BY ActiveIs DEF DeploysIInv, RowHeld, SlotHeld, Vercel!BuildingIsAttended
  <2>3. Vercel!ReadyIsOver
    BY ActiveIs DEF DeploysIInv, DeployTypes, RowHeld, SlotHeld, Vercel!ReadyIsOver
  <2> QED
    BY <2>1, <2>2, <2>3 DEF DeploysHold, DeploysIInv
<1> QED
  BY <1>1, <1>2, <1>3, PTL DEF PartsSpec
-----------------------------------------------------------------------------
(* What a request over accounts and projects may be in the middle of. *)
AccountIds == 1 .. made
ToChange == [at : {"role", "count"}, user : AccountIds, to : BOOLEAN]
ToDelete == [at : {"delete"}, user : AccountIds, dirs : SUBSET Projects]
RequestStates ==
  [at : {"idle", "setup"}]
    \cup [at : {"account"}, login : BOOLEAN, admin : BOOLEAN]
    \cup [at : {"oidc"}, user : 0 .. made, listed : BOOLEAN]
    \cup ToChange \cup ToDelete
    \cup [at : {"sweep"}, dirs : SUBSET Projects]
    \cup [at : {"folder"}, of : Projects, owner : AccountIds]
    \cup [at : {"remove"}, of : Projects]

AccountTypes ==
  /\ config \in [password : BOOLEAN, signup : BOOLEAN, oidc : BOOLEAN]
  /\ made \in 0 .. MaxUsers /\ users \subseteq AccountIds
  /\ admins \subseteq users /\ logins \subseteq AccountIds
  /\ project \in [Projects -> [row : BOOLEAN, owner : 0 .. made, archived : BOOLEAN]]
  /\ dirs \subseteq used /\ used \subseteq Projects
  /\ doing \in [Clients -> RequestStates]
UpTypes == up \in BOOLEAN /\ crossed \in BOOLEAN

(* While no two requests over accounts met, the one there may be leaves an admin... *)
Leaves(c) ==
  doing[c].at = "delete" \/ (doing[c].at \in {"role", "count"} /\ ~doing[c].to) =>
    admins \ {doing[c].user} # {}
(* ... and an account that is made without being an admin's is not the first. *)
NotFirst(c) == doing[c].at = "account" /\ ~doing[c].admin => users # {}
RolesHeld ==
  /\ ~crossed =>
       /\ \A c, d \in Clients : People!ChangesAccounts(c) /\ People!ChangesAccounts(d) => c = d
       /\ \A c \in Clients : Leaves(c) /\ NotFirst(c)
  /\ \A c \in Clients : doing[c].at = "oidc" => config.oidc

(* A directory that a request is about to take away is of no listed project, and no
   other request has to do with a project that is being made. *)
Listed(p) == project[p].row /\ ~project[p].archived
Takes(c, p) ==
  \/ doing[c].at \in {"delete", "sweep"} /\ p \in doing[c].dirs
  \/ doing[c].at \in {"folder", "remove"} /\ p = doing[c].of
DirsHeld ==
  /\ \A p \in Projects : project[p].row => p \in used
  /\ \A c \in Clients, p \in Projects : Takes(c, p) =>
       /\ p \in used
       /\ Listed(p) => doing[c].at = "delete" /\ project[p].owner = doing[c].user
       /\ doing[c].at = "folder" =>
            /\ p \in dirs /\ ~project[p].row
            /\ \A d \in Clients \ {c} : ~Takes(d, p)

PeopleIInv ==
  /\ AccountTypes /\ UpTypes /\ RolesHeld /\ DirsHeld
  /\ People!AdminRemains /\ People!ListedHasDir

(* ClaimOwnerlessProjects *)
LEMMA ClaimedTypes ==
  ASSUME AccountTypes, NEW n, 0 .. made \subseteq 0 .. n, NEW u \in 0 .. n
  PROVE  People!Claimed(u) \in [Projects -> [row : BOOLEAN, owner : 0 .. n, archived : BOOLEAN]]
BY DEF AccountTypes, People!Claimed, People!RowsOf

(* CreateUser: what was an account, or a request's, is still one. *)
LEMMA MadeOne ==
  ASSUME AccountTypes, NEW isAdmin, People!NewUser(isAdmin)
  PROVE  /\ made' \in 1 .. MaxUsers /\ AccountIds \subseteq AccountIds' /\ made' \in AccountIds'
         /\ 0 .. made \subseteq 0 .. made'
         /\ users' = users \cup {made'} /\ admins' \subseteq users'
         /\ users' \subseteq AccountIds' /\ admins \subseteq admins'
         /\ [row : BOOLEAN, owner : 0 .. made, archived : BOOLEAN]
              \subseteq [row : BOOLEAN, owner : 0 .. made', archived : BOOLEAN]
         /\ RequestStates \subseteq RequestStates'
<1>1. /\ made' \in 1 .. MaxUsers /\ AccountIds \subseteq AccountIds' /\ made' \in AccountIds'
      /\ 0 .. made \subseteq 0 .. made'
      /\ users' = users \cup {made'} /\ admins' \subseteq users' /\ admins \subseteq admins'
      /\ users' \subseteq AccountIds'
  BY AccountsAssumption DEF AccountTypes, AccountIds, People!NewUser
<1>2. ToChange \subseteq ToChange' /\ ToDelete \subseteq ToDelete'
  BY <1>1 DEF ToChange, ToDelete
<1>3. RequestStates \subseteq RequestStates'
  BY <1>1, <1>2 DEF RequestStates
<1> QED
  BY <1>1, <1>3

LEMMA MadeTypes ==
  ASSUME AccountTypes, NEW isAdmin, People!NewUser(isAdmin), NEW c \in Clients,
         logins' \subseteq logins \cup {made'}, doing' = [doing EXCEPT ![c] = [at |-> "idle"]],
         UNCHANGED <<config, project, dirs, used>>
  PROVE  AccountTypes'
<1>1. /\ made' \in 0 .. MaxUsers /\ AccountIds \subseteq AccountIds' /\ made' \in AccountIds'
      /\ admins' \subseteq users' /\ users' \subseteq AccountIds'
      /\ [row : BOOLEAN, owner : 0 .. made, archived : BOOLEAN]
           \subseteq [row : BOOLEAN, owner : 0 .. made', archived : BOOLEAN]
      /\ RequestStates \subseteq RequestStates'
  BY MadeOne DEF AccountTypes
<1>2. [at |-> "idle"] \in RequestStates
  BY DEF RequestStates
<1>3. doing' \in [Clients -> RequestStates']
  BY <1>1, <1>2 DEF AccountTypes
<1>4. logins' \subseteq AccountIds'
  BY <1>1 DEF AccountTypes
<1>5. project' \in [Projects -> [row : BOOLEAN, owner : 0 .. made', archived : BOOLEAN]]
  BY <1>1 DEF AccountTypes
<1> QED
  BY <1>1, <1>3, <1>4, <1>5 DEF AccountTypes

LEMMA AccountTypesStep == AccountTypes /\ [People!Next]_accountVars => AccountTypes'
<1> SUFFICES ASSUME AccountTypes, [People!Next]_accountVars
             PROVE  AccountTypes'
  OBVIOUS
<1> USE AccountsAssumption
     DEF AccountTypes, AccountIds, ToChange, ToDelete, RequestStates, People!Users,
         People!Nobody, People!NoRow, People!Idle, People!Becomes
<1>1. CASE People!Boot
  <2> DEFINE heirs == IF admins # {} THEN admins ELSE users
             heir == CHOOSE u \in heirs : \A v \in heirs : u <= v
  <2>1. CASE users # {}
    <3>1. heirs \in SUBSET Nat /\ heirs # {}
      BY <2>1
    <3>2. heir \in heirs
      <4> HIDE DEF heirs
      <4> QED
        BY <3>1, LeastOfNaturals
    <3>3. heir \in 0 .. made
      <4>1. heirs \subseteq 0 .. made
        OBVIOUS
      <4> HIDE DEF heirs
      <4> QED
        BY <3>2, <4>1
    <3> HIDE DEF heir
    <3>4. project' = People!Claimed(heir) /\ UNCHANGED <<users, made, admins>>
      BY <1>1, <2>1 DEF People!Boot, heir
    <3>5. project' \in [Projects -> [row : BOOLEAN, owner : 0 .. made, archived : BOOLEAN]]
      BY <3>3, <3>4, ClaimedTypes
    <3> QED
      BY <1>1, <3>4, <3>5 DEF People!Boot
  <2>2. CASE UNCHANGED <<users, made, admins, project>>
    BY <1>1, <2>2 DEF People!Boot
  <2>3. CASE People!NewUser(TRUE) /\ project' = People!Claimed(made')
    <3>1. /\ made' = made + 1 /\ made < MaxUsers
          /\ users' = users \cup {made'} /\ admins' = admins \cup {made'}
      BY <2>3 DEF People!NewUser
    <3>2. made' \in 0 .. made' /\ 0 .. made \subseteq 0 .. made' /\ made' \in 0 .. MaxUsers
      BY <3>1
    <3>3. project' \in [Projects -> [row : BOOLEAN, owner : 0 .. made', archived : BOOLEAN]]
      BY <2>3, <3>2, ClaimedTypes
    <3>4. UNCHANGED <<config, logins, dirs, doing, used>>
      BY <1>1 DEF People!Boot
    <3>5. RequestStates \subseteq RequestStates'
      BY <3>1
    <3>6. doing' \in [Clients -> RequestStates']
      BY <3>4, <3>5
    <3>7. users' \subseteq AccountIds' /\ admins' \subseteq users' /\ logins' \subseteq AccountIds'
      BY <3>1, <3>4
    <3> HIDE DEF RequestStates
    <3> QED
      BY <3>2, <3>3, <3>4, <3>6, <3>7
  <2> QED
    BY <1>1, <2>1, <2>2, <2>3 DEF People!Boot
<1>2. CASE People!Halt
  BY <1>2 DEF People!Halt
<1>3. CASE People!Login
  BY <1>3 DEF People!Login
<1>4. CASE People!Logout
  BY <1>4 DEF People!Logout
<1>5. ASSUME NEW c \in Clients, People!SetupChecks(c)
      PROVE  AccountTypes'
  BY <1>5 DEF People!SetupChecks
<1>6. ASSUME NEW c \in Clients, People!SetupCreates(c)
      PROVE  AccountTypes'
  BY <1>6 DEF People!SetupCreates, People!NewUser, People!NotMade, People!Claimed, People!RowsOf
<1>7. ASSUME NEW c \in Clients, People!SignupChecks(c)
      PROVE  AccountTypes'
  BY <1>7 DEF People!SignupChecks, People!FirstIsAdmin
<1>8. ASSUME NEW c \in Clients, People!CreateUserChecks(c)
      PROVE  AccountTypes'
  BY <1>8 DEF People!CreateUserChecks, People!FirstIsAdmin, People!AdminAsks, People!Asks
<1>9. ASSUME NEW c \in Clients, People!AccountCreates(c)
      PROVE  AccountTypes'
  <2>1. CASE People!NotMade
    BY <1>9, <2>1 DEF People!AccountCreates, People!NotMade
  <2>2. ASSUME People!NewUser(doing[c].admin), UNCHANGED project,
               logins' = IF doing[c].login THEN logins \cup {made'} ELSE logins
        PROVE  AccountTypes'
    <3>1. doing' = [doing EXCEPT ![c] = [at |-> "idle"]] /\ UNCHANGED <<config, dirs, used>>
      BY <1>9 DEF People!AccountCreates
    <3> QED
      BY <2>2, <3>1, MadeTypes
  <2> QED
    BY <1>9, <2>1, <2>2 DEF People!AccountCreates
<1>10. ASSUME NEW c \in Clients, People!OIDCReads(c)
       PROVE  AccountTypes'
  BY <1>10 DEF People!OIDCReads
<1>11. ASSUME NEW c \in Clients, People!OIDCSignsIn(c)
       PROVE  AccountTypes'
  <2>1. doing' \in [Clients -> RequestStates]
    BY <1>11 DEF People!OIDCSignsIn
  <2>2. CASE People!NotMade
    BY <1>11, <2>1, <2>2 DEF People!OIDCSignsIn, People!NotMade
  <2>3. ASSUME People!NewUser(doing[c].listed), logins' = logins \cup {made'}, UNCHANGED project
        PROVE  AccountTypes'
    <3>1. doing' = [doing EXCEPT ![c] = [at |-> "idle"]] /\ UNCHANGED <<config, dirs, used>>
      BY <1>11 DEF People!OIDCSignsIn
    <3> QED
      BY <2>3, <3>1, MadeTypes
  <2>4. ASSUME doing[c].user \in users, logins' = logins \cup {doing[c].user},
               admins' = IF doing[c].listed THEN admins \cup {doing[c].user} ELSE admins,
               UNCHANGED <<users, made, project>>
        PROVE  AccountTypes'
    BY <1>11, <2>1, <2>4 DEF People!OIDCSignsIn
  <2> QED
    BY <1>11, <2>2, <2>3, <2>4 DEF People!OIDCSignsIn
<1>12. ASSUME NEW c \in Clients, People!UpdateUserCounts(c)
       PROVE  AccountTypes'
  BY <1>12 DEF People!UpdateUserCounts
<1>13. ASSUME NEW c \in Clients, People!UpdateUserSets(c)
       PROVE  AccountTypes'
  BY <1>13 DEF People!UpdateUserSets, People!RoleSet
<1>14. ASSUME NEW c \in Clients, People!DeleteUserRows(c)
       PROVE  AccountTypes'
  <2>1. doing[c] \in ToDelete
    BY <1>14 DEF People!DeleteUserRows
  <2>2. [at |-> "sweep", dirs |-> doing[c].dirs] \in [at : {"sweep"}, dirs : SUBSET Projects]
    BY <2>1
  <2>3. doing' \in [Clients -> RequestStates]
    BY <1>14, <2>2 DEF People!DeleteUserRows
  <2>4. project' \in [Projects -> [row : BOOLEAN, owner : 0 .. made, archived : BOOLEAN]]
    BY <1>14 DEF People!DeleteUserRows
  <2>5. users' \subseteq AccountIds /\ admins' \subseteq users'
    BY <1>14 DEF People!DeleteUserRows
  <2> QED
    BY <1>14, <2>3, <2>4, <2>5 DEF People!DeleteUserRows
<1>15. ASSUME NEW c \in Clients, People!DeleteUserDirs(c)
       PROVE  AccountTypes'
  BY <1>15 DEF People!DeleteUserDirs
<1>16. ASSUME NEW c \in Clients, People!CreateProjectRow(c)
       PROVE  AccountTypes'
  <2>1. doing[c].of \in Projects /\ doing[c].owner \in AccountIds
    BY <1>16 DEF People!CreateProjectRow
  <2>2. [row |-> TRUE, owner |-> doing[c].owner, archived |-> FALSE]
          \in [row : BOOLEAN, owner : 0 .. made, archived : BOOLEAN]
    BY <2>1
  <2>3. project' \in [Projects -> [row : BOOLEAN, owner : 0 .. made, archived : BOOLEAN]]
    BY <1>16, <2>1, <2>2 DEF People!CreateProjectRow
  <2>4. dirs' \subseteq used
    BY <1>16 DEF People!CreateProjectRow
  <2>5. doing' \in [Clients -> RequestStates]
    BY <1>16 DEF People!CreateProjectRow
  <2> QED
    BY <1>16, <2>3, <2>4, <2>5 DEF People!CreateProjectRow
<1>17. ASSUME NEW c \in Clients, People!DeleteProjectDir(c)
       PROVE  AccountTypes'
  BY <1>17 DEF People!DeleteProjectDir
<1>18. ASSUME NEW c \in Clients, NEW me \in People!Users, NEW u \in People!Users,
              People!DeleteUserChecks(c, me, u)
       PROVE  AccountTypes'
  BY <1>18 DEF People!DeleteUserChecks, People!AdminAsks, People!Asks, People!Active,
               People!RowsOf
<1>19. ASSUME NEW c \in Clients, NEW me \in People!Users, NEW u \in People!Users,
              NEW to \in BOOLEAN, People!UpdateUserReads(c, me, u, to)
       PROVE  AccountTypes'
  BY <1>19 DEF People!UpdateUserReads, People!AdminAsks, People!Asks
<1>20. ASSUME NEW c \in Clients, NEW me \in People!Users, NEW p \in Projects,
              People!CreateProjectDir(c, me, p)
       PROVE  AccountTypes'
  BY <1>20 DEF People!CreateProjectDir, People!Asks
<1>21. ASSUME NEW c \in Clients, NEW me \in People!Users, NEW p \in Projects,
              People!DeleteProjectRow(c, me, p)
       PROVE  AccountTypes'
  BY <1>21 DEF People!DeleteProjectRow, People!DropRow, People!RowsOf, People!Asks
<1>22. ASSUME NEW p \in Projects, People!Archive(p)
       PROVE  AccountTypes'
  BY <1>22 DEF People!Archive, People!Active, People!RowsOf
<1>23. CASE UNCHANGED accountVars
  BY <1>23 DEF accountVars
<1> QED
  BY <1>1, <1>2, <1>3, <1>4, <1>5, <1>6, <1>7, <1>8, <1>9, <1>10, <1>11, <1>12, <1>13, <1>14,
     <1>15, <1>16, <1>17, <1>18, <1>19, <1>20, <1>21, <1>22, <1>23
     DEF People!Next

LEMMA CrossesIs ==
  ASSUME NEW c \in Clients, People!Crosses(c), ~crossed'
  PROVE  ~crossed /\ \A d \in Clients \ {c} : ~People!ChangesAccounts(d)
BY Zenon DEF People!Crosses

LEMMA UpTypesStep == UpTypes /\ [People!Next]_accountVars => UpTypes'
<1> SUFFICES ASSUME UpTypes, [People!Next]_accountVars
             PROVE  UpTypes'
  OBVIOUS
<1> USE DEF UpTypes
<1>1. CASE People!Boot
  <2>1. up' = TRUE
    BY <1>1, Zenon DEF People!Boot
  <2>2. UNCHANGED crossed
    BY <1>1, Zenon DEF People!Boot
  <2> QED
    BY <2>1, <2>2, Zenon
<1>2. CASE People!Halt
  BY <1>2 DEF People!Halt
<1>3. CASE People!Login
  BY <1>3 DEF People!Login
<1>4. CASE People!Logout
  BY <1>4 DEF People!Logout
<1>5. ASSUME NEW c \in Clients, People!SetupChecks(c)
      PROVE  UpTypes'
  BY <1>5 DEF People!SetupChecks
<1>6. ASSUME NEW c \in Clients, People!SetupCreates(c)
      PROVE  UpTypes'
  BY <1>6 DEF People!SetupCreates, People!NewUser, People!NotMade
<1>7. ASSUME NEW c \in Clients, People!SignupChecks(c)
      PROVE  UpTypes'
  BY <1>7 DEF People!SignupChecks, People!FirstIsAdmin
<1>8. ASSUME NEW c \in Clients, People!CreateUserChecks(c)
      PROVE  UpTypes'
  BY <1>8 DEF People!CreateUserChecks, People!FirstIsAdmin, People!AdminAsks, People!Asks
<1>9. ASSUME NEW c \in Clients, People!AccountCreates(c)
      PROVE  UpTypes'
  BY <1>9 DEF People!AccountCreates, People!NewUser, People!NotMade
<1>10. ASSUME NEW c \in Clients, People!OIDCReads(c)
       PROVE  UpTypes'
  BY <1>10 DEF People!OIDCReads
<1>11. ASSUME NEW c \in Clients, People!OIDCSignsIn(c)
       PROVE  UpTypes'
  BY <1>11 DEF People!OIDCSignsIn, People!NewUser, People!NotMade
<1>12. ASSUME NEW c \in Clients, People!UpdateUserCounts(c)
       PROVE  UpTypes'
  BY <1>12 DEF People!UpdateUserCounts
<1>13. ASSUME NEW c \in Clients, People!UpdateUserSets(c)
       PROVE  UpTypes'
  BY <1>13 DEF People!UpdateUserSets, People!RoleSet
<1>14. ASSUME NEW c \in Clients, People!DeleteUserRows(c)
       PROVE  UpTypes'
  BY <1>14 DEF People!DeleteUserRows
<1>15. ASSUME NEW c \in Clients, People!DeleteUserDirs(c)
       PROVE  UpTypes'
  BY <1>15 DEF People!DeleteUserDirs
<1>16. ASSUME NEW c \in Clients, People!CreateProjectRow(c)
       PROVE  UpTypes'
  BY <1>16 DEF People!CreateProjectRow
<1>17. ASSUME NEW c \in Clients, People!DeleteProjectDir(c)
       PROVE  UpTypes'
  BY <1>17 DEF People!DeleteProjectDir
<1>18. ASSUME NEW c \in Clients, NEW me \in People!Users, NEW u \in People!Users,
              People!DeleteUserChecks(c, me, u)
       PROVE  UpTypes'
  BY <1>18 DEF People!DeleteUserChecks, People!AdminAsks, People!Asks, People!Crosses
<1>19. ASSUME NEW c \in Clients, NEW me \in People!Users, NEW u \in People!Users,
              NEW to \in BOOLEAN, People!UpdateUserReads(c, me, u, to)
       PROVE  UpTypes'
  BY <1>19 DEF People!UpdateUserReads, People!AdminAsks, People!Asks, People!Crosses
<1>20. ASSUME NEW c \in Clients, NEW me \in People!Users, NEW p \in Projects,
              People!CreateProjectDir(c, me, p)
       PROVE  UpTypes'
  BY <1>20 DEF People!CreateProjectDir, People!Asks
<1>21. ASSUME NEW c \in Clients, NEW me \in People!Users, NEW p \in Projects,
              People!DeleteProjectRow(c, me, p)
       PROVE  UpTypes'
  BY <1>21 DEF People!DeleteProjectRow, People!Asks, People!DropRow, People!RowsOf
<1>22. ASSUME NEW p \in Projects, People!Archive(p)
       PROVE  UpTypes'
  BY <1>22 DEF People!Archive, People!Active, People!RowsOf
<1>23. CASE UNCHANGED accountVars
  BY <1>23 DEF accountVars
<1> QED
  BY <1>1, <1>2, <1>3, <1>4, <1>5, <1>6, <1>7, <1>8, <1>9, <1>10, <1>11, <1>12, <1>13, <1>14,
     <1>15, <1>16, <1>17, <1>18, <1>19, <1>20, <1>21, <1>22, <1>23
     DEF People!Next

LEMMA RolesStep ==
  AccountTypes /\ RolesHeld /\ People!AdminRemains /\ [People!Next]_accountVars =>
    RolesHeld' /\ People!AdminRemains'
<1> SUFFICES ASSUME AccountTypes, RolesHeld, People!AdminRemains, [People!Next]_accountVars
             PROVE  RolesHeld' /\ People!AdminRemains'
  OBVIOUS
<1> USE CrossesIs
     DEF AccountTypes, RequestStates, ToChange, ToDelete, AccountIds, RolesHeld, Leaves, NotFirst,
         People!AdminRemains, People!ChangesAccounts, People!Becomes, People!Idle, People!Nobody
<1>1. CASE People!Boot
  <2>1. UNCHANGED <<config, doing, crossed>>
    BY <1>1 DEF People!Boot
  <2>2. UNCHANGED <<users, admins>> \/ \E u : users' = users \cup {u} /\ admins' = admins \cup {u}
    BY <1>1 DEF People!Boot, People!NewUser
  <2> QED
    BY <2>1, <2>2
<1>2. CASE People!Halt
  BY <1>2 DEF People!Halt
<1>3. CASE People!Login
  BY <1>3 DEF People!Login
<1>4. CASE People!Logout
  BY <1>4 DEF People!Logout
<1>5. ASSUME NEW c \in Clients, People!SetupChecks(c)
      PROVE  RolesHeld' /\ People!AdminRemains'
  BY <1>5 DEF People!SetupChecks
<1>6. ASSUME NEW c \in Clients, People!SetupCreates(c)
      PROVE  RolesHeld' /\ People!AdminRemains'
  BY <1>6 DEF People!SetupCreates, People!NewUser, People!NotMade
<1>7. ASSUME NEW c \in Clients, People!SignupChecks(c)
      PROVE  RolesHeld' /\ People!AdminRemains'
  BY <1>7 DEF People!SignupChecks, People!FirstIsAdmin
<1>8. ASSUME NEW c \in Clients, People!CreateUserChecks(c)
      PROVE  RolesHeld' /\ People!AdminRemains'
  BY <1>8 DEF People!CreateUserChecks, People!FirstIsAdmin, People!AdminAsks, People!Asks
<1>9. ASSUME NEW c \in Clients, People!AccountCreates(c)
      PROVE  RolesHeld' /\ People!AdminRemains'
  BY <1>9 DEF People!AccountCreates, People!NewUser, People!NotMade
<1>10. ASSUME NEW c \in Clients, People!OIDCReads(c)
       PROVE  RolesHeld' /\ People!AdminRemains'
  BY <1>10 DEF People!OIDCReads
<1>11. ASSUME NEW c \in Clients, People!OIDCSignsIn(c)
       PROVE  RolesHeld' /\ People!AdminRemains'
  BY <1>11 DEF People!OIDCSignsIn, People!NewUser, People!NotMade
<1>12. ASSUME NEW c \in Clients, People!UpdateUserCounts(c)
       PROVE  RolesHeld' /\ People!AdminRemains'
  BY <1>12 DEF People!UpdateUserCounts
<1>13. ASSUME NEW c \in Clients, People!UpdateUserSets(c)
       PROVE  RolesHeld' /\ People!AdminRemains'
  BY <1>13 DEF People!UpdateUserSets, People!RoleSet
<1>14. ASSUME NEW c \in Clients, People!DeleteUserRows(c)
       PROVE  RolesHeld' /\ People!AdminRemains'
  BY <1>14 DEF People!DeleteUserRows
<1>15. ASSUME NEW c \in Clients, People!DeleteUserDirs(c)
       PROVE  RolesHeld' /\ People!AdminRemains'
  BY <1>15 DEF People!DeleteUserDirs
<1>16. ASSUME NEW c \in Clients, People!CreateProjectRow(c)
       PROVE  RolesHeld' /\ People!AdminRemains'
  BY <1>16 DEF People!CreateProjectRow
<1>17. ASSUME NEW c \in Clients, People!DeleteProjectDir(c)
       PROVE  RolesHeld' /\ People!AdminRemains'
  BY <1>17 DEF People!DeleteProjectDir
<1>18. ASSUME NEW c \in Clients, NEW me \in People!Users, NEW u \in People!Users,
              People!DeleteUserChecks(c, me, u)
       PROVE  RolesHeld' /\ People!AdminRemains'
  BY <1>18 DEF People!DeleteUserChecks, People!AdminAsks, People!Asks
<1>19. ASSUME NEW c \in Clients, NEW me \in People!Users, NEW u \in People!Users,
              NEW to \in BOOLEAN, People!UpdateUserReads(c, me, u, to)
       PROVE  RolesHeld' /\ People!AdminRemains'
  BY <1>19 DEF People!UpdateUserReads, People!AdminAsks, People!Asks
<1>20. ASSUME NEW c \in Clients, NEW me \in People!Users, NEW p \in Projects,
              People!CreateProjectDir(c, me, p)
       PROVE  RolesHeld' /\ People!AdminRemains'
  BY <1>20 DEF People!CreateProjectDir, People!Asks
<1>21. ASSUME NEW c \in Clients, NEW me \in People!Users, NEW p \in Projects,
              People!DeleteProjectRow(c, me, p)
       PROVE  RolesHeld' /\ People!AdminRemains'
  BY <1>21 DEF People!DeleteProjectRow, People!Asks, People!DropRow, People!RowsOf
<1>22. ASSUME NEW p \in Projects, People!Archive(p)
       PROVE  RolesHeld' /\ People!AdminRemains'
  BY <1>22 DEF People!Archive, People!Active, People!RowsOf
<1>23. CASE UNCHANGED accountVars
  BY <1>23 DEF accountVars
<1> QED
  BY <1>1, <1>2, <1>3, <1>4, <1>5, <1>6, <1>7, <1>8, <1>9, <1>10, <1>11, <1>12, <1>13, <1>14,
     <1>15, <1>16, <1>17, <1>18, <1>19, <1>20, <1>21, <1>22, <1>23
     DEF People!Next

LEMMA DirsStep ==
  AccountTypes /\ DirsHeld /\ People!ListedHasDir /\ [People!Next]_accountVars =>
    DirsHeld' /\ People!ListedHasDir'
<1> SUFFICES ASSUME AccountTypes, DirsHeld, People!ListedHasDir, [People!Next]_accountVars
             PROVE  DirsHeld' /\ People!ListedHasDir'
  OBVIOUS
<1> USE DEF AccountTypes, RequestStates, ToChange, ToDelete, AccountIds, DirsHeld, Takes, Listed,
            People!ListedHasDir, People!Becomes, People!Idle, People!Nobody, People!NoRow
<1>1. CASE People!Boot
  BY <1>1 DEF People!Boot, People!Claimed, People!RowsOf, People!NewUser
<1>2. CASE People!Halt
  BY <1>2 DEF People!Halt
<1>3. CASE People!Login
  BY <1>3 DEF People!Login
<1>4. CASE People!Logout
  BY <1>4 DEF People!Logout
<1>5. ASSUME NEW c \in Clients, People!SetupChecks(c)
      PROVE  DirsHeld' /\ People!ListedHasDir'
  BY <1>5 DEF People!SetupChecks
<1>6. ASSUME NEW c \in Clients, People!SetupCreates(c)
      PROVE  DirsHeld' /\ People!ListedHasDir'
  BY <1>6 DEF People!SetupCreates, People!NewUser, People!NotMade, People!Claimed, People!RowsOf
<1>7. ASSUME NEW c \in Clients, People!SignupChecks(c)
      PROVE  DirsHeld' /\ People!ListedHasDir'
  BY <1>7 DEF People!SignupChecks, People!FirstIsAdmin
<1>8. ASSUME NEW c \in Clients, People!CreateUserChecks(c)
      PROVE  DirsHeld' /\ People!ListedHasDir'
  BY <1>8 DEF People!CreateUserChecks, People!FirstIsAdmin, People!AdminAsks, People!Asks
<1>9. ASSUME NEW c \in Clients, People!AccountCreates(c)
      PROVE  DirsHeld' /\ People!ListedHasDir'
  BY <1>9 DEF People!AccountCreates, People!NewUser, People!NotMade
<1>10. ASSUME NEW c \in Clients, People!OIDCReads(c)
       PROVE  DirsHeld' /\ People!ListedHasDir'
  BY <1>10 DEF People!OIDCReads
<1>11. ASSUME NEW c \in Clients, People!OIDCSignsIn(c)
       PROVE  DirsHeld' /\ People!ListedHasDir'
  BY <1>11 DEF People!OIDCSignsIn, People!NewUser, People!NotMade
<1>12. ASSUME NEW c \in Clients, People!UpdateUserCounts(c)
       PROVE  DirsHeld' /\ People!ListedHasDir'
  BY <1>12 DEF People!UpdateUserCounts
<1>13. ASSUME NEW c \in Clients, People!UpdateUserSets(c)
       PROVE  DirsHeld' /\ People!ListedHasDir'
  BY <1>13 DEF People!UpdateUserSets, People!RoleSet
<1>14. ASSUME NEW c \in Clients, People!DeleteUserRows(c)
       PROVE  DirsHeld' /\ People!ListedHasDir'
  BY <1>14 DEF People!DeleteUserRows, People!Active, People!RowsOf
<1>15. ASSUME NEW c \in Clients, People!DeleteUserDirs(c)
       PROVE  DirsHeld' /\ People!ListedHasDir'
  BY <1>15 DEF People!DeleteUserDirs
<1>16. ASSUME NEW c \in Clients, People!CreateProjectRow(c)
       PROVE  DirsHeld' /\ People!ListedHasDir'
  BY <1>16 DEF People!CreateProjectRow
<1>17. ASSUME NEW c \in Clients, People!DeleteProjectDir(c)
       PROVE  DirsHeld' /\ People!ListedHasDir'
  BY <1>17 DEF People!DeleteProjectDir
<1>18. ASSUME NEW c \in Clients, NEW me \in People!Users, NEW u \in People!Users,
              People!DeleteUserChecks(c, me, u)
       PROVE  DirsHeld' /\ People!ListedHasDir'
  BY <1>18 DEF People!DeleteUserChecks, People!AdminAsks, People!Asks, People!Active,
               People!RowsOf
<1>19. ASSUME NEW c \in Clients, NEW me \in People!Users, NEW u \in People!Users,
              NEW to \in BOOLEAN, People!UpdateUserReads(c, me, u, to)
       PROVE  DirsHeld' /\ People!ListedHasDir'
  BY <1>19 DEF People!UpdateUserReads, People!AdminAsks, People!Asks
<1>20. ASSUME NEW c \in Clients, NEW me \in People!Users, NEW p \in Projects,
              People!CreateProjectDir(c, me, p)
       PROVE  DirsHeld' /\ People!ListedHasDir'
  BY <1>20 DEF People!CreateProjectDir, People!Asks
<1>21. ASSUME NEW c \in Clients, NEW me \in People!Users, NEW p \in Projects,
              People!DeleteProjectRow(c, me, p)
       PROVE  DirsHeld' /\ People!ListedHasDir'
  BY <1>21 DEF People!DeleteProjectRow, People!Asks, People!DropRow, People!RowsOf
<1>22. ASSUME NEW p \in Projects, People!Archive(p)
       PROVE  DirsHeld' /\ People!ListedHasDir'
  BY <1>22 DEF People!Archive, People!Active, People!RowsOf
<1>23. CASE UNCHANGED accountVars
  BY <1>23 DEF accountVars
<1> QED
  BY <1>1, <1>2, <1>3, <1>4, <1>5, <1>6, <1>7, <1>8, <1>9, <1>10, <1>11, <1>12, <1>13, <1>14,
     <1>15, <1>16, <1>17, <1>18, <1>19, <1>20, <1>21, <1>22, <1>23
     DEF People!Next

LEMMA PeopleStep == PeopleIInv /\ [People!Next]_accountVars => PeopleIInv'
BY AccountTypesStep, UpTypesStep, RolesStep, DirsStep DEF PeopleIInv

LEMMA PeopleInit == People!Init => PeopleIInv
<1> SUFFICES ASSUME People!Init
             PROVE  PeopleIInv
  OBVIOUS
<1>1. PICK old \in {{}} \cup {{p} : p \in Projects} :
        /\ project = [p \in Projects |->
                        IF p \in old THEN [People!NoRow EXCEPT !.row = TRUE] ELSE People!NoRow]
        /\ dirs = old /\ used = old
  BY DEF People!Init
<1>2. AccountTypes
  <2>1. project \in [Projects -> [row : BOOLEAN, owner : 0 .. made, archived : BOOLEAN]]
    <3>1. 0 \in 0 .. made
      BY DEF People!Init
    <3>2. People!NoRow \in [row : BOOLEAN, owner : 0 .. made, archived : BOOLEAN]
      BY <3>1 DEF People!NoRow, People!Nobody
    <3>3. [People!NoRow EXCEPT !.row = TRUE] \in [row : BOOLEAN, owner : 0 .. made, archived : BOOLEAN]
      BY <3>2
    <3> QED
      BY <1>1, <3>2, <3>3
  <2>2. doing \in [Clients -> RequestStates]
    BY DEF People!Init, People!Idle, RequestStates
  <2> QED
    <3>1. dirs \subseteq used /\ used \subseteq Projects
      BY <1>1
    <3>2. /\ config \in [password : BOOLEAN, signup : BOOLEAN, oidc : BOOLEAN]
          /\ made \in 0 .. MaxUsers /\ users = {} /\ admins = {} /\ logins = {}
      BY AccountsAssumption DEF People!Init
    <3> QED
      BY <2>1, <2>2, <3>1, <3>2 DEF AccountTypes
<1>3. UpTypes
  BY Zenon DEF People!Init, UpTypes
<1>4. \A p \in Projects : project[p].row => p \in used
  BY <1>1 DEF People!NoRow
<1>5. doing = [c \in Clients |-> [at |-> "idle"]] /\ users = {}
  BY DEF People!Init, People!Idle
<1> QED
  BY <1>1, <1>2, <1>3, <1>4, <1>5
     DEF PeopleIInv, RolesHeld, DirsHeld, Leaves, NotFirst, Takes, Listed, People!ChangesAccounts,
         People!AdminRemains, People!ListedHasDir
-----------------------------------------------------------------------------
(* What a request over devices may be in the middle of. *)
EndpointsMade == 1 .. endpointsMade
ToSubscribe ==
  [at : {"key", "generate", "browser"}, user : PushAccounts, then : {"browser"},
   browser : Browsers, key : 0 .. keysMade]
ToSend ==
  [at : {"key", "generate", "sending"}, user : PushAccounts, then : {"sending"},
   devices : SUBSET EndpointsMade, key : 0 .. keysMade]
PushStates ==
  [at : {"ready"}] \cup ToSubscribe \cup ToSend
    \cup [at : {"post"}, user : PushAccounts, endpoint : EndpointsMade]
    \cup [at : {"forget"}, browser : Browsers, endpoint : EndpointsMade]

PushTypes ==
  /\ key \in [PushAccounts -> 0 .. keysMade] /\ keysMade \in 0 .. MaxKeys
  /\ sub \in [Browsers -> 0 .. endpointsMade] /\ endpointsMade \in 0 .. MaxEndpoints
  /\ DOMAIN under \subseteq EndpointsMade /\ \A e \in DOMAIN under : under[e] \in 1 .. keysMade
  /\ DOMAIN table \subseteq EndpointsMade /\ \A e \in DOMAIN table : table[e] \in PushAccounts
  /\ posted \subseteq EndpointsMade
  /\ request \in [Pushes -> PushStates]

(* A page subscribes under the key its account signs with, and posts what is subscribed
   under it, unless two keys were made. *)
KeyOf(r) ==
  /\ request[r].at = "browser" =>
       /\ request[r].key # 0
       /\ request[r].key = key[request[r].user] \/ keysCrossed
  /\ request[r].at = "post" /\ request[r].endpoint \in DOMAIN under =>
       under[request[r].endpoint] = key[request[r].user] \/ keysCrossed

DevicesHeld ==
  Devices!DevicesListed /\ Devices!DevicesReachable /\ \A r \in Pushes : KeyOf(r)

DevicesIInv == PushTypes /\ DevicesHeld /\ keysCrossed \in BOOLEAN
-----------------------------------------------------------------------------
(* The statements from which on a stage's columns are there. *)
AfterSeed == {"scrub", "last", "up", "used"}
AfterLater == AfterSeed \cup {"seed"}
AfterUsers == AfterLater \cup {"columns"}
AfterLogins == AfterUsers \cup {"count", "admin", "forget", "claim"}
AfterOwners == AfterLogins \cup {"logins"}
AfterTables == AfterOwners \cup {"owners"}

OpenedTypes ==
  /\ pc \in Opened!Statements \cup {"down", "failed", "up", "used"} /\ rebuilding \in Opened!Steps
  /\ stored \in [Opened!Rebuilt ->
       [shape : {"none", "old", "new"}, rows : SUBSET {"before", "since"}]]
  /\ spare \in [Opened!Rebuilt ->
       [shape : {"none", "old", "new"}, rows : SUBSET {"before", "since"}]]
  /\ columns \subseteq Opened!Columns
  /\ accounts \in 0 .. MaxUsers /\ names \subseteq 1 .. MaxNumber /\ seq \in 0 .. MaxNumber
  /\ dirty \subseteq Dirty /\ stopped \subseteq Opened!Rebuilt /\ had \subseteq Opened!Rebuilt
OpenedFlags ==
  /\ password \in BOOLEAN /\ anonymous \in BOOLEAN /\ ownerless \in BOOLEAN
  /\ secured \in BOOLEAN /\ gap \in BOOLEAN /\ clash \in BOOLEAN

ColumnsHeld ==
  /\ pc \in {"shapes", "messages"} \cup Opened!Rebuilt \cup AfterTables =>
       Opened!First \subseteq columns
  /\ pc \in AfterOwners => Opened!OwnerColumns \subseteq columns
  /\ pc \in AfterLater => Opened!Later \subseteq columns
  /\ pc \in {"up", "used"} => Opened!Final \subseteq columns
  /\ pc \in {"last", "up", "used"} => dirty = {}

(* A table that is gone is nowhere, or in its _v2 between two statements. *)
TableHeld(t) ==
  /\ stored[t].shape = "none" => stored[t] = Opened!Missing
  /\ stored[t].shape = "none" /\ pc \in {"messages"} \cup Opened!Rebuilt \cup AfterTables =>
       pc = t /\ rebuilding = "rename"
  /\ spare[t] # Opened!Missing => t \in stopped \/ (pc = t /\ rebuilding # "look")
  /\ pc = t /\ rebuilding # "look" => spare[t].shape = "new"
  /\ pc = t /\ rebuilding = "copy" => stored[t].shape = "old"
  /\ t \in had \ stopped =>
       /\ "before" \in stored[t].rows \/ (pc = t /\ rebuilding = "rename")
       /\ pc = t /\ rebuilding \in {"drop", "rename"} => "before" \in spare[t].rows
TablesHeld ==
  /\ \A t \in Opened!Rebuilt : TableHeld(t)
  /\ rebuilding # "look" => pc \in Opened!Rebuilt
  /\ pc \in AfterTables \cup {"pending_asks"} => stored["compaction_snapshots"].shape = "new"
  /\ pc \in AfterTables => stored["pending_asks"].shape = "new"

UsersHeld ==
  /\ pc \in AfterLogins => ~anonymous
  /\ secured => accounts > 0 \/ password
  /\ pc = "admin" => accounts = 0
  /\ pc \in {"forget", "claim"} => accounts > 0
  /\ pc \in AfterUsers => accounts > 0 \/ ~password
  /\ pc \in AfterUsers \ {"used"} => accounts = 0 \/ ~ownerless

NamesHeld ==
  ~gap => \/ names \subseteq 1 .. seq
          \/ seq = 0 /\ Opened!Contiguous(names) /\ pc \notin AfterSeed

OpenedIInv ==
  /\ OpenedTypes /\ OpenedFlags /\ ColumnsHeld /\ TablesHeld /\ UsersHeld /\ NamesHeld
  /\ Opened!FailsOnlySo /\ Opened!NamesFresh
-----------------------------------------------------------------------------
LEMMA StoreKeyCrosses ==
  ASSUME NEW r \in Pushes, Devices!StoreKey(r), ~keysCrossed'
  PROVE  ~keysCrossed /\ key[request[r].user] = 0
BY Zenon DEF Devices!StoreKey

LEMMA PushTypesStep ==
  PushTypes /\ DevicesHeld /\ [Devices!Next]_deviceVars => PushTypes'
<1> SUFFICES ASSUME PushTypes, DevicesHeld, [Devices!Next]_deviceVars
             PROVE  PushTypes'
  OBVIOUS
<1> USE PushAssumption
     DEF PushTypes, PushStates, ToSubscribe, ToSend, EndpointsMade, Devices!Step, Devices!Ready,
         Devices!EndpointIds
<1>1. ASSUME NEW r \in Pushes, NEW u \in PushAccounts, Devices!Deliver(r, u)
      PROVE  PushTypes'
  BY <1>1 DEF Devices!Deliver, Devices!Devices
<1>2. ASSUME NEW r \in Pushes, NEW u \in PushAccounts, NEW b \in Browsers, Devices!Register(r, u, b)
      PROVE  PushTypes'
  BY <1>2 DEF Devices!Register
<1>3. ASSUME NEW r \in Pushes, NEW u \in PushAccounts, NEW b \in Browsers, Devices!Unsubscribe(r, u, b)
      PROVE  PushTypes'
  BY <1>3 DEF Devices!Unsubscribe, Devices!Devices, Devices!Without, Devices!None
<1>4. ASSUME NEW r \in Pushes, Devices!ReadKey(r)
      PROVE  PushTypes'
  <2> DEFINE q == request[r]
             to == IF key[q.user] = 0 THEN [q EXCEPT !.at = "generate"]
                   ELSE [q EXCEPT !.at = q.then, !.key = key[q.user]]
  <2>1. CASE q \in ToSubscribe
    <3>1. [q EXCEPT !.at = "generate"] \in ToSubscribe
      BY <2>1
    <3>2. [q EXCEPT !.at = q.then, !.key = key[q.user]] \in ToSubscribe
      BY <2>1
    <3>3. to \in PushStates
      BY <3>1, <3>2
    <3> QED
      BY <1>4, <3>3 DEF Devices!ReadKey, Devices!Stored
  <2>2. CASE q \in ToSend
    <3>1. [q EXCEPT !.at = "generate"] \in ToSend
      BY <2>2
    <3>2. [q EXCEPT !.at = q.then, !.key = key[q.user]] \in ToSend
      BY <2>2
    <3>3. to \in PushStates
      BY <3>1, <3>2
    <3> QED
      BY <1>4, <3>3 DEF Devices!ReadKey, Devices!Stored
  <2> QED
    BY <1>4, <2>1, <2>2 DEF Devices!ReadKey
<1>5. ASSUME NEW r \in Pushes, Devices!StoreKey(r)
      PROVE  PushTypes'
  <2> DEFINE q == request[r]
             to == [q EXCEPT !.at = q.then, !.key = keysMade + 1]
  <2>1. /\ keysMade < MaxKeys /\ keysMade' = keysMade + 1 /\ q.at = "generate"
        /\ key' = [key EXCEPT ![q.user] = keysMade + 1] /\ request' = [request EXCEPT ![r] = to]
        /\ UNCHANGED <<sub, under, endpointsMade, table, posted>>
    BY <1>5 DEF Devices!StoreKey
  <2>2. 0 .. keysMade \subseteq 0 .. keysMade' /\ keysMade' \in 0 .. MaxKeys
        /\ keysMade + 1 \in 0 .. keysMade' /\ 1 .. keysMade \subseteq 1 .. keysMade'
    BY <2>1
  <2>3. ToSubscribe \subseteq ToSubscribe' /\ ToSend \subseteq ToSend'
    BY <2>1, <2>2
  <2>4. PushStates \subseteq PushStates'
    <3> HIDE DEF ToSubscribe, ToSend
    <3> QED
      BY <2>1, <2>3
  <2>5. to \in PushStates'
    <3>1. CASE q \in ToSubscribe
      BY <3>1, <2>2
    <3>2. CASE q \in ToSend
      BY <3>2, <2>1, <2>2
    <3> QED
      BY <2>1, <3>1, <3>2
  <2>6. request' \in [Pushes -> PushStates']
    <3>1. request \in [Pushes -> PushStates]
      OBVIOUS
    <3> HIDE DEF PushStates, to
    <3> QED
      BY <2>1, <2>4, <2>5, <3>1
  <2>7. key' \in [PushAccounts -> 0 .. keysMade']
    BY <2>1, <2>2
  <2> QED
    BY <2>1, <2>2, <2>6, <2>7
<1>6. ASSUME NEW r \in Pushes, Devices!Keeps(r)
      PROVE  PushTypes'
  BY <1>6 DEF Devices!Keeps, Devices!UsesKey
<1>7. ASSUME NEW r \in Pushes, Devices!Replaces(r)
      PROVE  PushTypes'
  <2> DEFINE q == request[r]
             n == endpointsMade + 1
             to == [at |-> "post", user |-> q.user, endpoint |-> n]
  <2>1. /\ endpointsMade < MaxEndpoints /\ endpointsMade' = n /\ q.at = "browser"
        /\ sub' = [sub EXCEPT ![q.browser] = n] /\ request' = [request EXCEPT ![r] = to]
        /\ DOMAIN under' \subseteq DOMAIN under \cup {n}
        /\ \A e \in DOMAIN under' : under'[e] = IF e = n THEN q.key ELSE under[e]
        /\ UNCHANGED <<key, keysMade, table, posted>>
    BY <1>7 DEF Devices!Replaces, Devices!With, Devices!Without
  <2>2. /\ 0 .. endpointsMade \subseteq 0 .. n /\ n \in 0 .. MaxEndpoints /\ n \in 1 .. n
        /\ 1 .. endpointsMade \subseteq 1 .. n
    BY <2>1
  <2>3. ToSubscribe = ToSubscribe' /\ ToSend \subseteq ToSend' /\ q.key \in 1 .. keysMade
    BY <2>1, <2>2 DEF DevicesHeld, KeyOf
  <2>4. PushStates \subseteq PushStates'
    <3> HIDE DEF ToSubscribe, ToSend
    <3> QED
      BY <2>1, <2>2, <2>3
  <2>5. to \in PushStates'
    BY <2>1, <2>2
  <2>6. request' \in [Pushes -> PushStates']
    <3>1. request \in [Pushes -> PushStates]
      OBVIOUS
    <3> HIDE DEF PushStates, to
    <3> QED
      BY <2>1, <2>4, <2>5, <3>1
  <2>7. sub' \in [Browsers -> 0 .. endpointsMade']
    BY <2>1, <2>2
  <2>8. \A e \in DOMAIN under' : e \in EndpointsMade' /\ under'[e] \in 1 .. keysMade
    BY <2>1, <2>2, <2>3
  <2> QED
    BY <2>1, <2>2, <2>6, <2>7, <2>8
<1>8. ASSUME NEW r \in Pushes, Devices!Post(r)
      PROVE  PushTypes'
  BY <1>8 DEF Devices!Post, Devices!With
<1>9. ASSUME NEW r \in Pushes, Devices!Forget(r)
      PROVE  PushTypes'
  BY <1>9 DEF Devices!Forget, Devices!Without, Devices!None
<1>10. ASSUME NEW r \in Pushes, Devices!GivesUp(r)
       PROVE  PushTypes'
  BY <1>10 DEF Devices!GivesUp
<1>11. ASSUME NEW r \in Pushes, NEW e \in Devices!EndpointIds, Devices!Send(r, e)
       PROVE  PushTypes'
  BY <1>11 DEF Devices!Send, Devices!Gone, Devices!Devices, Devices!Without
<1>12. ASSUME NEW e \in DOMAIN under, Devices!Dropped(e)
       PROVE  PushTypes'
  BY <1>12 DEF Devices!Dropped, Devices!Without
<1>13. CASE UNCHANGED deviceVars
  BY <1>13 DEF deviceVars
<1> QED
  BY <1>1, <1>2, <1>3, <1>4, <1>5, <1>6, <1>7, <1>8, <1>9, <1>10, <1>11, <1>12, <1>13
     DEF Devices!Next

LEMMA DevicesStep == PushTypes /\ DevicesHeld /\ [Devices!Next]_deviceVars => DevicesHeld'
<1> SUFFICES ASSUME PushTypes, DevicesHeld, [Devices!Next]_deviceVars
             PROVE  DevicesHeld'
  OBVIOUS
<1> USE StoreKeyCrosses
     DEF PushTypes, PushStates, ToSubscribe, ToSend, EndpointsMade, DevicesHeld, KeyOf,
         Devices!DevicesListed, Devices!DevicesReachable, Devices!Step, Devices!Ready,
         Devices!EndpointIds
<1>1. ASSUME NEW r \in Pushes, NEW u \in PushAccounts, Devices!Deliver(r, u)
      PROVE  DevicesHeld'
  BY <1>1 DEF Devices!Deliver, Devices!Devices
<1>2. ASSUME NEW r \in Pushes, NEW u \in PushAccounts, NEW b \in Browsers, Devices!Register(r, u, b)
      PROVE  DevicesHeld'
  BY <1>2 DEF Devices!Register
<1>3. ASSUME NEW r \in Pushes, NEW u \in PushAccounts, NEW b \in Browsers, Devices!Unsubscribe(r, u, b)
      PROVE  DevicesHeld'
  BY <1>3 DEF Devices!Unsubscribe, Devices!Devices, Devices!Without, Devices!None
<1>4. ASSUME NEW r \in Pushes, Devices!ReadKey(r)
      PROVE  DevicesHeld'
  BY <1>4 DEF Devices!ReadKey, Devices!Stored
<1>5. ASSUME NEW r \in Pushes, Devices!StoreKey(r)
      PROVE  DevicesHeld'
  <2> DEFINE q == request[r]
             to == [q EXCEPT !.at = q.then, !.key = keysMade + 1]
  <2>1. /\ keysMade' = keysMade + 1 /\ q.at = "generate" /\ to.at \in {"browser", "sending"}
        /\ to.user = q.user /\ to.key = keysMade + 1 /\ keysMade + 1 # 0
        /\ key' = [key EXCEPT ![q.user] = keysMade + 1] /\ request' = [request EXCEPT ![r] = to]
        /\ UNCHANGED <<sub, under, endpointsMade, table, posted>>
    <3>1. /\ keysMade' = keysMade + 1 /\ q.at = "generate"
          /\ key' = [key EXCEPT ![q.user] = keysMade + 1]
          /\ request' = [request EXCEPT ![r] = to]
          /\ UNCHANGED <<sub, under, endpointsMade, table, posted>>
      BY <1>5 DEF Devices!StoreKey
    <3>2. CASE q \in ToSubscribe
      <4>1. to.at = "browser" /\ to.user = q.user /\ to.key = keysMade + 1
        BY <3>2
      <4> HIDE DEF to
      <4> QED
        BY <3>1, <4>1
    <3>3. CASE q \in ToSend
      <4>1. to.at = "sending" /\ to.user = q.user /\ to.key = keysMade + 1
        BY <3>3
      <4> HIDE DEF to
      <4> QED
        BY <3>1, <4>1
    <3> QED
      BY <3>1, <3>2, <3>3
  <2>2. ~keysCrossed' => ~keysCrossed /\ key[q.user] = 0
    BY <1>5, StoreKeyCrosses
  <2>3. \A u \in PushAccounts : key'[u] = IF u = q.user THEN keysMade + 1 ELSE key[u]
    BY <2>1
  <2>4. Devices!DevicesReachable'
    BY <2>1, <2>2, <2>3
  <2>5. ASSUME NEW o \in Pushes
        PROVE  KeyOf(o)'
    <3> HIDE DEF to
    <3> QED
      BY <2>1, <2>2, <2>3
  <2> QED
    BY <2>1, <2>4, <2>5
<1>6. ASSUME NEW r \in Pushes, Devices!Keeps(r)
      PROVE  DevicesHeld'
  BY <1>6 DEF Devices!Keeps, Devices!UsesKey
<1>7. ASSUME NEW r \in Pushes, Devices!Replaces(r)
      PROVE  DevicesHeld'
  BY <1>7 DEF Devices!Replaces, Devices!UsesKey, Devices!With, Devices!Without
<1>8. ASSUME NEW r \in Pushes, Devices!Post(r)
      PROVE  DevicesHeld'
  BY <1>8 DEF Devices!Post, Devices!With
<1>9. ASSUME NEW r \in Pushes, Devices!Forget(r)
      PROVE  DevicesHeld'
  BY <1>9 DEF Devices!Forget, Devices!Without, Devices!None
<1>10. ASSUME NEW r \in Pushes, Devices!GivesUp(r)
       PROVE  DevicesHeld'
  BY <1>10 DEF Devices!GivesUp
<1>11. ASSUME NEW r \in Pushes, NEW e \in Devices!EndpointIds, Devices!Send(r, e)
       PROVE  DevicesHeld'
  BY <1>11 DEF Devices!Send, Devices!Gone, Devices!Devices, Devices!Without
<1>12. ASSUME NEW e \in DOMAIN under, Devices!Dropped(e)
       PROVE  DevicesHeld'
  BY <1>12 DEF Devices!Dropped, Devices!Without
<1>13. CASE UNCHANGED deviceVars
  BY <1>13 DEF deviceVars
<1> QED
  BY <1>1, <1>2, <1>3, <1>4, <1>5, <1>6, <1>7, <1>8, <1>9, <1>10, <1>11, <1>12, <1>13
     DEF Devices!Next
-----------------------------------------------------------------------------
LEMMA SameCardinalityOpened == ASSUME NEW S PROVE Opened!Cardinality(S) = Cardinality(S)
BY DEF Opened!Cardinality, Cardinality


(* The count of numbers without a gap is the last of them. *)
LEMMA SeededWithin ==
  ASSUME OpenedTypes
  PROVE  /\ Opened!Cardinality(names) \in 0 .. MaxNumber
         /\ Opened!Contiguous(names) => names \subseteq 1 .. Opened!Cardinality(names)
<1>1. /\ IsFiniteSet(1 .. MaxNumber) /\ Cardinality(1 .. MaxNumber) = MaxNumber
      /\ names \subseteq 1 .. MaxNumber /\ MaxNumber \in Nat
  BY OpenedAssumption, FS_Interval DEF OpenedTypes
<1>2. IsFiniteSet(names) /\ Cardinality(names) \in Nat /\ Cardinality(names) <= MaxNumber
  BY <1>1, FS_Subset, FS_CardinalityType
<1>3. ASSUME Opened!Contiguous(names), NEW n \in names
      PROVE  n \in 1 .. Cardinality(names)
  <2>1. n \in Nat /\ n >= 1 /\ 1 .. n \subseteq names
    BY <1>1, <1>3 DEF Opened!Contiguous
  <2>2. Cardinality(1 .. n) = n
    BY <2>1, FS_Interval
  <2>3. Cardinality(1 .. n) <= Cardinality(names)
    BY <1>2, <2>1, FS_Subset
  <2> QED
    BY <1>2, <2>1, <2>2, <2>3
<1> QED
  BY <1>1, <1>2, <1>3, SameCardinalityOpened

LEMMA OpenedTypesStep ==
  OpenedTypes /\ UsersHeld /\ TablesHeld /\ [Opened!Next]_openedVars => OpenedTypes'
<1> SUFFICES ASSUME OpenedTypes, UsersHeld, TablesHeld, [Opened!Next]_openedVars
             PROVE  OpenedTypes'
  OBVIOUS
<1> USE OpenedAssumption DEF OpenedTypes, UsersHeld, Opened!Statements, Opened!Rebuilt,
                             Opened!Steps, Opened!At, Opened!Uses, Opened!AfterRebuild,
                             Opened!Missing, Opened!tableVars, Opened!userVars, Opened!nameVars,
                             Opened!Columns, Opened!First, Opened!OwnerColumns, Opened!Later,
                             Opened!Final
<1>1. CASE Opened!Start
  BY <1>1 DEF Opened!Start
<1>2. CASE Opened!MakeTables
  BY <1>2 DEF Opened!MakeTables
<1>3. CASE Opened!MakeIndex
  BY <1>3 DEF Opened!MakeIndex
<1>4. CASE Opened!MakeShapes
  BY <1>4 DEF Opened!MakeShapes
<1>5. CASE Opened!ColumnsThere
  BY <1>5 DEF Opened!ColumnsThere, Opened!AfterColumns, Opened!Adds
<1>6. CASE Opened!Stop
  <2>1. rebuilding # "look" => pc \in Opened!Rebuilt
    BY DEF TablesHeld
  <2>2. stopped' \subseteq Opened!Rebuilt
    BY <1>6, <2>1 DEF Opened!Stop
  <2> QED
    BY <1>6, <2>2 DEF Opened!Stop
<1>7. ASSUME NEW c \in Opened!Columns, Opened!AddColumn(c)
      PROVE  OpenedTypes'
  BY <1>7 DEF Opened!AddColumn, Opened!Adds
<1>8. ASSUME NEW t \in Opened!Rebuilt, Opened!RebuildLooks(t)
      PROVE  OpenedTypes'
  BY <1>8 DEF Opened!RebuildLooks
<1>9. ASSUME NEW t \in Opened!Rebuilt, Opened!RebuildCopies(t)
      PROVE  OpenedTypes'
  BY <1>9 DEF Opened!RebuildCopies
<1>10. ASSUME NEW t \in Opened!Rebuilt, Opened!RebuildDrops(t)
       PROVE  OpenedTypes'
  BY <1>10 DEF Opened!RebuildDrops
<1>11. ASSUME NEW t \in Opened!Rebuilt, Opened!RebuildRenames(t)
       PROVE  OpenedTypes'
  BY <1>11 DEF Opened!RebuildRenames
<1>12. CASE Opened!DropLogins
  BY <1>12 DEF Opened!DropLogins
<1>13. CASE Opened!Count
  BY <1>13 DEF Opened!Count
<1>14. CASE Opened!MakeAdmin
  BY <1>14 DEF Opened!MakeAdmin
<1>15. CASE Opened!ForgetPassword
  BY <1>15 DEF Opened!ForgetPassword
<1>16. CASE Opened!Claim
  BY <1>16 DEF Opened!Claim
<1>17. CASE Opened!SeedSeq
  <2>1. Opened!Cardinality(names) \in 0 .. MaxNumber
    BY SeededWithin
  <2>2. seq' \in 0 .. MaxNumber
    BY <1>17, <2>1 DEF Opened!SeedSeq
  <2> QED
    BY <1>17, <2>2 DEF Opened!SeedSeq
<1>18. CASE Opened!Scrubbed
  BY <1>18 DEF Opened!Scrubbed
<1>19. ASSUME NEW m \in Dirty, Opened!Scrub(m)
       PROVE  OpenedTypes'
  BY <1>19 DEF Opened!Scrub
<1>20. CASE Opened!NewSession
  BY <1>20 DEF Opened!NewSession
<1>21. CASE Opened!NewAccount
  BY <1>21 DEF Opened!NewAccount
<1>22. CASE Opened!NewOwnerless
  BY <1>22 DEF Opened!NewOwnerless
<1>23. ASSUME NEW n \in names, Opened!DeleteSession(n)
       PROVE  OpenedTypes'
  BY <1>23 DEF Opened!DeleteSession
<1>24. ASSUME NEW t \in Opened!Rebuilt, Opened!StoresRow(t)
       PROVE  OpenedTypes'
  BY <1>24 DEF Opened!StoresRow
<1>25. CASE UNCHANGED openedVars
  BY <1>25 DEF openedVars
<1> QED
  BY <1>1, <1>2, <1>3, <1>4, <1>5, <1>6, <1>7, <1>8, <1>9, <1>10, <1>11, <1>12, <1>13, <1>14,
     <1>15, <1>16, <1>17, <1>18, <1>19, <1>20, <1>21, <1>22, <1>23, <1>24, <1>25
     DEF Opened!Next

LEMMA OpenedFlagsStep ==
  OpenedFlags /\ [Opened!Next]_openedVars => OpenedFlags'
<1> SUFFICES ASSUME OpenedFlags, [Opened!Next]_openedVars
             PROVE  OpenedFlags'
  OBVIOUS
<1> USE OpenedAssumption DEF OpenedFlags, Opened!tableVars, Opened!userVars, Opened!nameVars
<1>1. CASE Opened!Start
  BY <1>1 DEF Opened!Start
<1>2. CASE Opened!MakeTables
  BY <1>2 DEF Opened!MakeTables
<1>3. CASE Opened!MakeIndex
  BY <1>3 DEF Opened!MakeIndex
<1>4. CASE Opened!MakeShapes
  BY <1>4 DEF Opened!MakeShapes
<1>5. CASE Opened!ColumnsThere
  BY <1>5 DEF Opened!ColumnsThere, Opened!AfterColumns, Opened!Adds
<1>6. CASE Opened!Stop
  BY <1>6 DEF Opened!Stop
<1>7. ASSUME NEW c \in Opened!Columns, Opened!AddColumn(c)
      PROVE  OpenedFlags'
  BY <1>7 DEF Opened!AddColumn, Opened!Adds
<1>8. ASSUME NEW t \in Opened!Rebuilt, Opened!RebuildLooks(t)
      PROVE  OpenedFlags'
  BY <1>8 DEF Opened!RebuildLooks
<1>9. ASSUME NEW t \in Opened!Rebuilt, Opened!RebuildCopies(t)
      PROVE  OpenedFlags'
  BY <1>9 DEF Opened!RebuildCopies
<1>10. ASSUME NEW t \in Opened!Rebuilt, Opened!RebuildDrops(t)
       PROVE  OpenedFlags'
  BY <1>10 DEF Opened!RebuildDrops
<1>11. ASSUME NEW t \in Opened!Rebuilt, Opened!RebuildRenames(t)
       PROVE  OpenedFlags'
  BY <1>11 DEF Opened!RebuildRenames
<1>12. CASE Opened!DropLogins
  BY <1>12 DEF Opened!DropLogins
<1>13. CASE Opened!Count
  BY <1>13 DEF Opened!Count
<1>14. CASE Opened!MakeAdmin
  BY <1>14 DEF Opened!MakeAdmin
<1>15. CASE Opened!ForgetPassword
  BY <1>15 DEF Opened!ForgetPassword
<1>16. CASE Opened!Claim
  BY <1>16 DEF Opened!Claim
<1>17. CASE Opened!SeedSeq
  BY <1>17 DEF Opened!SeedSeq
<1>18. CASE Opened!Scrubbed
  BY <1>18 DEF Opened!Scrubbed
<1>19. ASSUME NEW m \in Dirty, Opened!Scrub(m)
       PROVE  OpenedFlags'
  BY <1>19 DEF Opened!Scrub
<1>20. CASE Opened!NewSession
  BY <1>20 DEF Opened!NewSession
<1>21. CASE Opened!NewAccount
  BY <1>21 DEF Opened!NewAccount
<1>22. CASE Opened!NewOwnerless
  BY <1>22 DEF Opened!NewOwnerless
<1>23. ASSUME NEW n \in names, Opened!DeleteSession(n)
       PROVE  OpenedFlags'
  BY <1>23 DEF Opened!DeleteSession
<1>24. ASSUME NEW t \in Opened!Rebuilt, Opened!StoresRow(t)
       PROVE  OpenedFlags'
  BY <1>24 DEF Opened!StoresRow
<1>25. CASE UNCHANGED openedVars
  BY <1>25 DEF openedVars
<1> QED
  BY <1>1, <1>2, <1>3, <1>4, <1>5, <1>6, <1>7, <1>8, <1>9, <1>10, <1>11, <1>12, <1>13, <1>14,
     <1>15, <1>16, <1>17, <1>18, <1>19, <1>20, <1>21, <1>22, <1>23, <1>24, <1>25
     DEF Opened!Next

LEMMA ColumnsStep ==
  OpenedTypes /\ ColumnsHeld /\ [Opened!Next]_openedVars => ColumnsHeld'
<1> SUFFICES ASSUME OpenedTypes, ColumnsHeld, [Opened!Next]_openedVars
             PROVE  ColumnsHeld'
  OBVIOUS
<1> USE OpenedAssumption DEF OpenedTypes, ColumnsHeld, Opened!Statements, Opened!Rebuilt,
                             Opened!Steps, Opened!At, Opened!Uses, Opened!AfterRebuild,
                             Opened!Missing, Opened!tableVars, Opened!userVars, Opened!nameVars,
                             Opened!Columns, Opened!First, Opened!OwnerColumns, Opened!Later,
                             Opened!Final, AfterSeed, AfterLater, AfterUsers, AfterLogins,
                             AfterOwners, AfterTables
<1>1. CASE Opened!Start
  BY <1>1 DEF Opened!Start
<1>2. CASE Opened!MakeTables
  BY <1>2 DEF Opened!MakeTables
<1>3. CASE Opened!MakeIndex
  BY <1>3 DEF Opened!MakeIndex
<1>4. CASE Opened!MakeShapes
  BY <1>4 DEF Opened!MakeShapes
<1>5. CASE Opened!ColumnsThere
  BY <1>5 DEF Opened!ColumnsThere, Opened!AfterColumns, Opened!Adds
<1>6. CASE Opened!Stop
  BY <1>6 DEF Opened!Stop
<1>7. ASSUME NEW c \in Opened!Columns, Opened!AddColumn(c)
      PROVE  ColumnsHeld'
  BY <1>7 DEF Opened!AddColumn, Opened!Adds
<1>8. ASSUME NEW t \in Opened!Rebuilt, Opened!RebuildLooks(t)
      PROVE  ColumnsHeld'
  BY <1>8 DEF Opened!RebuildLooks
<1>9. ASSUME NEW t \in Opened!Rebuilt, Opened!RebuildCopies(t)
      PROVE  ColumnsHeld'
  BY <1>9 DEF Opened!RebuildCopies
<1>10. ASSUME NEW t \in Opened!Rebuilt, Opened!RebuildDrops(t)
       PROVE  ColumnsHeld'
  BY <1>10 DEF Opened!RebuildDrops
<1>11. ASSUME NEW t \in Opened!Rebuilt, Opened!RebuildRenames(t)
       PROVE  ColumnsHeld'
  BY <1>11 DEF Opened!RebuildRenames
<1>12. CASE Opened!DropLogins
  BY <1>12 DEF Opened!DropLogins
<1>13. CASE Opened!Count
  BY <1>13 DEF Opened!Count
<1>14. CASE Opened!MakeAdmin
  BY <1>14 DEF Opened!MakeAdmin
<1>15. CASE Opened!ForgetPassword
  BY <1>15 DEF Opened!ForgetPassword
<1>16. CASE Opened!Claim
  BY <1>16 DEF Opened!Claim
<1>17. CASE Opened!SeedSeq
  BY <1>17 DEF Opened!SeedSeq
<1>18. CASE Opened!Scrubbed
  BY <1>18 DEF Opened!Scrubbed
<1>19. ASSUME NEW m \in Dirty, Opened!Scrub(m)
       PROVE  ColumnsHeld'
  BY <1>19 DEF Opened!Scrub
<1>20. CASE Opened!NewSession
  BY <1>20 DEF Opened!NewSession
<1>21. CASE Opened!NewAccount
  BY <1>21 DEF Opened!NewAccount
<1>22. CASE Opened!NewOwnerless
  BY <1>22 DEF Opened!NewOwnerless
<1>23. ASSUME NEW n \in names, Opened!DeleteSession(n)
       PROVE  ColumnsHeld'
  BY <1>23 DEF Opened!DeleteSession
<1>24. ASSUME NEW t \in Opened!Rebuilt, Opened!StoresRow(t)
       PROVE  ColumnsHeld'
  BY <1>24 DEF Opened!StoresRow
<1>25. CASE UNCHANGED openedVars
  BY <1>25 DEF openedVars
<1> QED
  BY <1>1, <1>2, <1>3, <1>4, <1>5, <1>6, <1>7, <1>8, <1>9, <1>10, <1>11, <1>12, <1>13, <1>14,
     <1>15, <1>16, <1>17, <1>18, <1>19, <1>20, <1>21, <1>22, <1>23, <1>24, <1>25
     DEF Opened!Next

LEMMA TablesStep ==
  OpenedTypes /\ TablesHeld /\ [Opened!Next]_openedVars => TablesHeld'
<1> SUFFICES ASSUME OpenedTypes, TablesHeld, [Opened!Next]_openedVars
             PROVE  TablesHeld'
  OBVIOUS
<1> USE OpenedAssumption DEF OpenedTypes, TablesHeld, TableHeld, Opened!Statements,
                             Opened!Rebuilt, Opened!Steps, Opened!At, Opened!Uses,
                             Opened!AfterRebuild, Opened!Missing, Opened!tableVars,
                             Opened!userVars, Opened!nameVars, AfterSeed, AfterLater, AfterUsers,
                             AfterLogins, AfterOwners, AfterTables
<1>1. CASE Opened!Start
  BY <1>1 DEF Opened!Start
<1>2. CASE Opened!MakeTables
  BY <1>2 DEF Opened!MakeTables
<1>3. CASE Opened!MakeIndex
  BY <1>3 DEF Opened!MakeIndex
<1>4. CASE Opened!MakeShapes
  BY <1>4 DEF Opened!MakeShapes
<1>5. CASE Opened!ColumnsThere
  BY <1>5 DEF Opened!ColumnsThere, Opened!AfterColumns, Opened!Adds
<1>6. CASE Opened!Stop
  BY <1>6 DEF Opened!Stop
<1>7. ASSUME NEW c \in Opened!Columns, Opened!AddColumn(c)
      PROVE  TablesHeld'
  BY <1>7 DEF Opened!AddColumn, Opened!Adds
<1>8. ASSUME NEW t \in Opened!Rebuilt, Opened!RebuildLooks(t)
      PROVE  TablesHeld'
  <2>1. CASE stored[t].shape = "new"
    <3>1. UNCHANGED <<rebuilding, spare, stored, stopped, had>> /\ rebuilding = "look"
      BY <1>8, <2>1 DEF Opened!RebuildLooks
    <3>2. pc = t /\ pc' = Opened!AfterRebuild(t)
      BY <1>8, <2>1 DEF Opened!RebuildLooks
    <3> QED
      BY <2>1, <3>1, <3>2
  <2>2. CASE spare[t] # Opened!Missing /\ pc' = "failed"
    BY <1>8, <2>2 DEF Opened!RebuildLooks
  <2>3. ASSUME stored[t].shape = "old", spare[t] = Opened!Missing, rebuilding' = "copy",
               spare' = [spare EXCEPT ![t] = [Opened!Missing EXCEPT !.shape = "new"]]
        PROVE  TablesHeld'
    <3>1. /\ \A u \in Opened!Rebuilt \ {t} : spare'[u] = spare[u]
          /\ spare'[t].shape = "new"
      BY <2>3
    <3>2. pc = t /\ UNCHANGED <<pc, stored, stopped, had>>
      BY <1>8, <2>3 DEF Opened!RebuildLooks
    <3> QED
      BY <2>3, <3>1, <3>2
  <2> QED
    BY <1>8, <2>1, <2>2, <2>3 DEF Opened!RebuildLooks
<1>9. ASSUME NEW t \in Opened!Rebuilt, Opened!RebuildCopies(t)
      PROVE  TablesHeld'
  <2>1. /\ \A u \in Opened!Rebuilt \ {t} : spare'[u] = spare[u]
        /\ spare'[t].shape = spare[t].shape /\ spare'[t].rows = stored[t].rows
    BY <1>9 DEF Opened!RebuildCopies
  <2>2. /\ pc = t /\ rebuilding = "copy" /\ rebuilding' = "drop"
        /\ UNCHANGED <<pc, stored, stopped, had>>
    BY <1>9 DEF Opened!RebuildCopies
  <2> QED
    BY <2>1, <2>2
<1>10. ASSUME NEW t \in Opened!Rebuilt, Opened!RebuildDrops(t)
       PROVE  TablesHeld'
  BY <1>10 DEF Opened!RebuildDrops
<1>11. ASSUME NEW t \in Opened!Rebuilt, Opened!RebuildRenames(t)
       PROVE  TablesHeld'
  BY <1>11 DEF Opened!RebuildRenames
<1>12. CASE Opened!DropLogins
  BY <1>12 DEF Opened!DropLogins
<1>13. CASE Opened!Count
  BY <1>13 DEF Opened!Count
<1>14. CASE Opened!MakeAdmin
  BY <1>14 DEF Opened!MakeAdmin
<1>15. CASE Opened!ForgetPassword
  BY <1>15 DEF Opened!ForgetPassword
<1>16. CASE Opened!Claim
  BY <1>16 DEF Opened!Claim
<1>17. CASE Opened!SeedSeq
  BY <1>17 DEF Opened!SeedSeq
<1>18. CASE Opened!Scrubbed
  BY <1>18 DEF Opened!Scrubbed
<1>19. ASSUME NEW m \in Dirty, Opened!Scrub(m)
       PROVE  TablesHeld'
  BY <1>19 DEF Opened!Scrub
<1>20. CASE Opened!NewSession
  BY <1>20 DEF Opened!NewSession
<1>21. CASE Opened!NewAccount
  BY <1>21 DEF Opened!NewAccount
<1>22. CASE Opened!NewOwnerless
  BY <1>22 DEF Opened!NewOwnerless
<1>23. ASSUME NEW n \in names, Opened!DeleteSession(n)
       PROVE  TablesHeld'
  BY <1>23 DEF Opened!DeleteSession
<1>24. ASSUME NEW t \in Opened!Rebuilt, Opened!StoresRow(t)
       PROVE  TablesHeld'
  BY <1>24 DEF Opened!StoresRow
<1>25. CASE UNCHANGED openedVars
  BY <1>25 DEF openedVars
<1> QED
  BY <1>1, <1>2, <1>3, <1>4, <1>5, <1>6, <1>7, <1>8, <1>9, <1>10, <1>11, <1>12, <1>13, <1>14,
     <1>15, <1>16, <1>17, <1>18, <1>19, <1>20, <1>21, <1>22, <1>23, <1>24, <1>25
     DEF Opened!Next

LEMMA UsersStep ==
  OpenedTypes /\ OpenedFlags /\ UsersHeld /\ [Opened!Next]_openedVars => UsersHeld'
<1> SUFFICES ASSUME OpenedTypes, OpenedFlags, UsersHeld, [Opened!Next]_openedVars
             PROVE  UsersHeld'
  OBVIOUS
<1> USE OpenedAssumption DEF OpenedTypes, OpenedFlags, UsersHeld, Opened!Statements,
                             Opened!Rebuilt, Opened!Steps, Opened!At, Opened!Uses,
                             Opened!AfterRebuild, Opened!Missing, Opened!tableVars,
                             Opened!userVars, Opened!nameVars, AfterSeed, AfterLater, AfterUsers,
                             AfterLogins, AfterOwners, AfterTables
<1>1. CASE Opened!Start
  BY <1>1 DEF Opened!Start
<1>2. CASE Opened!MakeTables
  BY <1>2 DEF Opened!MakeTables
<1>3. CASE Opened!MakeIndex
  BY <1>3 DEF Opened!MakeIndex
<1>4. CASE Opened!MakeShapes
  BY <1>4 DEF Opened!MakeShapes
<1>5. CASE Opened!ColumnsThere
  BY <1>5 DEF Opened!ColumnsThere, Opened!AfterColumns, Opened!Adds
<1>6. CASE Opened!Stop
  BY <1>6 DEF Opened!Stop
<1>7. ASSUME NEW c \in Opened!Columns, Opened!AddColumn(c)
      PROVE  UsersHeld'
  BY <1>7 DEF Opened!AddColumn, Opened!Adds
<1>8. ASSUME NEW t \in Opened!Rebuilt, Opened!RebuildLooks(t)
      PROVE  UsersHeld'
  BY <1>8 DEF Opened!RebuildLooks
<1>9. ASSUME NEW t \in Opened!Rebuilt, Opened!RebuildCopies(t)
      PROVE  UsersHeld'
  BY <1>9 DEF Opened!RebuildCopies
<1>10. ASSUME NEW t \in Opened!Rebuilt, Opened!RebuildDrops(t)
       PROVE  UsersHeld'
  BY <1>10 DEF Opened!RebuildDrops
<1>11. ASSUME NEW t \in Opened!Rebuilt, Opened!RebuildRenames(t)
       PROVE  UsersHeld'
  BY <1>11 DEF Opened!RebuildRenames
<1>12. CASE Opened!DropLogins
  BY <1>12 DEF Opened!DropLogins
<1>13. CASE Opened!Count
  BY <1>13 DEF Opened!Count
<1>14. CASE Opened!MakeAdmin
  BY <1>14 DEF Opened!MakeAdmin
<1>15. CASE Opened!ForgetPassword
  BY <1>15 DEF Opened!ForgetPassword
<1>16. CASE Opened!Claim
  BY <1>16 DEF Opened!Claim
<1>17. CASE Opened!SeedSeq
  BY <1>17 DEF Opened!SeedSeq
<1>18. CASE Opened!Scrubbed
  BY <1>18 DEF Opened!Scrubbed
<1>19. ASSUME NEW m \in Dirty, Opened!Scrub(m)
       PROVE  UsersHeld'
  BY <1>19 DEF Opened!Scrub
<1>20. CASE Opened!NewSession
  BY <1>20 DEF Opened!NewSession
<1>21. CASE Opened!NewAccount
  BY <1>21 DEF Opened!NewAccount
<1>22. CASE Opened!NewOwnerless
  BY <1>22 DEF Opened!NewOwnerless
<1>23. ASSUME NEW n \in names, Opened!DeleteSession(n)
       PROVE  UsersHeld'
  BY <1>23 DEF Opened!DeleteSession
<1>24. ASSUME NEW t \in Opened!Rebuilt, Opened!StoresRow(t)
       PROVE  UsersHeld'
  BY <1>24 DEF Opened!StoresRow
<1>25. CASE UNCHANGED openedVars
  BY <1>25 DEF openedVars
<1> QED
  BY <1>1, <1>2, <1>3, <1>4, <1>5, <1>6, <1>7, <1>8, <1>9, <1>10, <1>11, <1>12, <1>13, <1>14,
     <1>15, <1>16, <1>17, <1>18, <1>19, <1>20, <1>21, <1>22, <1>23, <1>24, <1>25
     DEF Opened!Next

LEMMA NamesStep ==
  OpenedTypes /\ NamesHeld /\ [Opened!Next]_openedVars => NamesHeld'
<1> SUFFICES ASSUME OpenedTypes, NamesHeld, [Opened!Next]_openedVars
             PROVE  NamesHeld'
  OBVIOUS
<1> USE OpenedAssumption DEF OpenedTypes, NamesHeld, AfterSeed, Opened!Statements,
                             Opened!Rebuilt, Opened!Steps, Opened!At, Opened!Uses,
                             Opened!AfterRebuild, Opened!Missing, Opened!tableVars,
                             Opened!userVars, Opened!nameVars
<1>1. CASE Opened!Start
  BY <1>1 DEF Opened!Start
<1>2. CASE Opened!MakeTables
  BY <1>2 DEF Opened!MakeTables
<1>3. CASE Opened!MakeIndex
  BY <1>3 DEF Opened!MakeIndex
<1>4. CASE Opened!MakeShapes
  BY <1>4 DEF Opened!MakeShapes
<1>5. CASE Opened!ColumnsThere
  BY <1>5 DEF Opened!ColumnsThere, Opened!AfterColumns, Opened!Adds
<1>6. CASE Opened!Stop
  BY <1>6 DEF Opened!Stop
<1>7. ASSUME NEW c \in Opened!Columns, Opened!AddColumn(c)
      PROVE  NamesHeld'
  BY <1>7 DEF Opened!AddColumn, Opened!Adds
<1>8. ASSUME NEW t \in Opened!Rebuilt, Opened!RebuildLooks(t)
      PROVE  NamesHeld'
  BY <1>8 DEF Opened!RebuildLooks
<1>9. ASSUME NEW t \in Opened!Rebuilt, Opened!RebuildCopies(t)
      PROVE  NamesHeld'
  BY <1>9 DEF Opened!RebuildCopies
<1>10. ASSUME NEW t \in Opened!Rebuilt, Opened!RebuildDrops(t)
       PROVE  NamesHeld'
  BY <1>10 DEF Opened!RebuildDrops
<1>11. ASSUME NEW t \in Opened!Rebuilt, Opened!RebuildRenames(t)
       PROVE  NamesHeld'
  BY <1>11 DEF Opened!RebuildRenames
<1>12. CASE Opened!DropLogins
  BY <1>12 DEF Opened!DropLogins
<1>13. CASE Opened!Count
  BY <1>13 DEF Opened!Count
<1>14. CASE Opened!MakeAdmin
  BY <1>14 DEF Opened!MakeAdmin
<1>15. CASE Opened!ForgetPassword
  BY <1>15 DEF Opened!ForgetPassword
<1>16. CASE Opened!Claim
  BY <1>16 DEF Opened!Claim
<1>17. CASE Opened!SeedSeq
  <2>1. UNCHANGED <<names, gap>>
    BY <1>17 DEF Opened!SeedSeq
  <2>2. CASE seq = 0
    <3>1. seq' = Opened!Cardinality(names)
      BY <1>17, <2>2 DEF Opened!SeedSeq
    <3>2. ~gap => Opened!Contiguous(names)
      BY <2>2 DEF Opened!Contiguous
    <3> QED
      BY <2>1, <3>1, <3>2, SeededWithin
  <2>3. CASE seq # 0
    BY <1>17, <2>1, <2>3 DEF Opened!SeedSeq
  <2> QED
    BY <2>2, <2>3
<1>18. CASE Opened!Scrubbed
  BY <1>18 DEF Opened!Scrubbed
<1>19. ASSUME NEW m \in Dirty, Opened!Scrub(m)
       PROVE  NamesHeld'
  BY <1>19 DEF Opened!Scrub
<1>20. CASE Opened!NewSession
  BY <1>20 DEF Opened!NewSession
<1>21. CASE Opened!NewAccount
  BY <1>21 DEF Opened!NewAccount
<1>22. CASE Opened!NewOwnerless
  BY <1>22 DEF Opened!NewOwnerless
<1>23. ASSUME NEW n \in names, Opened!DeleteSession(n)
       PROVE  NamesHeld'
  BY <1>23 DEF Opened!DeleteSession
<1>24. ASSUME NEW t \in Opened!Rebuilt, Opened!StoresRow(t)
       PROVE  NamesHeld'
  BY <1>24 DEF Opened!StoresRow
<1>25. CASE UNCHANGED openedVars
  BY <1>25 DEF openedVars
<1> QED
  BY <1>1, <1>2, <1>3, <1>4, <1>5, <1>6, <1>7, <1>8, <1>9, <1>10, <1>11, <1>12, <1>13, <1>14,
     <1>15, <1>16, <1>17, <1>18, <1>19, <1>20, <1>21, <1>22, <1>23, <1>24, <1>25
     DEF Opened!Next

LEMMA SessionClashes ==
  ASSUME Opened!NewSession, clash'
  PROVE  clash \/ seq' \in names
BY Zenon DEF Opened!NewSession

LEMMA OpenedFollows ==
  OpenedTypes /\ OpenedFlags /\ ColumnsHeld /\ TablesHeld /\ NamesHeld /\ UsersHeld
    /\ Opened!FailsOnlySo /\ Opened!NamesFresh /\ [Opened!Next]_openedVars =>
    Opened!FailsOnlySo' /\ Opened!NamesFresh'
<1> SUFFICES ASSUME OpenedTypes, OpenedFlags, ColumnsHeld, TablesHeld, NamesHeld,
                    Opened!FailsOnlySo, Opened!NamesFresh, [Opened!Next]_openedVars
             PROVE  Opened!FailsOnlySo' /\ Opened!NamesFresh'
  OBVIOUS
<1> USE SessionClashes
     DEF OpenedTypes, TablesHeld, TableHeld, NamesHeld, AfterSeed, Opened!FailsOnlySo,
         Opened!NamesFresh, Opened!Statements, Opened!Rebuilt, Opened!Steps, Opened!At, Opened!Uses,
         Opened!AfterRebuild, Opened!tableVars, Opened!userVars, Opened!nameVars
<1>1. CASE Opened!Start
  BY <1>1 DEF Opened!Start
<1>2. CASE Opened!MakeTables
  BY <1>2 DEF Opened!MakeTables
<1>3. CASE Opened!MakeIndex
  BY <1>3 DEF Opened!MakeIndex
<1>4. CASE Opened!MakeShapes
  BY <1>4 DEF Opened!MakeShapes
<1>5. CASE Opened!ColumnsThere
  BY <1>5 DEF Opened!ColumnsThere, Opened!AfterColumns, Opened!Adds
<1>6. CASE Opened!Stop
  BY <1>6 DEF Opened!Stop
<1>7. ASSUME NEW c \in Opened!Columns, Opened!AddColumn(c)
      PROVE  Opened!FailsOnlySo' /\ Opened!NamesFresh'
  BY <1>7 DEF Opened!AddColumn, Opened!Adds
<1>8. ASSUME NEW t \in Opened!Rebuilt, Opened!RebuildLooks(t)
      PROVE  Opened!FailsOnlySo' /\ Opened!NamesFresh'
  BY <1>8 DEF Opened!RebuildLooks
<1>9. ASSUME NEW t \in Opened!Rebuilt, Opened!RebuildCopies(t)
      PROVE  Opened!FailsOnlySo' /\ Opened!NamesFresh'
  BY <1>9 DEF Opened!RebuildCopies
<1>10. ASSUME NEW t \in Opened!Rebuilt, Opened!RebuildDrops(t)
       PROVE  Opened!FailsOnlySo' /\ Opened!NamesFresh'
  BY <1>10 DEF Opened!RebuildDrops
<1>11. ASSUME NEW t \in Opened!Rebuilt, Opened!RebuildRenames(t)
       PROVE  Opened!FailsOnlySo' /\ Opened!NamesFresh'
  BY <1>11 DEF Opened!RebuildRenames
<1>12. CASE Opened!DropLogins
  BY <1>12 DEF Opened!DropLogins
<1>13. CASE Opened!Count
  BY <1>13 DEF Opened!Count
<1>14. CASE Opened!MakeAdmin
  BY <1>14 DEF Opened!MakeAdmin
<1>15. CASE Opened!ForgetPassword
  BY <1>15 DEF Opened!ForgetPassword
<1>16. CASE Opened!Claim
  BY <1>16 DEF Opened!Claim
<1>17. CASE Opened!SeedSeq
  BY <1>17 DEF Opened!SeedSeq
<1>18. CASE Opened!Scrubbed
  BY <1>18 DEF Opened!Scrubbed
<1>19. ASSUME NEW m \in Dirty, Opened!Scrub(m)
       PROVE  Opened!FailsOnlySo' /\ Opened!NamesFresh'
  BY <1>19 DEF Opened!Scrub
<1>20. CASE Opened!NewSession
  BY <1>20 DEF Opened!NewSession
<1>21. CASE Opened!NewAccount
  BY <1>21 DEF Opened!NewAccount
<1>22. CASE Opened!NewOwnerless
  BY <1>22 DEF Opened!NewOwnerless
<1>23. ASSUME NEW n \in names, Opened!DeleteSession(n)
       PROVE  Opened!FailsOnlySo' /\ Opened!NamesFresh'
  BY <1>23 DEF Opened!DeleteSession
<1>24. ASSUME NEW t \in Opened!Rebuilt, Opened!StoresRow(t)
       PROVE  Opened!FailsOnlySo' /\ Opened!NamesFresh'
  BY <1>24 DEF Opened!StoresRow
<1>25. CASE UNCHANGED openedVars
  BY <1>25 DEF openedVars
<1> QED
  BY <1>1, <1>2, <1>3, <1>4, <1>5, <1>6, <1>7, <1>8, <1>9, <1>10, <1>11, <1>12, <1>13, <1>14,
     <1>15, <1>16, <1>17, <1>18, <1>19, <1>20, <1>21, <1>22, <1>23, <1>24, <1>25
     DEF Opened!Next

LEMMA OpenedStep == OpenedIInv /\ [Opened!Next]_openedVars => OpenedIInv'
BY OpenedTypesStep, OpenedFlagsStep, ColumnsStep, TablesStep, UsersStep, NamesStep, OpenedFollows
   DEF OpenedIInv

LEMMA OpenedInit == Opened!Init => OpenedIInv
<1> SUFFICES ASSUME Opened!Init
             PROVE  OpenedIInv
  OBVIOUS
<1>1. CASE Opened!Fresh
  <2>1. OpenedFlags
    BY <1>1, Zenon DEF Opened!Fresh, OpenedFlags
  <2>2. ~anonymous /\ ~secured /\ ~password /\ ~ownerless /\ ~clash /\ ~gap
    BY <1>1, Zenon DEF Opened!Fresh
  <2> QED
    BY <1>1, <2>1, <2>2, OpenedAssumption
       DEF Opened!Fresh, OpenedIInv, OpenedTypes, ColumnsHeld, TablesHeld, TableHeld, UsersHeld,
           NamesHeld, Opened!FailsOnlySo, Opened!NamesFresh, Opened!Missing, Opened!Steps,
           Opened!Statements, AfterSeed, AfterLater, AfterUsers, AfterLogins, AfterOwners,
           AfterTables, Opened!Rebuilt, Opened!Contiguous
<1>2. CASE Opened!Left
  <2>1. /\ (secured => accounts > 0 \/ password) /\ secured \in BOOLEAN
        /\ (~gap => Opened!Contiguous(names)) /\ gap \in BOOLEAN /\ ~clash /\ clash \in BOOLEAN
    BY <1>2, Zenon DEF Opened!Left
  <2>2. anonymous \in BOOLEAN /\ ownerless \in BOOLEAN
    BY <1>2, Zenon DEF Opened!Left
  <2>3. password \in BOOLEAN
    <3>1. CASE accounts = 0
      BY <1>2, <3>1, Zenon DEF Opened!Left
    <3>2. CASE accounts # 0
      BY <1>2, <3>2, Zenon DEF Opened!Left
    <3> QED
      BY <3>1, <3>2
  <2>4. OpenedTypes
    BY <1>2, OpenedAssumption
       DEF Opened!Left, OpenedTypes, Opened!Missing, Opened!Steps, Opened!Statements,
           Opened!Rebuilt, Opened!Columns, Opened!First, Opened!OwnerColumns, Opened!Later, Opened!Final
  <2>5. TablesHeld
    BY <1>2, <2>4
       DEF Opened!Left, TablesHeld, TableHeld, Opened!Missing, OpenedTypes, AfterSeed, AfterLater,
           AfterUsers, AfterLogins, AfterOwners, AfterTables, Opened!Rebuilt
  <2> QED
    BY <1>2, <2>1, <2>2, <2>3, <2>4, <2>5
       DEF Opened!Left, OpenedIInv, OpenedFlags, ColumnsHeld, UsersHeld, NamesHeld,
           Opened!FailsOnlySo, Opened!NamesFresh, AfterSeed, AfterLater, AfterUsers, AfterLogins,
           AfterOwners, AfterTables, Opened!Rebuilt
<1> QED
  BY <1>1, <1>2 DEF Opened!Init

LEMMA DevicesInit == Devices!Init => DevicesIInv
<1> SUFFICES ASSUME Devices!Init
             PROVE  DevicesIInv
  OBVIOUS
<1>1. keysCrossed \in BOOLEAN
  BY Zenon DEF Devices!Init
<1> QED
  BY <1>1, PushAssumption
     DEF Devices!Init, DevicesIInv, PushTypes, DevicesHeld, KeyOf, PushStates, EndpointsMade,
         Devices!Ready, Devices!None, Devices!DevicesListed, Devices!DevicesReachable

LEMMA DevicesIInvStep == DevicesIInv /\ [Devices!Next]_deviceVars => DevicesIInv'
<1> SUFFICES ASSUME DevicesIInv, [Devices!Next]_deviceVars
             PROVE  DevicesIInv'
  OBVIOUS
<1>1. CASE \E r \in Pushes : Devices!StoreKey(r)
  <2>1. keysCrossed' \in BOOLEAN
    BY <1>1, Zenon DEF Devices!StoreKey
  <2> QED
    BY <2>1, PushTypesStep, DevicesStep DEF DevicesIInv
<1>2. CASE ~\E r \in Pushes : Devices!StoreKey(r)
  <2>1. UNCHANGED keysCrossed
    BY <1>2
       DEF Devices!Next, Devices!Deliver, Devices!Register, Devices!Unsubscribe, Devices!ReadKey,
           Devices!Keeps, Devices!Replaces, Devices!Post, Devices!Forget, Devices!GivesUp,
           Devices!Send, Devices!Dropped, deviceVars
  <2> QED
    BY <2>1, PushTypesStep, DevicesStep DEF DevicesIInv
<1> QED
  BY <1>1, <1>2

(* handleUpdateUser, handleDeleteProject, deliverPush, migrate: over requests that meet and
   stops between any two steps an instance with accounts keeps an admin and a listed project
   its directory, devices are reached under their account's key, and a database that opens
   is whole. *)
THEOREM AccountsAreHeld == PartsSpec => []AccountsHold
<1> DEFINE IInv == PeopleIInv /\ DevicesIInv /\ OpenedIInv
<1>1. PartsInit => IInv
  <2>1. Opened!Fresh => Opened!Init
    BY DEF Opened!Init
  <2> QED
    BY <2>1, PeopleInit, DevicesInit, OpenedInit DEF PartsInit
<1>2. IInv /\ [PartsNext]_vars => IInv'
  <2> SUFFICES ASSUME IInv, [PartsNext]_vars
               PROVE  IInv'
    OBVIOUS
  <2>1. UNCHANGED accountVars \/ People!Next
    BY Zenon DEF PartsNext, InPeople, InOpened, InWritten, InRead, InEmbedder, InDevices,
                 InDeploys, InTokens, vars, recordVars
  <2>2. UNCHANGED deviceVars \/ Devices!Next
    BY Zenon DEF PartsNext, InPeople, InOpened, InWritten, InRead, InEmbedder, InDevices,
                 InDeploys, InTokens, vars, outsideVars
  <2>3. UNCHANGED openedVars \/ Opened!Next
    BY Zenon DEF PartsNext, InPeople, InOpened, InWritten, InRead, InEmbedder, InDevices,
                 InDeploys, InTokens, vars, recordVars
  <2> QED
    BY <2>1, <2>2, <2>3, PeopleStep, DevicesIInvStep, OpenedStep
<1>3. IInv => AccountsHold
  <2> SUFFICES ASSUME IInv
               PROVE  AccountsHold
    OBVIOUS
  <2>1. People!TypeOK
    <3>1. \A c \in Clients : doing[c].at \in {"idle", "setup", "account", "oidc", "role", "count",
                                              "delete", "sweep", "folder", "remove"}
      BY DEF PeopleIInv, AccountTypes, RequestStates, ToChange, ToDelete
    <3>2. up \in BOOLEAN /\ crossed \in BOOLEAN
      BY Zenon DEF PeopleIInv, UpTypes
    <3> QED
      BY <3>1, <3>2 DEF PeopleIInv, AccountTypes, AccountIds, People!TypeOK
  <2>2. Devices!TypeOK
    <3>1. \A r \in Pushes : request[r].at \in {"ready", "key", "generate", "browser", "post",
                                               "forget", "sending"}
      BY DEF DevicesIInv, PushTypes, PushStates, ToSubscribe, ToSend
    <3> QED
      BY <3>1, PushAssumption
         DEF DevicesIInv, PushTypes, EndpointsMade, Devices!TypeOK, Devices!EndpointIds
  <2>3. Opened!TypeOK
    BY DEF OpenedIInv, OpenedTypes, OpenedFlags, Opened!TypeOK
  <2>4. Opened!OpenedWhole
    BY DEF OpenedIInv, OpenedTypes, ColumnsHeld, TablesHeld, UsersHeld, Opened!OpenedWhole,
           AfterSeed, AfterLater, AfterUsers, AfterLogins, AfterOwners, AfterTables,
           Opened!Rebuilt, Opened!Columns
  <2>5. Opened!RowsCarried
    BY DEF OpenedIInv, OpenedTypes, TablesHeld, TableHeld, Opened!RowsCarried, Opened!Rebuilt
  <2> QED
    BY <2>1, <2>2, <2>3, <2>4, <2>5
       DEF PeopleIInv, DevicesIInv, DevicesHeld, OpenedIInv, AccountsHold
<1> QED
  BY <1>1, <1>2, <1>3, PTL DEF PartsSpec
-----------------------------------------------------------------------------
(* The files of the embedding model. *)
EmbedderIInv ==
  /\ Embedder!TypeOK /\ partial = {}
  /\ loaded # "none" => Embedder!Complete

LEMMA EmbedderInit == Embedder!Init => EmbedderIInv
<1> SUFFICES ASSUME Embedder!Init
             PROVE  EmbedderIInv
  OBVIOUS
<1>1. published \subseteq Embedder!Files
  <2>1. PICK t \in SUBSET Embedder!Tokenizers, p \in {{}, {"pooling"}},
             w \in {{"weights"}, {"index"} \cup Shards} : published = {"config"} \cup t \cup p \cup w
    BY DEF Embedder!Init, Embedder!Repositories
  <2> QED
    BY <2>1 DEF Embedder!Files, Embedder!Tokenizers
<1>2. /\ disk = {} /\ partial = {} /\ loaded = "none" /\ call = "idle" /\ calls = 0
      /\ dirSet \in BOOLEAN
  BY DEF Embedder!Init
<1> QED
  BY <1>1, <1>2, RecallAssumption DEF EmbedderIInv, Embedder!TypeOK

(* What is on disk stays there. *)
LEMMA StaysComplete ==
  ASSUME disk \subseteq disk', Embedder!Complete
  PROVE  Embedder!Complete'
BY DEF Embedder!Complete, Embedder!HasTokenizer

LEMMA NextStages ==
  ASSUME NEW stage \in Embedder!Stages \ {"load"}
  PROVE  /\ Embedder!After(stage) \in Embedder!Stages
         /\ Embedder!Instead(stage) \in Embedder!Stages \cup {"idle"}
BY DEF Embedder!Stages, Embedder!After, Embedder!Instead, Embedder!Tokenizers

LEMMA EmbedderStep == EmbedderIInv /\ [Embedder!Next]_embedderVars => EmbedderIInv'
<1> SUFFICES ASSUME EmbedderIInv, [Embedder!Next]_embedderVars
             PROVE  EmbedderIInv'
  OBVIOUS
<1> USE RecallAssumption DEF EmbedderIInv, Embedder!TypeOK, Embedder!diskVars
<1>1. CASE Embedder!Call
  BY <1>1, StaysComplete DEF Embedder!Call, Embedder!Stages
<1>2. CASE Embedder!AlreadyThere
  BY <1>2, StaysComplete, NextStages DEF Embedder!AlreadyThere, Embedder!Fetching
<1>3. CASE Embedder!FetchFails
  BY <1>3, StaysComplete, NextStages DEF Embedder!FetchFails, Embedder!Fetching
<1>4. CASE Embedder!Load
  BY <1>4, StaysComplete DEF Embedder!Load
<1>5. CASE Embedder!Restart
  <2>1. /\ dirSet' \in BOOLEAN /\ loaded' = "none" /\ call' = "idle" /\ calls' = 0
        /\ UNCHANGED <<published, disk, partial>>
    BY <1>5 DEF Embedder!Restart
  <2> QED
    BY <2>1
<1>6. ASSUME NEW f \in Embedder!Files, Embedder!Fetch(f)
      PROVE  EmbedderIInv'
  BY <1>6, StaysComplete DEF Embedder!Fetch, Embedder!Written
<1>7. CASE UNCHANGED embedderVars
  BY <1>7, StaysComplete DEF embedderVars
<1> QED
  BY <1>1, <1>2, <1>3, <1>4, <1>5, <1>6, <1>7 DEF Embedder!Next
-----------------------------------------------------------------------------
(* Which memories a turn is given. *)
TurnShape == [at : {"none", "listed", "shown"}, active : SUBSET Read!Ids,
              pinned : SUBSET Read!Ids, shown : Seq(Read!Ids)]
RecallTypes ==
  /\ DOMAIN kept \subseteq Read!Ids /\ kept \in [DOMAIN kept -> Read!Rows]
  /\ fading \subseteq Read!Ids
  /\ turn \in TurnShape
  /\ turn.pinned \subseteq turn.active /\ (turn.at # "shown" => turn.shown = <<>>)
  /\ \A i \in 1 .. Len(turn.shown) : turn.shown[i] \in turn.active

RecallIInv == RecallTypes /\ Read!PinnedLead /\ Read!DropsOnlyFaded

LEMMA RankedAll ==
  ASSUME NEW S \in SUBSET Read!Ids, NEW s \in Read!SetToSeqs(S)
  PROVE  /\ s \in Seq(S) /\ \A x \in S : \E i \in 1 .. Len(s) : s[i] = x
<1> DEFINE n == Cardinality(S)
<1>1. IsFiniteSet(S) /\ n \in Nat
  <2>1. IsFiniteSet(1 .. MaxRows)
    BY RecallAssumption, FS_Interval
  <2> QED
    BY <2>1, FS_Subset, FS_CardinalityType DEF Read!Ids
<1>2. Read!Cardinality(S) = n
  BY DEF Read!Cardinality, Cardinality
<1>3. s \in [1 .. n -> S] /\ \A i, j \in 1 .. n : i # j => s[i] # s[j]
  BY <1>2, Zenon DEF Read!SetToSeqs
<1>4. IsFiniteSet(1 .. n) /\ Cardinality(1 .. n) = n
  BY <1>1, FS_Interval
<1>5. s \in Injection(1 .. n, S)
  BY <1>3 DEF Injection, IsInjective
<1>6. s \in Surjection(1 .. n, S)
  BY <1>1, <1>4, <1>5, FS_Injection
<1>7. \A x \in S : \E i \in 1 .. n : s[i] = x
  BY <1>6 DEF Surjection
<1>8. s \in Seq(S) /\ Len(s) = n
  BY <1>1, <1>3
<1> QED
  BY <1>7, <1>8

LEMMA PrefixIs ==
  ASSUME NEW S, NEW s \in Seq(S), NEW k \in 0 .. Len(s)
  PROVE  /\ SubSeq(s, 1, k) \in Seq(S) /\ Len(SubSeq(s, 1, k)) = k
         /\ \A i \in 1 .. k : i \in 1 .. Len(s) /\ SubSeq(s, 1, k)[i] = s[i]
<1>1. Len(s) \in Nat /\ k \in Nat /\ \A i \in 1 .. k : i \in 1 .. Len(s)
  OBVIOUS
<1>2. 1 \in 1 .. Len(s) + 1 /\ k \in 0 .. Len(s)
  BY <1>1
<1>3. /\ SubSeq(s, 1, k) \in Seq(S)
      /\ Len(SubSeq(s, 1, k)) = IF 1 <= k THEN k - 1 + 1 ELSE 0
      /\ \A i \in 1 .. k - 1 + 1 : SubSeq(s, 1, k)[i] = s[1 + i - 1]
  BY <1>2, SubSeqProperties
<1> QED
  BY <1>1, <1>3

(* What fits is the first lines, however many. *)
LEMMA FirstKIsPrefix ==
  ASSUME NEW S, NEW s \in Seq(S)
  PROVE  \E k \in 0 .. Len(s) : Read!FirstK(s) = SubSeq(s, 1, k)
BY RecallAssumption DEF Read!FirstK

LEMMA FittingIsPrefix ==
  ASSUME NEW S, NEW s \in Seq(S)
  PROVE  \E k \in 0 .. Len(s) : Read!Fitting(s) = SubSeq(s, 1, k)
<1> DEFINE Fits(k) == Read!Cost(SubSeq(s, 1, k)) <= Budget
           T == {k \in 0 .. Len(s) : k = Len(s) \/ ~Fits(k + 1)}
<1>0. Len(s) \in Nat
  OBVIOUS
<1>1. \A k \in 0 .. Len(s) : Read!Cost(SubSeq(s, 1, k)) \in Nat
  <2> SUFFICES ASSUME NEW k \in 0 .. Len(s)
               PROVE  Read!Cost(SubSeq(s, 1, k)) \in Nat
    OBVIOUS
  <2>1. Len(SubSeq(s, 1, k)) \in Nat
    BY PrefixIs
  <2> QED
    BY <2>1, RecallAssumption DEF Read!Cost
<1>2. Fits(0)
  <2>1. Len(SubSeq(s, 1, 0)) = 0 /\ SubSeq(s, 1, 0) \in Seq(S)
    BY <1>0, PrefixIs
  <2>2. Read!ToSet(SubSeq(s, 1, 0)) = {}
    BY <2>1 DEF Read!ToSet
  <2> QED
    BY <2>1, <2>2, RecallAssumption DEF Read!Cost
<1>3. Len(s) \in T /\ T \subseteq 0 .. Len(s)
  BY <1>0
<1>4. PICK k \in T : \A j \in T : k <= j
  <2> HIDE DEF T
  <2>1. T \in SUBSET Nat /\ T # {}
    BY <1>0, <1>3
  <2> QED
    BY <2>1, LeastOfNaturals
<1>5. Fits(k)
  <2>1. CASE k = 0
    BY <1>2, <2>1
  <2>2. CASE k # 0
    <3>1. k - 1 \in 0 .. Len(s) /\ k - 1 # Len(s) /\ (k - 1) + 1 = k /\ ~(k <= k - 1)
      BY <1>0, <1>3, <2>2
    <3>2. k - 1 \notin T
      BY <1>4, <3>1
    <3> QED
      BY <3>1, <3>2
  <2> QED
    BY <2>1, <2>2
<1>6. k \in 0 .. Len(s) /\ Fits(k)
      /\ (k = Len(s) \/ Read!Cost(SubSeq(s, 1, k + 1)) > Budget)
  <2>1. k # Len(s) => k + 1 \in 0 .. Len(s) /\ ~Fits(k + 1)
    BY <1>0, <1>4
  <2>2. k # Len(s) => Read!Cost(SubSeq(s, 1, k + 1)) \in Nat
    BY <1>1, <2>1
  <2> QED
    BY <1>4, <1>5, <2>1, <2>2, RecallAssumption
<1> QED
  BY <1>6 DEF Read!Fitting

(* What is shown of a ranking is of what was listed, and no other leads a pinned one. *)
LEMMA ShownLeads ==
  ASSUME RecallTypes, NEW s \in Read!Rankings, NEW k \in 0 .. Len(s),
         NEW p, p = SubSeq(s, 1, k)
  PROVE  /\ p \in Seq(turn.active)
         /\ ~(Read!ToSet(p) \subseteq turn.pinned) => turn.pinned \subseteq Read!ToSet(p)
<1>1. PICK relevant \in SUBSET turn.active : s \in Read!Ranked(relevant, turn.pinned)
  BY DEF Read!Rankings
<1> DEFINE S == relevant \cup turn.pinned
<1>2. /\ S \subseteq turn.active /\ S \subseteq Read!Ids /\ turn.pinned \subseteq S
      /\ s \in Read!SetToSeqs(S)
      /\ \A i, j \in DOMAIN s : i < j /\ s[j] \in turn.pinned => s[i] \in turn.pinned
  BY <1>1 DEF RecallTypes, TurnShape, Read!Ranked, Read!Leads
<1> HIDE DEF S
<1>3. s \in Seq(S) /\ \A x \in S : \E i \in 1 .. Len(s) : s[i] = x
  BY <1>2, RankedAll
<1>4. /\ p \in Seq(S) /\ Len(p) = k
      /\ \A i \in 1 .. k : i \in 1 .. Len(s) /\ p[i] = s[i]
  BY <1>3, PrefixIs
<1>5. p \in Seq(turn.active)
  <2> DEFINE A == turn.active
  <2>1. S \subseteq A
    BY <1>2
  <2> HIDE DEF A
  <2>2. p \in Seq(A)
    BY <1>4, <2>1
  <2> QED
    BY <2>2 DEF A
<1>6. ASSUME ~(Read!ToSet(p) \subseteq turn.pinned), NEW x \in turn.pinned
      PROVE  x \in Read!ToSet(p)
  <2>1. PICK i \in 1 .. k : s[i] \notin turn.pinned
    BY <1>4, <1>6 DEF Read!ToSet
  <2>2. PICK j \in 1 .. Len(s) : s[j] = x
    BY <1>2, <1>3, <1>6
  <2>3. ~(i < j)
    <3>0. DOMAIN s = 1 .. Len(s)
      BY <1>3
    <3>1. i \in DOMAIN s /\ j \in DOMAIN s
      BY <1>4, <2>1, <2>2, <3>0
    <3> QED
      BY <1>2, <1>6, <2>1, <2>2, <3>1
  <2>4. j \in 1 .. k
    BY <2>1, <2>2, <2>3, <1>3
  <2>5. j \in DOMAIN p /\ p[j] = x
    BY <1>4, <2>2, <2>4
  <2> QED
    BY <2>5 DEF Read!ToSet
<1> QED
  BY <1>5, <1>6

LEMMA RecallInit ==
  (part = "read" /\ Read!Init) \/ (kept = <<>> /\ fading = {} /\ turn = Read!NoTurn) => RecallIInv
<1>1. turn = Read!NoTurn =>
        turn \in TurnShape /\ turn.at = "none" /\ turn.pinned = {} /\ turn.shown = <<>>
  BY DEF TurnShape, Read!NoTurn
<1>2. ASSUME fading = {}, turn = Read!NoTurn, DOMAIN kept \subseteq Read!Ids,
             kept \in [DOMAIN kept -> Read!Rows]
      PROVE  RecallIInv
  BY <1>1, <1>2 DEF RecallIInv, RecallTypes, Read!PinnedLead, Read!DropsOnlyFaded
<1>3. CASE Read!Init
  <2>1. PICK ids \in SUBSET Read!Ids : kept \in [ids -> {r \in Read!Rows : r.used = "never"}]
    BY <1>3 DEF Read!Init
  <2>2. DOMAIN kept \subseteq Read!Ids /\ kept \in [DOMAIN kept -> Read!Rows]
    BY <2>1
  <2> QED
    BY <1>2, <1>3, <2>2 DEF Read!Init
<1>4. CASE kept = <<>> /\ fading = {} /\ turn = Read!NoTurn
  BY <1>2, <1>4
<1> QED
  BY <1>3, <1>4

LEMMA RecallStep == RecallIInv /\ [Read!Next]_recallVars => RecallIInv'
<1> SUFFICES ASSUME RecallIInv, [Read!Next]_recallVars
             PROVE  RecallIInv'
  OBVIOUS
<1>0. /\ DOMAIN kept \subseteq Read!Ids /\ kept \in [DOMAIN kept -> Read!Rows]
      /\ fading \subseteq Read!Ids /\ turn \in TurnShape /\ RecallTypes
      /\ \A id \in fading \cap DOMAIN kept : ~kept[id].pinned /\ kept[id].used # "never"
  BY DEF RecallIInv, RecallTypes, Read!DropsOnlyFaded
(* A step that leaves the turn alone... *)
<1>1. ASSUME UNCHANGED turn, DOMAIN kept' \subseteq Read!Ids,
             kept' \in [DOMAIN kept' -> Read!Rows], fading' \subseteq Read!Ids,
             Read!DropsOnlyFaded'
      PROVE  RecallIInv'
  BY <1>1 DEF RecallIInv, RecallTypes, Read!PinnedLead, Read!ToSet
(* ... and one over rows that stay pinned or not, and used. *)
<1>2. ASSUME DOMAIN kept' \subseteq DOMAIN kept, kept' \in [DOMAIN kept' -> Read!Rows],
             fading' \subseteq fading,
             \A id \in DOMAIN kept' : /\ kept'[id].pinned = kept[id].pinned
                                      /\ kept[id].used # "never" => kept'[id].used # "never"
      PROVE  Read!DropsOnlyFaded' /\ DOMAIN kept' \subseteq Read!Ids /\ fading' \subseteq Read!Ids
  BY <1>0, <1>2 DEF Read!DropsOnlyFaded
<1>3. ASSUME NEW id \in DOMAIN kept, NEW row \in Read!Rows, row.pinned = kept[id].pinned,
             kept[id].used # "never" => row.used # "never",
             kept' = [kept EXCEPT ![id] = row], UNCHANGED <<fading, turn>>
      PROVE  RecallIInv'
  BY <1>0, <1>1, <1>2, <1>3
<1>4. ASSUME NEW id \in DOMAIN kept, Read!TimePasses(id)
      PROVE  RecallIInv'
  <2> DEFINE row == [kept[id] EXCEPT !.used = "long ago"]
  <2>1. kept[id] \in Read!Rows
    BY <1>0
  <2>2. row \in Read!Rows /\ row.pinned = kept[id].pinned /\ row.used # "never"
    BY <2>1 DEF Read!Rows
  <2>3. kept' = [kept EXCEPT ![id] = row] /\ UNCHANGED <<fading, turn>>
    BY <1>0, <1>4 DEF Read!TimePasses
  <2> HIDE DEF row
  <2> QED
    BY <1>3, <2>2, <2>3
<1>5. ASSUME NEW id \in DOMAIN kept, Read!Toggle(id)
      PROVE  RecallIInv'
  <2> DEFINE row == [kept[id] EXCEPT !.enabled = ~@]
  <2>1. kept[id] \in Read!Rows
    BY <1>0
  <2>2. row \in Read!Rows /\ row.pinned = kept[id].pinned /\ row.used = kept[id].used
    BY <2>1 DEF Read!Rows
  <2>3. kept' = [kept EXCEPT ![id] = row] /\ UNCHANGED <<fading, turn>>
    BY <1>0, <1>5 DEF Read!Toggle
  <2> HIDE DEF row
  <2> QED
    BY <1>3, <2>2, <2>3
<1>6. ASSUME NEW id, kept' = [i \in DOMAIN kept \ {id} |-> kept[i]], fading' \subseteq fading,
             UNCHANGED turn
      PROVE  RecallIInv'
  <2>1. DOMAIN kept' \subseteq DOMAIN kept /\ kept' \in [DOMAIN kept' -> Read!Rows]
    BY <1>0, <1>6
  <2>2. \A i \in DOMAIN kept' : kept'[i] = kept[i]
    BY <1>6
  <2> QED
    BY <1>1, <1>2, <1>6, <2>1, <2>2
<1>7. ASSUME NEW id \in DOMAIN kept, Read!Forget(id)
      PROVE  RecallIInv'
  BY <1>6, <1>7 DEF Read!Forget, Read!Without
<1>8. ASSUME NEW id \in fading, Read!Drop(id)
      PROVE  RecallIInv'
  BY <1>6, <1>8 DEF Read!Drop, Read!Without
<1>9. ASSUME fading' = fading \cup Read!FadedIds, UNCHANGED kept
      PROVE  Read!DropsOnlyFaded' /\ fading' \subseteq Read!Ids
  BY <1>0, <1>9 DEF Read!FadedIds, Read!Faded, Read!DropsOnlyFaded
<1>10. CASE Read!ListElsewhere
  BY <1>0, <1>1, <1>9, <1>10 DEF Read!ListElsewhere
<1>11. CASE Read!ListForTurn
  <2> DEFINE active == {id \in DOMAIN kept \ Read!FadedIds : kept[id].enabled}
             pinned == {id \in active : kept[id].pinned}
  <2>1. /\ turn.at = "none" /\ fading' = fading \cup Read!FadedIds /\ UNCHANGED kept
        /\ turn' = [turn EXCEPT !.at = "listed", !.active = active, !.pinned = pinned]
    BY <1>11 DEF Read!ListForTurn
  <2>2. active \subseteq Read!Ids /\ pinned \subseteq active
    BY <1>0
  <2> HIDE DEF active, pinned
  <2>3. turn' \in TurnShape /\ turn'.at = "listed" /\ turn'.active = active
        /\ turn'.pinned = pinned /\ turn'.shown = turn.shown
    BY <1>0, <2>1, <2>2 DEF TurnShape
  <2> QED
    <3>1. turn'.shown = <<>> /\ Len(<<>>) = 0
      BY <2>1, <2>3 DEF RecallIInv, RecallTypes
    <3> QED
      BY <1>0, <1>9, <2>1, <2>2, <2>3, <3>1 DEF RecallIInv, RecallTypes, Read!PinnedLead
<1>12. ASSUME turn.at = "listed", NEW s \in Read!Rankings, NEW k \in 0 .. Len(s),
              NEW p, p = SubSeq(s, 1, k), Read!Show(p)
       PROVE  RecallIInv'
  <2>1. /\ p \in Seq(turn.active)
        /\ ~(Read!ToSet(p) \subseteq turn.pinned) => turn.pinned \subseteq Read!ToSet(p)
    BY <1>0, <1>12, ShownLeads
  <2>2. p \in Seq(Read!Ids) /\ \A i \in 1 .. Len(p) : p[i] \in turn.active
    <3>1. turn.active \subseteq Read!Ids
      BY <1>0 DEF TurnShape
    <3> DEFINE A == turn.active
    <3> HIDE DEF A
    <3>2. p \in Seq(A) /\ A \subseteq Read!Ids
      BY <2>1, <3>1 DEF A
    <3>3. p \in Seq(Read!Ids) /\ \A i \in 1 .. Len(p) : p[i] \in A
      BY <3>2
    <3> QED
      BY <3>3 DEF A
  <2>3. /\ turn' = [turn EXCEPT !.at = "shown", !.shown = p] /\ UNCHANGED fading
        /\ kept' = [id \in DOMAIN kept |->
             IF id \in Read!ToSet(p) THEN [kept[id] EXCEPT !.used = "lately"] ELSE kept[id]]
    BY <1>12 DEF Read!Show
  <2>4. /\ turn' \in TurnShape /\ turn'.at = "shown" /\ turn'.shown = p
        /\ turn'.active = turn.active /\ turn'.pinned = turn.pinned
    BY <1>0, <2>2, <2>3 DEF TurnShape
  <2>5. DOMAIN kept' = DOMAIN kept /\ \A id \in DOMAIN kept :
          /\ kept'[id] \in Read!Rows /\ kept'[id].pinned = kept[id].pinned
          /\ kept'[id].used = kept[id].used \/ kept'[id].used = "lately"
    <3> SUFFICES ASSUME NEW id \in DOMAIN kept
                 PROVE  /\ kept'[id] \in Read!Rows /\ kept'[id].pinned = kept[id].pinned
                        /\ kept'[id].used = kept[id].used \/ kept'[id].used = "lately"
      BY <2>3
    <3>1. kept[id] \in Read!Rows
      BY <1>0
    <3>2. kept'[id] = kept[id] \/ kept'[id] = [kept[id] EXCEPT !.used = "lately"]
      BY <2>3
    <3> QED
      BY <3>1, <3>2 DEF Read!Rows
  <2>6. kept' \in [DOMAIN kept' -> Read!Rows]
    BY <2>3, <2>5
  <2>7. Read!DropsOnlyFaded'
    BY <1>2, <2>3, <2>5, <2>6
  <2> QED
    BY <1>0, <2>1, <2>2, <2>3, <2>4, <2>5, <2>6, <2>7
       DEF RecallIInv, RecallTypes, Read!PinnedLead
<1>13. ASSUME NEW s \in Read!Rankings
       PROVE  s \in Seq(turn.active)
  <2>1. PICK relevant \in SUBSET turn.active : s \in Read!Ranked(relevant, turn.pinned)
    BY <1>13 DEF Read!Rankings
  <2> DEFINE S == relevant \cup turn.pinned
             A == turn.active
  <2>2. S \subseteq Read!Ids /\ S \subseteq A /\ s \in Read!SetToSeqs(S)
    BY <1>0, <2>1 DEF RecallTypes, TurnShape, Read!Ranked
  <2> HIDE DEF S, A
  <2>3. s \in Seq(A)
    BY <2>2, RankedAll
  <2> QED
    BY <2>3 DEF A
<1>14. CASE Read!MemoryPrompt
  <2>1. PICK s \in Read!Rankings : turn.at = "listed" /\ Read!Show(Read!Fitting(Read!FirstK(s)))
    BY <1>14 DEF Read!MemoryPrompt
  <2>2. s \in Seq(turn.active)
    BY <1>13, <2>1
  <2>3. PICK k \in 0 .. Len(s) : Read!FirstK(s) = SubSeq(s, 1, k)
    BY <2>2, FirstKIsPrefix
  <2> DEFINE f == SubSeq(s, 1, k)
  <2>4. f \in Seq(turn.active) /\ Len(f) = k
    BY <2>2, PrefixIs
  <2> HIDE DEF f
  <2>5. PICK j \in 0 .. k : Read!Fitting(f) = SubSeq(f, 1, j)
    BY <2>4, FittingIsPrefix
  <2>6. SubSeq(f, 1, j) = SubSeq(s, 1, j) /\ j \in 0 .. Len(s)
    <3>1. j \in 0 .. Len(s) /\ Len(s) \in Nat /\ k \in Nat
      BY <2>2, <2>3, <2>5
    <3>2. /\ Len(SubSeq(f, 1, j)) = j /\ Len(SubSeq(s, 1, j)) = j
          /\ SubSeq(f, 1, j) \in Seq(turn.active) /\ SubSeq(s, 1, j) \in Seq(turn.active)
          /\ \A i \in 1 .. j : SubSeq(f, 1, j)[i] = f[i] /\ SubSeq(s, 1, j)[i] = s[i]
      BY <2>2, <2>4, <2>5, <3>1, PrefixIs
    <3>3. \A i \in 1 .. j : f[i] = s[i]
      <4>1. \A i \in 1 .. k : f[i] = s[i]
        BY <2>2, PrefixIs DEF f
      <4> QED
        BY <2>5, <3>1, <4>1
    <3> DEFINE a == SubSeq(f, 1, j)
               b == SubSeq(s, 1, j)
    <3>4. /\ a \in Seq(turn.active) /\ b \in Seq(turn.active) /\ Len(a) = j /\ Len(b) = j
          /\ \A i \in 1 .. j : a[i] = b[i]
      BY <3>2, <3>3
    <3> HIDE DEF a, b
    <3>5. a = b
      BY <3>4
    <3> QED
      BY <3>1, <3>5 DEF a, b
  <2> QED
    BY <1>12, <2>1, <2>3, <2>5, <2>6 DEF f
<1>15. CASE Read!SearchMemories
  <2>1. PICK s \in Read!Rankings : turn.at = "listed" /\ Read!Show(Read!FirstK(s))
    BY <1>15 DEF Read!SearchMemories
  <2>2. PICK k \in 0 .. Len(s) : Read!FirstK(s) = SubSeq(s, 1, k)
    BY <1>13, FirstKIsPrefix
  <2> QED
    BY <1>12, <2>1, <2>2
<1>16. CASE Read!EndTurn
  <2>1. turn' = Read!NoTurn /\ UNCHANGED <<kept, fading>>
    BY <1>16 DEF Read!EndTurn
  <2>2. turn' \in TurnShape /\ turn'.at = "none" /\ turn'.pinned = {} /\ turn'.shown = <<>>
    BY <2>1 DEF TurnShape, Read!NoTurn
  <2> QED
    BY <1>0, <2>1, <2>2 DEF RecallIInv, RecallTypes, Read!PinnedLead, Read!DropsOnlyFaded
<1>17. CASE UNCHANGED recallVars
  BY <1>17 DEF recallVars, RecallIInv, RecallTypes, Read!PinnedLead, Read!DropsOnlyFaded, Read!ToSet
<1> QED
  BY <1>4, <1>5, <1>7, <1>8, <1>10, <1>11, <1>14, <1>15, <1>16, <1>17 DEF Read!Next

LEMMA RecallAsHeld == RecallIInv => Read!TypeOK /\ Read!PinnedLead /\ Read!DropsOnlyFaded
<1> SUFFICES ASSUME RecallIInv
             PROVE  Read!TypeOK
  BY DEF RecallIInv
<1>1. /\ DOMAIN kept \subseteq Read!Ids /\ \A id \in DOMAIN kept : kept[id] \in Read!Rows
      /\ fading \subseteq Read!Ids /\ turn \in TurnShape /\ turn.pinned \subseteq turn.active
      /\ \A i \in 1 .. Len(turn.shown) : turn.shown[i] \in turn.active
  BY DEF RecallIInv, RecallTypes
<1>2. /\ turn.at \in {"none", "listed", "shown"} /\ turn.active \subseteq Read!Ids
      /\ turn.shown \in Seq(Read!Ids)
  BY <1>1 DEF TurnShape
<1>3. Read!ToSet(turn.shown) \subseteq turn.active
  BY <1>1, <1>2 DEF Read!ToSet
<1> QED
  BY <1>1, <1>2, <1>3 DEF Read!TypeOK
-----------------------------------------------------------------------------
(* The memories of a project, and what is done with one of them. *)
MemoryRows == [text : Written!Texts, edited : BOOLEAN, vector : Written!Vectors]
Rows == 1 .. lastId
FillStates ==
  [at : {"resting"}] \cup [at : {"next"}, by : Written!Models]
    \cup [at : {"embedding"}, by : Written!Models, id : Rows, text : Written!Texts]
CallStates ==
  [at : {"free"}]
    \cup [at : {"listed"}, text : Written!Texts, by : Written!Models, listed : SUBSET Rows]
    \cup [at : {"vector"}, id : Rows, vector : Written!Vectors]

MemoryTypes ==
  /\ memories \in [DOMAIN memories -> MemoryRows] /\ DOMAIN memories \subseteq Rows
  /\ lastId \in 0 .. MaxMade
  /\ filling \in FillStates /\ remembering \in [Callers -> CallStates]

(* What was read of a row that nobody rewrote is what it still says, and a list has no row
   of the text that is to be kept. *)
ReadOfRow ==
  /\ \A id \in DOMAIN memories : ~memories[id].edited =>
       memories[id].vector.of \in {0, memories[id].text}
  /\ /\ filling.at = "embedding" /\ filling.id \in DOMAIN memories
     /\ ~memories[filling.id].edited
     => filling.text = memories[filling.id].text
  /\ \A c \in Callers :
       LET q == remembering[c] IN
       /\ q.at = "vector" /\ q.id \in DOMAIN memories /\ ~memories[q.id].edited =>
            q.vector.of = memories[q.id].text
       /\ q.at = "listed" => \A id \in q.listed \cap DOMAIN memories :
            ~memories[id].edited => memories[id].text # q.text

MemoryIInv == MemoryTypes /\ ReadOfRow /\ Written!KeptOnce /\ met \in BOOLEAN

LEMMA FactsAreTexts == Written!Facts \subseteq Written!Texts
<1> SUFFICES ASSUME NEW r \in Written!Replies, NEW x \in Written!ParseCaptured(r)
             PROVE  x \in Written!Texts
  BY DEF Written!Facts
<1>1. PICK t, u \in 0 .. MaxTexts : r = <<t, u>>
  BY DEF Written!Replies
<1>2. PICK i \in DOMAIN r : x = r[i] /\ r[i] # 0
  BY DEF Written!ParseCaptured, Written!Usable
<1>3. x \in {t, u}
  BY <1>1, <1>2
<1> QED
  BY <1>1, <1>2, <1>3, RecallAssumption DEF Written!Texts

LEMMA CallOfKind ==
  \A q \in CallStates :
    /\ q.at = "listed" => q \in [at : {"listed"}, text : Written!Texts, by : Written!Models,
                                 listed : SUBSET Rows]
    /\ q.at = "vector" => q \in [at : {"vector"}, id : Rows, vector : Written!Vectors]
BY DEF CallStates

LEMMA FillOfKind ==
  \A f \in FillStates :
    /\ f.at = "next" => f \in [at : {"next"}, by : Written!Models]
    /\ f.at = "embedding" => f \in [at : {"embedding"}, by : Written!Models, id : Rows,
                                    text : Written!Texts]
BY DEF FillStates

(* With another row, what was a list of some or a row of some is one. *)
LEMMA MoreRows ==
  ASSUME MemoryTypes, lastId' \in {lastId, lastId + 1}
  PROVE  Rows \subseteq Rows' /\ FillStates \subseteq FillStates' /\ CallStates \subseteq CallStates'
<1>1. Rows \subseteq Rows' /\ SUBSET Rows \subseteq SUBSET Rows'
  BY RecallAssumption DEF MemoryTypes, Rows
<1>2. FillStates \subseteq FillStates'
  <2> DEFINE R == Rows
             N == Rows'
  <2> HIDE DEF R, N
  <2> QED
    BY <1>1 DEF FillStates, R, N
<1>3. CallStates \subseteq CallStates'
  <2> DEFINE R == Rows
             N == Rows'
             S == SUBSET Rows
             T == SUBSET Rows'
  <2> HIDE DEF R, N, S, T
  <2> QED
    BY <1>1 DEF CallStates, R, N, S, T
<1> QED
  BY <1>1, <1>2, <1>3

LEMMA SetVectorTypes ==
  ASSUME MemoryTypes, NEW id, NEW v \in Written!Vectors, Written!SetVector(id, v)
  PROVE  /\ memories' \in [DOMAIN memories' -> MemoryRows] /\ DOMAIN memories' = DOMAIN memories
         /\ \A i \in DOMAIN memories :
              /\ memories'[i].text = memories[i].text
              /\ memories'[i].edited = memories[i].edited
              /\ memories'[i].vector = IF i = id THEN v ELSE memories[i].vector
<1>1. memories' = [i \in DOMAIN memories |->
        IF i = id THEN [memories[i] EXCEPT !.vector = v] ELSE memories[i]]
  BY DEF Written!SetVector
<1>2. ASSUME NEW i \in DOMAIN memories
      PROVE  /\ memories'[i] \in MemoryRows
             /\ memories'[i].text = memories[i].text
             /\ memories'[i].edited = memories[i].edited
             /\ memories'[i].vector = IF i = id THEN v ELSE memories[i].vector
  <2>1. memories[i] \in MemoryRows
    BY DEF MemoryTypes
  <2>2. CASE i = id
    BY <1>1, <2>1, <2>2 DEF MemoryRows
  <2>3. CASE i # id
    BY <1>1, <2>1, <2>3
  <2> QED
    BY <2>2, <2>3
<1> QED
  BY <1>1, <1>2

LEMMA UpdateTypes ==
  ASSUME MemoryTypes, NEW id \in DOMAIN memories, NEW t \in Written!Texts, Written!Update(id, t)
  PROVE  /\ memories' \in [DOMAIN memories' -> MemoryRows] /\ DOMAIN memories' = DOMAIN memories
         /\ memories'[id].edited
         /\ \A i \in DOMAIN memories : i # id => memories'[i] = memories[i]
<1> DEFINE row == [memories[id] EXCEPT !.text = t, !.edited = TRUE]
<1>1. memories[id] \in MemoryRows
  BY DEF MemoryTypes
<1>2. row \in MemoryRows /\ row.edited
  BY <1>1 DEF MemoryRows
<1>3. memories' = [memories EXCEPT ![id] = row]
  BY <1>1 DEF Written!Update, MemoryTypes, MemoryRows
<1> HIDE DEF row
<1> QED
  BY <1>2, <1>3 DEF MemoryTypes

LEMMA AddedTypes ==
  ASSUME MemoryTypes, NEW t \in Written!Texts, Written!AddMemory(t)
  PROVE  /\ lastId' = lastId + 1 /\ lastId' \in 0 .. MaxMade
         /\ lastId' \notin DOMAIN memories
         /\ DOMAIN memories' = DOMAIN memories \cup {lastId'}
         /\ memories' \in [DOMAIN memories' -> MemoryRows] /\ DOMAIN memories' \subseteq Rows'
         /\ memories'[lastId'] = [text |-> t, edited |-> FALSE, vector |-> Written!NoVector]
         /\ \A i \in DOMAIN memories : memories'[i] = memories[i]
<1>1. lastId' = lastId + 1 /\ lastId' \in 0 .. MaxMade /\ lastId \in Nat
  BY RecallAssumption DEF MemoryTypes, Written!AddMemory, Written!NewId, Written!Ids
<1>2. lastId' \notin DOMAIN memories
  BY <1>1 DEF MemoryTypes, Rows
<1> DEFINE row == [text |-> t, edited |-> FALSE, vector |-> Written!NoVector]
<1>3. row \in MemoryRows
  BY RecallAssumption DEF MemoryRows, Written!NoVector, Written!Vectors, Written!Models
<1>4. memories' = [i \in DOMAIN memories \cup {lastId'} |-> IF i = lastId' THEN row ELSE memories[i]]
  BY <1>1 DEF Written!AddMemory, Written!NewId
<1> HIDE DEF row
<1>5. \A i \in DOMAIN memories : memories[i] \in MemoryRows
  BY DEF MemoryTypes
<1>6. DOMAIN memories' \subseteq Rows'
  BY <1>1, <1>4, MoreRows DEF MemoryTypes, Rows
<1> QED
  BY <1>1, <1>2, <1>3, <1>4, <1>5, <1>6 DEF row

LEMMA MemoryTypesStep == MemoryTypes /\ [Written!Next]_memoryVars => MemoryTypes'
<1> SUFFICES ASSUME MemoryTypes, [Written!Next]_memoryVars
             PROVE  MemoryTypes'
  OBVIOUS
<1>0. /\ filling \in FillStates /\ remembering \in [Callers -> CallStates]
      /\ memories \in [DOMAIN memories -> MemoryRows] /\ DOMAIN memories \subseteq Rows
      /\ lastId \in 0 .. MaxMade
  BY DEF MemoryTypes
<1>1. ASSUME UNCHANGED lastId, filling' \in FillStates, remembering' \in [Callers -> CallStates],
             memories' \in [DOMAIN memories' -> MemoryRows], DOMAIN memories' \subseteq Rows
      PROVE  MemoryTypes'
  BY <1>0, <1>1 DEF MemoryTypes, Rows, FillStates, CallStates
<1>2. ASSUME NEW id \in DOMAIN memories, Written!Delete(id)
      PROVE  MemoryTypes'
  BY <1>0, <1>1, <1>2 DEF Written!Delete, Written!Keeping
<1>3. ASSUME NEW id \in DOMAIN memories, Written!BackfillReads(id)
      PROVE  MemoryTypes'
  <2>1. memories[id] \in MemoryRows /\ id \in Rows
    BY <1>0
  <2>2. filling' = [at |-> "embedding", by |-> filling.by, id |-> id, text |-> memories[id].text]
        /\ filling.by \in Written!Models /\ UNCHANGED <<memories, lastId, remembering>>
    BY <1>0, <1>3, FillOfKind DEF Written!BackfillReads
  <2>3. filling' \in FillStates
    BY <2>1, <2>2 DEF FillStates, MemoryRows
  <2> QED
    BY <1>0, <1>1, <2>2, <2>3
<1>4. ASSUME NEW id \in DOMAIN memories, NEW t \in Written!Texts, Written!Update(id, t)
      PROVE  MemoryTypes'
  <2>1. UNCHANGED <<lastId, filling, remembering>>
    BY <1>4 DEF Written!Update
  <2> QED
    BY <1>0, <1>1, <1>4, <2>1, UpdateTypes
<1>5. ASSUME NEW by \in Written!Models, Written!BackfillBegins(by)
      PROVE  MemoryTypes'
  <2>1. filling' = [at |-> "next", by |-> by] /\ UNCHANGED <<memories, lastId, remembering>>
    BY <1>5 DEF Written!BackfillBegins
  <2>2. filling' \in FillStates
    BY <2>1 DEF FillStates
  <2> QED
    BY <1>0, <1>1, <2>1, <2>2
<1>6. CASE Written!BackfillStores
  <2>1. /\ filling.by \in Written!Models /\ filling.text \in Written!Texts
        /\ filling' = [at |-> "next", by |-> filling.by] /\ UNCHANGED <<lastId, remembering>>
        /\ Written!SetVector(filling.id, [of |-> filling.text, by |-> filling.by])
    BY <1>0, <1>6, FillOfKind DEF Written!BackfillStores
  <2>2. [of |-> filling.text, by |-> filling.by] \in Written!Vectors
    BY <2>1, RecallAssumption DEF Written!Vectors, Written!Texts
  <2>3. filling' \in FillStates
    BY <2>1 DEF FillStates
  <2>4. memories' \in [DOMAIN memories' -> MemoryRows] /\ DOMAIN memories' = DOMAIN memories
    BY <2>1, <2>2, SetVectorTypes
  <2> QED
    BY <1>0, <1>1, <2>1, <2>3, <2>4
<1>7. CASE Written!BackfillEnds
  <2>1. filling' = [at |-> "resting"] /\ UNCHANGED <<memories, lastId, remembering>>
    BY <1>7 DEF Written!BackfillEnds, Written!Resting
  <2>2. filling' \in FillStates
    BY <2>1 DEF FillStates
  <2> QED
    BY <1>0, <1>1, <2>1, <2>2
<1>8. ASSUME NEW c \in Callers, NEW q \in CallStates, Written!Step(c, q)
      PROVE  remembering' \in [Callers -> CallStates]
  BY <1>0, <1>8 DEF Written!Step
<1>9. Written!Free \in CallStates
  BY DEF Written!Free, CallStates
<1>10. ASSUME NEW c \in Callers, NEW t \in Written!Facts, NEW by \in Written!Models,
              Written!Lists(c, t, by)
       PROVE  MemoryTypes'
  <2> DEFINE q == [at |-> "listed", text |-> t, by |-> by, listed |-> DOMAIN memories]
  <2>1. q \in CallStates
    BY <1>0, FactsAreTexts DEF CallStates
  <2>2. Written!Step(c, q) /\ UNCHANGED <<memories, lastId, filling>>
    BY <1>10 DEF Written!Lists
  <2> HIDE DEF q
  <2> QED
    BY <1>0, <1>1, <1>8, <2>1, <2>2
<1>11. ASSUME NEW c \in Callers, Written!SameMeaning(c) \/ Written!MemoryIsFull(c)
       PROVE  MemoryTypes'
  BY <1>0, <1>1, <1>8, <1>9, <1>11 DEF Written!SameMeaning, Written!MemoryIsFull
<1>12. ASSUME NEW c \in Callers, Written!Adds(c)
       PROVE  MemoryTypes'
  <2>1. /\ remembering[c].text \in Written!Texts /\ remembering[c].by \in Written!Models
        /\ Written!AddMemory(remembering[c].text) /\ UNCHANGED filling
    BY <1>0, <1>12, CallOfKind DEF Written!Adds
  <2>2. /\ lastId' = lastId + 1 /\ lastId' \in 0 .. MaxMade /\ lastId' \in Rows'
        /\ memories' \in [DOMAIN memories' -> MemoryRows] /\ DOMAIN memories' \subseteq Rows'
    <3>1. /\ lastId' = lastId + 1 /\ lastId' \in 0 .. MaxMade
          /\ memories' \in [DOMAIN memories' -> MemoryRows] /\ DOMAIN memories' \subseteq Rows'
      BY <2>1, AddedTypes
    <3> QED
      BY <1>0, <3>1, RecallAssumption DEF Rows
  <2>3. FillStates \subseteq FillStates' /\ CallStates \subseteq CallStates'
    BY <2>2, MoreRows
  <2> DEFINE v == [of |-> remembering[c].text, by |-> remembering[c].by]
             q == [at |-> "vector", id |-> Written!NewId, vector |-> v]
  <2>4. v \in Written!Vectors
    BY <2>1, RecallAssumption DEF Written!Vectors, Written!Texts
  <2>5. Written!NewId \in Rows'
    BY <2>2 DEF Written!NewId
  <2>6. q \in CallStates'
    <3> HIDE DEF v
    <3> QED
      BY <2>4, <2>5 DEF CallStates
  <2>7. Written!Step(c, q) \/ Written!Step(c, Written!Free)
    BY <1>12 DEF Written!Adds
  <2> HIDE DEF q
  <2>8. remembering' \in [Callers -> CallStates']
    <3> DEFINE S == CallStates'
               T == CallStates
    <3>1. q \in S /\ Written!Free \in S /\ T \subseteq S /\ remembering \in [Callers -> T]
      BY <1>0, <1>9, <2>3, <2>6
    <3> HIDE DEF S, T
    <3>2. remembering' \in [Callers -> S]
      BY <2>7, <3>1 DEF Written!Step
    <3> QED
      BY <3>2 DEF S
  <2> QED
    BY <1>0, <2>1, <2>2, <2>3, <2>8 DEF MemoryTypes
<1>13. ASSUME NEW c \in Callers, Written!AddsVector(c)
       PROVE  MemoryTypes'
  <2>1. /\ remembering[c].vector \in Written!Vectors /\ UNCHANGED <<lastId, filling>>
        /\ Written!Step(c, Written!Free)
        /\ Written!SetVector(remembering[c].id, remembering[c].vector) \/ UNCHANGED memories
    BY <1>0, <1>13, CallOfKind DEF Written!AddsVector
  <2>2. remembering' \in [Callers -> CallStates]
    BY <1>8, <1>9, <2>1
  <2>3. memories' \in [DOMAIN memories' -> MemoryRows] /\ DOMAIN memories' = DOMAIN memories
    BY <1>0, <2>1, SetVectorTypes
  <2> QED
    BY <1>0, <1>1, <2>1, <2>2, <2>3
<1>14. CASE UNCHANGED memoryVars
  BY <1>0, <1>1, <1>14 DEF memoryVars
<1> QED
  BY <1>2, <1>3, <1>4, <1>5, <1>6, <1>7, <1>10, <1>11, <1>12, <1>13, <1>14 DEF Written!Next

LEMMA SameCardinalityOfRows == \A S : Written!Cardinality(S) = Cardinality(S)
BY DEF Written!Cardinality, Cardinality

(* A list that has every row still has them when rows go, or are rewritten. *)
LEMMA KeptOnceStill ==
  ASSUME MemoryTypes, Written!KeptOnce, met => met', DOMAIN memories' \subseteq DOMAIN memories,
         \A i \in DOMAIN memories' : ~memories'[i].edited =>
           ~memories[i].edited /\ memories'[i].text = memories[i].text
  PROVE  Written!KeptOnce'
<1>1. CASE met
  BY <1>1 DEF Written!KeptOnce
<1>2. CASE ~met
  <2>1. IsFiniteSet(DOMAIN memories)
    <3>1. IsFiniteSet(Rows)
      <4>1. 1 \in Int /\ lastId \in Int
        BY RecallAssumption DEF MemoryTypes
      <4> QED
        BY <4>1, FS_Interval DEF Rows
    <3> QED
      BY <3>1, FS_Subset DEF MemoryTypes
  <2>2. /\ Cardinality(DOMAIN memories') <= Cardinality(DOMAIN memories)
        /\ Cardinality(DOMAIN memories') \in Nat /\ Cardinality(DOMAIN memories) \in Nat
    BY <2>1, FS_Subset, FS_CardinalityType
  <2>3. Cardinality(DOMAIN memories) <= MemoryCap
    BY <1>2, SameCardinalityOfRows DEF Written!KeptOnce
  <2>4. Cardinality(DOMAIN memories') <= MemoryCap
    BY <2>2, <2>3, RecallAssumption
  <2>5. \A i, j \in Written!Unedited' : memories'[i].text = memories'[j].text => i = j
    BY <1>2 DEF Written!KeptOnce, Written!Unedited
  <2> QED
    BY <2>4, <2>5, SameCardinalityOfRows DEF Written!KeptOnce
<1> QED
  BY <1>1, <1>2

LEMMA ReadOfRowStep == MemoryTypes /\ ReadOfRow /\ [Written!Next]_memoryVars => ReadOfRow'
<1> SUFFICES ASSUME MemoryTypes, ReadOfRow, [Written!Next]_memoryVars
             PROVE  ReadOfRow'
  OBVIOUS
<1>0. /\ filling \in FillStates /\ remembering \in [Callers -> CallStates]
      /\ memories \in [DOMAIN memories -> MemoryRows] /\ DOMAIN memories \subseteq Rows
      /\ lastId \in Nat
  BY RecallAssumption DEF MemoryTypes
(* Rows that go or are rewritten, and vectors that stay or are what was read. *)
<1>1. ASSUME filling'.at = "embedding" => filling' = filling,
             \A c \in Callers : remembering'[c].at \in {"vector", "listed"} =>
               remembering'[c] = remembering[c],
             DOMAIN memories' \subseteq DOMAIN memories,
             \A i \in DOMAIN memories' : ~memories'[i].edited =>
               /\ ~memories[i].edited /\ memories'[i].text = memories[i].text
               /\ memories'[i].vector.of \in {0, memories[i].text}
      PROVE  ReadOfRow'
  <2>1. \A id \in DOMAIN memories' : ~memories'[id].edited =>
          memories'[id].vector.of \in {0, memories'[id].text}
    BY <1>1
  <2>2. /\ filling'.at = "embedding" /\ filling'.id \in DOMAIN memories'
        /\ ~memories'[filling'.id].edited
        => filling'.text = memories'[filling'.id].text
    BY <1>1 DEF ReadOfRow
  <2>3. ASSUME NEW c \in Callers, remembering'[c].at = "vector",
               remembering'[c].id \in DOMAIN memories', ~memories'[remembering'[c].id].edited
        PROVE  remembering'[c].vector.of = memories'[remembering'[c].id].text
    BY <1>1, <2>3 DEF ReadOfRow
  <2>4. ASSUME NEW c \in Callers, remembering'[c].at = "listed",
               NEW id \in remembering'[c].listed \cap DOMAIN memories', ~memories'[id].edited
        PROVE  memories'[id].text # remembering'[c].text
    BY <1>1, <2>4 DEF ReadOfRow
  <2> QED
    BY <2>1, <2>2, <2>3, <2>4 DEF ReadOfRow
<1>2. \A i \in DOMAIN memories : ~memories[i].edited =>
        memories[i].vector.of \in {0, memories[i].text}
  BY DEF ReadOfRow
<1>3. ASSUME NEW id \in DOMAIN memories, Written!Delete(id)
      PROVE  ReadOfRow'
  BY <1>1, <1>2, <1>3 DEF Written!Delete, Written!Keeping
<1>4. ASSUME NEW id \in DOMAIN memories, Written!BackfillReads(id)
      PROVE  ReadOfRow'
  <2>1. /\ filling' = [at |-> "embedding", by |-> filling.by, id |-> id, text |-> memories[id].text]
        /\ UNCHANGED <<memories, remembering>>
    BY <1>4 DEF Written!BackfillReads
  <2>2. filling'.id = id /\ filling'.text = memories[id].text
    BY <2>1
  <2> QED
    BY <2>1, <2>2 DEF ReadOfRow
<1>5. ASSUME NEW id \in DOMAIN memories, NEW t \in Written!Texts, Written!Update(id, t)
      PROVE  ReadOfRow'
  <2>1. UNCHANGED <<filling, remembering>>
    BY <1>5 DEF Written!Update
  <2>2. /\ DOMAIN memories' = DOMAIN memories /\ memories'[id].edited
        /\ \A i \in DOMAIN memories : i # id => memories'[i] = memories[i]
    BY <1>5, UpdateTypes
  <2> QED
    BY <1>1, <1>2, <2>1, <2>2
<1>6. ASSUME NEW by \in Written!Models, Written!BackfillBegins(by)
      PROVE  ReadOfRow'
  BY <1>1, <1>2, <1>6 DEF Written!BackfillBegins
<1>7. ASSUME NEW id, NEW v \in Written!Vectors, Written!SetVector(id, v),
             id \in DOMAIN memories /\ ~memories[id].edited => v.of = memories[id].text,
             filling'.at = "embedding" => filling' = filling,
             \A c \in Callers : remembering'[c].at \in {"vector", "listed"} =>
               remembering'[c] = remembering[c]
      PROVE  ReadOfRow'
  <2>1. /\ DOMAIN memories' = DOMAIN memories
        /\ \A i \in DOMAIN memories :
             /\ memories'[i].text = memories[i].text
             /\ memories'[i].edited = memories[i].edited
             /\ memories'[i].vector = IF i = id THEN v ELSE memories[i].vector
    BY <1>7, SetVectorTypes
  <2> QED
    BY <1>1, <1>2, <1>7, <2>1
<1>8. CASE Written!BackfillStores
  <2> DEFINE v == [of |-> filling.text, by |-> filling.by]
  <2>1. /\ filling.by \in Written!Models /\ filling.text \in Written!Texts
        /\ filling' = [at |-> "next", by |-> filling.by] /\ UNCHANGED remembering
        /\ Written!SetVector(filling.id, v) /\ filling.at = "embedding"
    BY <1>0, <1>8, FillOfKind DEF Written!BackfillStores
  <2>2. v \in Written!Vectors /\ v.of = filling.text
    BY <2>1, RecallAssumption DEF Written!Vectors, Written!Texts
  <2>3. filling.id \in DOMAIN memories /\ ~memories[filling.id].edited =>
          v.of = memories[filling.id].text
    BY <2>1, <2>2 DEF ReadOfRow
  <2> HIDE DEF v
  <2> QED
    BY <1>7, <2>1, <2>2, <2>3
<1>9. CASE Written!BackfillEnds
  BY <1>1, <1>2, <1>9 DEF Written!BackfillEnds, Written!Resting
<1>10. ASSUME NEW c \in Callers, NEW t \in Written!Facts, NEW by \in Written!Models,
              Written!Lists(c, t, by)
       PROVE  ReadOfRow'
  <2> DEFINE q == [at |-> "listed", text |-> t, by |-> by, listed |-> DOMAIN memories]
  <2>1. /\ remembering' = [remembering EXCEPT ![c] = q] /\ UNCHANGED <<memories, filling>>
        /\ \A id \in DOMAIN memories : memories[id].text # t
    BY <1>10 DEF Written!Lists, Written!Step, Written!New
  <2>2. q.at = "listed" /\ q.text = t /\ q.listed = DOMAIN memories
    OBVIOUS
  <2>3. \A d \in Callers : remembering'[d] = IF d = c THEN q ELSE remembering[d]
    BY <1>0, <2>1
  <2> HIDE DEF q
  <2> QED
    BY <2>1, <2>2, <2>3 DEF ReadOfRow
<1>11. ASSUME NEW c \in Callers, Written!Step(c, Written!Free)
       PROVE  \A d \in Callers : remembering'[d].at \in {"vector", "listed"} =>
                remembering'[d] = remembering[d]
  BY <1>0, <1>11 DEF Written!Step, Written!Free
<1>12. ASSUME NEW c \in Callers, Written!SameMeaning(c) \/ Written!MemoryIsFull(c)
       PROVE  ReadOfRow'
  BY <1>1, <1>2, <1>11, <1>12 DEF Written!SameMeaning, Written!MemoryIsFull
<1>13. ASSUME NEW c \in Callers, Written!Adds(c)
       PROVE  ReadOfRow'
  <2> DEFINE text == remembering[c].text
             new == Written!NewId
             v == [of |-> text, by |-> remembering[c].by]
             q == [at |-> "vector", id |-> new, vector |-> v]
  <2>1. /\ text \in Written!Texts /\ Written!AddMemory(text) /\ UNCHANGED filling
        /\ Written!Step(c, q) \/ Written!Step(c, Written!Free)
    BY <1>0, <1>13, CallOfKind DEF Written!Adds
  <2>2. /\ new = lastId' /\ new = lastId + 1 /\ new \notin Rows /\ new \notin DOMAIN memories
        /\ DOMAIN memories' = DOMAIN memories \cup {new}
        /\ memories'[new] = [text |-> text, edited |-> FALSE, vector |-> Written!NoVector]
        /\ \A i \in DOMAIN memories : memories'[i] = memories[i]
    <3>1. /\ lastId' = lastId + 1 /\ lastId' \notin DOMAIN memories
          /\ DOMAIN memories' = DOMAIN memories \cup {lastId'}
          /\ memories'[lastId'] = [text |-> text, edited |-> FALSE, vector |-> Written!NoVector]
          /\ \A i \in DOMAIN memories : memories'[i] = memories[i]
      BY <2>1, AddedTypes
    <3> QED
      BY <1>0, <3>1 DEF Written!NewId, Rows
  <2>3. memories'[new].text = text /\ memories'[new].vector.of = 0
    BY <2>2 DEF Written!NoVector
  <2>4. q.at = "vector" /\ q.id = new /\ q.vector.of = text
    OBVIOUS
  <2>5. \A d \in Callers : remembering'[d].at \in {"vector", "listed"} =>
          remembering'[d] = remembering[d] \/ remembering'[d] = q
    <3> HIDE DEF q
    <3> QED
      BY <1>0, <1>11, <2>1 DEF Written!Step
  <2> HIDE DEF text, new, v, q
  <2>6. \A id \in DOMAIN memories' : ~memories'[id].edited =>
          memories'[id].vector.of \in {0, memories'[id].text}
    BY <1>2, <2>2, <2>3
  <2>7. /\ filling'.at = "embedding" /\ filling'.id \in DOMAIN memories'
        /\ ~memories'[filling'.id].edited
        => filling'.text = memories'[filling'.id].text
    <3>1. filling.at = "embedding" => filling.id \in Rows
      BY <1>0, FillOfKind
    <3> QED
      BY <2>1, <2>2, <3>1 DEF ReadOfRow
  <2>8. ASSUME NEW d \in Callers, remembering'[d].at = "vector",
               remembering'[d].id \in DOMAIN memories', ~memories'[remembering'[d].id].edited
        PROVE  remembering'[d].vector.of = memories'[remembering'[d].id].text
    <3>1. CASE remembering'[d] = q
      BY <2>3, <2>4, <3>1
    <3>2. CASE remembering'[d] = remembering[d]
      <4>1. remembering[d].id \in Rows
        BY <1>0, <2>8, <3>2, CallOfKind
      <4> QED
        BY <2>2, <2>8, <3>2, <4>1 DEF ReadOfRow
    <3> QED
      BY <2>5, <2>8, <3>1, <3>2
  <2>9. ASSUME NEW d \in Callers, remembering'[d].at = "listed",
               NEW id \in remembering'[d].listed \cap DOMAIN memories', ~memories'[id].edited
        PROVE  memories'[id].text # remembering'[d].text
    <3>1. remembering'[d] = remembering[d]
      BY <2>4, <2>5, <2>9
    <3>2. remembering[d].listed \in SUBSET Rows
      BY <1>0, <2>9, <3>1, CallOfKind
    <3> QED
      BY <2>2, <2>9, <3>1, <3>2 DEF ReadOfRow
  <2> QED
    BY <2>6, <2>7, <2>8, <2>9 DEF ReadOfRow
<1>14. ASSUME NEW c \in Callers, Written!AddsVector(c)
       PROVE  ReadOfRow'
  <2>1. /\ remembering[c].vector \in Written!Vectors /\ UNCHANGED filling
        /\ remembering[c].at = "vector" /\ Written!Step(c, Written!Free)
        /\ Written!SetVector(remembering[c].id, remembering[c].vector) \/ UNCHANGED memories
    BY <1>0, <1>14, CallOfKind DEF Written!AddsVector
  <2>2. CASE UNCHANGED memories
    BY <1>1, <1>2, <1>11, <2>1, <2>2
  <2>3. CASE Written!SetVector(remembering[c].id, remembering[c].vector)
    <3>1. remembering[c].id \in DOMAIN memories /\ ~memories[remembering[c].id].edited =>
            remembering[c].vector.of = memories[remembering[c].id].text
      BY <2>1 DEF ReadOfRow
    <3> QED
      BY <1>7, <1>11, <2>1, <2>3, <3>1
  <2> QED
    BY <2>1, <2>2, <2>3
<1>15. CASE UNCHANGED memoryVars
  BY <1>1, <1>2, <1>15 DEF memoryVars
<1> QED
  BY <1>3, <1>4, <1>5, <1>6, <1>8, <1>9, <1>10, <1>12, <1>13, <1>14, <1>15 DEF Written!Next

LEMMA MetStep == met \in BOOLEAN /\ [Written!Next]_memoryVars => met' \in BOOLEAN /\ (met => met')
<1> SUFFICES ASSUME met \in BOOLEAN, [Written!Next]_memoryVars
             PROVE  met' \in BOOLEAN /\ (met => met')
  OBVIOUS
<1>1. ASSUME UNCHANGED met
      PROVE  met' \in BOOLEAN /\ (met => met')
  BY <1>1
<1>2. ASSUME NEW c, Written!Adds(c)
      PROVE  met' \in BOOLEAN /\ (met => met')
  <2>1. met' = (met \/ ~(DOMAIN memories \subseteq remembering[c].listed))
    BY <1>2, Zenon DEF Written!Adds
  <2> QED
    BY <2>1, Zenon
<1> QED
  BY <1>1, <1>2, Zenon
     DEF Written!Next, Written!Delete, Written!BackfillReads, Written!Update,
         Written!BackfillBegins, Written!BackfillStores, Written!BackfillEnds, Written!Lists,
         Written!SameMeaning, Written!MemoryIsFull, Written!AddsVector, memoryVars

LEMMA KeptOnceStep ==
  MemoryTypes /\ ReadOfRow /\ Written!KeptOnce /\ met \in BOOLEAN /\ [Written!Next]_memoryVars =>
    Written!KeptOnce'
<1> SUFFICES ASSUME MemoryTypes, ReadOfRow, Written!KeptOnce, met \in BOOLEAN,
                    [Written!Next]_memoryVars
             PROVE  Written!KeptOnce'
  OBVIOUS
<1>0. /\ filling \in FillStates /\ remembering \in [Callers -> CallStates] /\ (met => met')
      /\ memories \in [DOMAIN memories -> MemoryRows] /\ DOMAIN memories \subseteq Rows
  BY MetStep DEF MemoryTypes
<1>1. ASSUME DOMAIN memories' \subseteq DOMAIN memories,
             \A i \in DOMAIN memories' : ~memories'[i].edited =>
               ~memories[i].edited /\ memories'[i].text = memories[i].text
      PROVE  Written!KeptOnce'
  BY <1>0, <1>1, KeptOnceStill
<1>2. ASSUME UNCHANGED memories
      PROVE  Written!KeptOnce'
  BY <1>1, <1>2
<1>3. ASSUME NEW id \in DOMAIN memories, Written!Delete(id)
      PROVE  Written!KeptOnce'
  BY <1>1, <1>3 DEF Written!Delete, Written!Keeping
<1>4. ASSUME NEW id \in DOMAIN memories, NEW t \in Written!Texts, Written!Update(id, t)
      PROVE  Written!KeptOnce'
  <2>1. /\ DOMAIN memories' = DOMAIN memories /\ memories'[id].edited
        /\ \A i \in DOMAIN memories : i # id => memories'[i] = memories[i]
    BY <1>4, UpdateTypes
  <2> QED
    BY <1>1, <2>1
<1>5. ASSUME NEW id, NEW v \in Written!Vectors, Written!SetVector(id, v)
      PROVE  Written!KeptOnce'
  <2>1. /\ DOMAIN memories' = DOMAIN memories
        /\ \A i \in DOMAIN memories : /\ memories'[i].text = memories[i].text
                                      /\ memories'[i].edited = memories[i].edited
    BY <1>5, SetVectorTypes
  <2> QED
    BY <1>1, <2>1
<1>6. CASE Written!BackfillStores
  <2> DEFINE v == [of |-> filling.text, by |-> filling.by]
  <2>1. /\ filling.by \in Written!Models /\ filling.text \in Written!Texts
        /\ Written!SetVector(filling.id, v)
    BY <1>0, <1>6, FillOfKind DEF Written!BackfillStores
  <2>2. v \in Written!Vectors
    BY <2>1, RecallAssumption DEF Written!Vectors, Written!Texts
  <2> HIDE DEF v
  <2> QED
    BY <1>5, <2>1, <2>2
<1>7. ASSUME NEW c \in Callers, Written!AddsVector(c)
      PROVE  Written!KeptOnce'
  <2>1. /\ remembering[c].vector \in Written!Vectors
        /\ Written!SetVector(remembering[c].id, remembering[c].vector) \/ UNCHANGED memories
    BY <1>0, <1>7, CallOfKind DEF Written!AddsVector
  <2> QED
    BY <1>2, <1>5, <2>1
(* The list had every row, so none has the text; and there was room. *)
<1>8. ASSUME NEW c \in Callers, Written!Adds(c), ~met'
      PROVE  Written!KeptOnce'
  <2> DEFINE text == remembering[c].text
             listed == remembering[c].listed
             new == lastId'
  <2>1. /\ remembering[c].at = "listed" /\ ~Written!IsFull(c)
        /\ Written!AddMemory(text)
    BY <1>8 DEF Written!Adds
  <2>2. ~met /\ DOMAIN memories \subseteq listed
    <3>1. met' = (met \/ ~(DOMAIN memories \subseteq listed))
      BY <1>8, Zenon DEF Written!Adds
    <3> QED
      BY <1>8, <3>1, Zenon
  <2>3. text \in Written!Texts /\ listed \in SUBSET Rows
    BY <1>0, <2>1, CallOfKind
  <2>4. /\ new \notin DOMAIN memories /\ DOMAIN memories' = DOMAIN memories \cup {new}
        /\ memories'[new] = [text |-> text, edited |-> FALSE, vector |-> Written!NoVector]
        /\ \A i \in DOMAIN memories : memories'[i] = memories[i]
    BY <2>1, <2>3, AddedTypes
  <2>5. memories'[new].text = text
    BY <2>4
  <2>6. \A i \in DOMAIN memories : ~memories[i].edited => memories[i].text # text
    BY <2>1, <2>2 DEF ReadOfRow
  <2>7. \A i, j \in Written!Unedited : memories[i].text = memories[j].text => i = j
    BY <2>2 DEF Written!KeptOnce
  <2> HIDE DEF text, listed, new
  <2>8. \A i, j \in Written!Unedited' : memories'[i].text = memories'[j].text => i = j
    BY <2>4, <2>5, <2>6, <2>7 DEF Written!Unedited
  <2>9. IsFiniteSet(listed)
    <3>1. lastId \in Int /\ 1 \in Int
      BY RecallAssumption DEF MemoryTypes
    <3>2. IsFiniteSet(Rows)
      BY <3>1, FS_Interval DEF Rows
    <3> QED
      BY <2>3, <3>2, FS_Subset
  <2>10. Cardinality(listed) \in Nat /\ Cardinality(listed) < MemoryCap
    <3>1. Cardinality(listed) \in Nat
      BY <2>9, FS_CardinalityType
    <3> QED
      BY <2>1, <3>1, SameCardinalityOfRows, RecallAssumption DEF Written!IsFull, listed
  <2>11. /\ IsFiniteSet(DOMAIN memories) /\ Cardinality(DOMAIN memories) \in Nat
         /\ Cardinality(DOMAIN memories) <= Cardinality(listed)
    BY <2>2, <2>9, FS_Subset, FS_CardinalityType
  <2>12. Cardinality(DOMAIN memories') = Cardinality(DOMAIN memories) + 1
    BY <2>4, <2>11, FS_AddElement
  <2>13. Cardinality(DOMAIN memories') <= MemoryCap
    BY <2>10, <2>11, <2>12, RecallAssumption
  <2> QED
    BY <2>8, <2>13, SameCardinalityOfRows DEF Written!KeptOnce
<1>9. ASSUME NEW c \in Callers, Written!Adds(c)
      PROVE  Written!KeptOnce'
  <2>1. CASE met'
    BY <2>1 DEF Written!KeptOnce
  <2> QED
    BY <1>8, <1>9, <2>1
<1> QED
  BY <1>2, <1>3, <1>4, <1>6, <1>7, <1>9, Zenon
     DEF Written!Next, Written!BackfillReads, Written!BackfillBegins, Written!BackfillEnds,
         Written!Lists, Written!SameMeaning, Written!MemoryIsFull, memoryVars

LEMMA MemoryInit == Written!Init => MemoryIInv
<1> SUFFICES ASSUME Written!Init
             PROVE  MemoryIInv
  OBVIOUS
<1>1. /\ memories = <<>> /\ lastId = 0 /\ filling = [at |-> "resting"] /\ met = FALSE
      /\ remembering = [c \in Callers |-> [at |-> "free"]]
  BY DEF Written!Init, Written!Resting, Written!Free
<1>2. DOMAIN memories = {} /\ memories \in [{} -> MemoryRows]
  BY <1>1
<1>3. MemoryTypes
  BY <1>1, <1>2, RecallAssumption DEF MemoryTypes, FillStates, CallStates
<1>4. ReadOfRow
  BY <1>1, <1>2 DEF ReadOfRow
<1>5. Written!KeptOnce
  <2>1. Cardinality({}) = 0
    BY FS_EmptySet
  <2> QED
    BY <1>2, <2>1, SameCardinalityOfRows, RecallAssumption DEF Written!KeptOnce, Written!Unedited
<1> QED
  BY <1>1, <1>3, <1>4, <1>5 DEF MemoryIInv

LEMMA MemoryStep == MemoryIInv /\ [Written!Next]_memoryVars => MemoryIInv'
BY MemoryTypesStep, ReadOfRowStep, KeptOnceStep, MetStep DEF MemoryIInv

LEMMA MemoryAsHeld == MemoryIInv => Written!TypeOK /\ Written!KeptOnce /\ Written!VectorOfText
<1> SUFFICES ASSUME MemoryIInv
             PROVE  Written!TypeOK /\ Written!VectorOfText
  BY DEF MemoryIInv
<1>1. /\ filling \in FillStates /\ remembering \in [Callers -> CallStates] /\ met \in BOOLEAN
      /\ memories \in [DOMAIN memories -> MemoryRows] /\ DOMAIN memories \subseteq 1 .. lastId
      /\ lastId \in 0 .. MaxMade
  BY DEF MemoryIInv, MemoryTypes, Rows
<1>2. filling.at \in {"resting", "next", "embedding"}
  BY <1>1 DEF FillStates
<1>3. \A c \in Callers : remembering[c].at \in {"free", "listed", "vector"}
  BY <1>1 DEF CallStates
<1>4. \A id \in DOMAIN memories : memories[id] \in MemoryRows
  BY <1>1
<1>5. Written!TypeOK
  BY <1>1, <1>2, <1>3, <1>4 DEF Written!TypeOK, MemoryRows
<1>6. Written!VectorOfText
  BY DEF MemoryIInv, ReadOfRow, Written!VectorOfText, Written!Unedited
<1> QED
  BY <1>5, <1>6

(* remember and backfillEmbeddings: a fact is kept once, under the cap, and a row that
   nobody rewrote has the vector of its own text; Rank and ListMemories: a pinned memory is
   neither passed over for another nor dropped; fetch: the model that embeds them is loaded
   of whole files. *)
THEOREM RecallIsHeld == PartsSpec => []RecallHolds
<1> DEFINE Inv == MemoryIInv /\ RecallIInv /\ EmbedderIInv
<1>1. PartsInit => Inv
  <2>1. PartsInit =>
          (part = "read" /\ Read!Init) \/ (kept = <<>> /\ fading = {} /\ turn = Read!NoTurn)
    BY Zenon DEF PartsInit
  <2> QED
    BY <2>1, MemoryInit, RecallInit, EmbedderInit DEF PartsInit
<1>2. Inv /\ [PartsNext]_vars => Inv'
  <2> SUFFICES ASSUME MemoryIInv, RecallIInv, EmbedderIInv, [PartsNext]_vars
               PROVE  Inv'
    OBVIOUS
  <2>1. CASE InWritten(Written!Next)
    <3>1. MemoryIInv'
      BY <2>1, MemoryStep DEF InWritten
    <3>2. UNCHANGED recallVars /\ UNCHANGED embedderVars
      BY <2>1, Zenon DEF InWritten
    <3> QED
      BY <3>1, <3>2, RecallStep, EmbedderStep
  <2>2. CASE InRead(Read!Next)
    <3>1. RecallIInv'
      BY <2>2, RecallStep DEF InRead
    <3>2. UNCHANGED memoryVars /\ UNCHANGED embedderVars
      BY <2>2, Zenon DEF InRead
    <3> QED
      BY <3>1, <3>2, MemoryStep, EmbedderStep
  <2>3. CASE InEmbedder(Embedder!Next)
    <3>1. EmbedderIInv'
      BY <2>3, EmbedderStep DEF InEmbedder
    <3>2. UNCHANGED memoryVars /\ UNCHANGED recallVars
      BY <2>3, Zenon DEF InEmbedder
    <3> QED
      BY <3>1, <3>2, MemoryStep, RecallStep
  <2>4. CASE UNCHANGED recalledVars
    <3>1. UNCHANGED memoryVars /\ UNCHANGED recallVars /\ UNCHANGED embedderVars
      BY <2>4, Zenon DEF recalledVars
    <3> QED
      BY <3>1, MemoryStep, RecallStep, EmbedderStep
  <2> QED
    BY <2>1, <2>2, <2>3, <2>4, Zenon
       DEF PartsNext, InPeople, InOpened, InDevices, InDeploys, InTokens, vars
<1>3. Inv => RecallHolds
  <2>1. EmbedderIInv => Embedder!TypeOK /\ Embedder!LoadedWhole
    BY DEF EmbedderIInv, Embedder!LoadedWhole
  <2> QED
    BY <2>1, MemoryAsHeld, RecallAsHeld DEF RecallHolds
<1> HIDE DEF Inv
<1> QED
  BY <1>1, <1>2, <1>3, PTL DEF PartsSpec
=============================================================================
