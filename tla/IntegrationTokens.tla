------------------------- MODULE IntegrationTokens -------------------------
(***************************************************************************)
(* Integration tokens (server/src/intman, database/intman): api keys,      *)
(* token configuration and tokens of one integration.  Rows that are       *)
(* updated carry updated_at, here a version, as an optimistic lock.        *)
(***************************************************************************)
EXTENDS Integers, FiniteSets

CONSTANTS
    Tokens,         \* tokens that can be made
    TokenCallers,   \* concurrent calls
    TokenCalls,     \* what a caller may do
    MaximumOpen,    \* maximum_open_tokens at the start
    TokenModes      \* whether calls to get_integration_tokens overlap

ASSUME TokenAssumption == MaximumOpen \in Nat

VARIABLES
    tokMode,
    token,          \* integration_token
    apiKey,         \* the api key's state
    tokConfig,      \* integration_token_config
    tcall           \* the calls

tokVars == <<tokMode, token, apiKey, tokConfig, tcall>>

NoToken == [status |-> "none", expired |-> FALSE, updated |-> 0]

NoTokenCall == [pc |-> "new", left |-> 0, row |-> NoToken, tok |-> CHOOSE t \in Tokens : TRUE]

TokInit ==
    /\ tokMode \in TokenModes
    /\ token = [t \in Tokens |-> NoToken]
    /\ apiKey = [expired |-> FALSE, deleted |-> FALSE, updated |-> 0]
    /\ tokConfig = [maximum |-> MaximumOpen, updated |-> 0]
    /\ tcall = [c \in TokenCallers |-> NoTokenCall]

(* verify_integration_api_key *)
KeyValid == ~apiKey.deleted /\ ~apiKey.expired

(* count_open_integration_tokens *)
OpenTokens == {t \in Tokens : token[t].status = "unused" /\ ~token[t].expired}

EndCall(c) == tcall' = [tcall EXCEPT ![c].pc = "end"]

GetTokens(c, count) ==
    /\ tcall[c].pc = "new"
    /\ tokMode.serial => \A d \in TokenCallers : tcall[d].pc # "generate"
    /\ KeyValid /\ Cardinality(OpenTokens) < tokConfig.maximum
    /\ LET allowed == tokConfig.maximum - Cardinality(OpenTokens)
       IN tcall' = [tcall EXCEPT ![c] = [NoTokenCall EXCEPT !.pc = "generate",
                                                            !.left = IF allowed > count THEN count ELSE allowed]]
    /\ UNCHANGED <<tokMode, token, apiKey, tokConfig>>

(* store_integration_token, once for each token                             *)
StoreToken(c) ==
    /\ tcall[c].pc = "generate" /\ tcall[c].left > 0
    /\ \E t \in Tokens :
        /\ token[t].status = "none"
        /\ token' = [token EXCEPT ![t].status = "unused"]
        /\ tcall' = [tcall EXCEPT ![c].left = @ - 1]
    /\ UNCHANGED <<tokMode, apiKey, tokConfig>>

GenerateEnds(c) ==
    /\ tcall[c].pc = "generate"
    /\ tcall[c].left = 0 \/ \A t \in Tokens : token[t].status # "none"
    /\ EndCall(c)
    /\ UNCHANGED <<tokMode, token, apiKey, tokConfig>>

(***************************************************************************)
(* get_integration_token, update_integration_token                         *)
(***************************************************************************)
ReadToken(c, t) ==
    /\ tcall[c].pc = "new" /\ KeyValid /\ token[t].status # "none"
    /\ tcall' = [tcall EXCEPT ![c] = [NoTokenCall EXCEPT !.pc = "check", !.tok = t, !.row = token[t]]]
    /\ UNCHANGED <<tokMode, token, apiKey, tokConfig>>

(* The match on the new status, given the row that was read                  *)
MayBecome(row, status) ==
    CASE status = row.status  -> FALSE
      [] status = "abused"    -> TRUE
      [] status = "disabled"  -> row.status # "abused"
      [] status = "unused"    -> FALSE
      [] status = "used"      -> ~row.expired

(* UPDATE ... WHERE id = $4 AND updated_at = $5                              *)
UpdateToken(c, status) ==
    /\ tcall[c].pc = "check"
    /\ LET t == tcall[c].tok
           row == tcall[c].row
       IN /\ MayBecome(row, status)
          /\ token' = IF token[t].updated = row.updated
                        THEN [token EXCEPT ![t] = [status |-> status, expired |-> @.expired, updated |-> @.updated + 1]]
                        ELSE token
    /\ EndCall(c)
    /\ UNCHANGED <<tokMode, apiKey, tokConfig>>

UpdateRefused(c, status) ==
    /\ tcall[c].pc = "check" /\ ~MayBecome(tcall[c].row, status)
    /\ EndCall(c)
    /\ UNCHANGED <<tokMode, token, apiKey, tokConfig>>

(***************************************************************************)
(* Administration and time                                                 *)
(***************************************************************************)
(* update_integration_token_config; the delta of two versions read at once   *)
(* is not applied twice.                                                     *)
ReadConfig(c) ==
    /\ tcall[c].pc = "new"
    /\ tcall' = [tcall EXCEPT ![c] = [NoTokenCall EXCEPT !.pc = "config", !.left = tokConfig.maximum,
                                                         !.row = [NoToken EXCEPT !.updated = tokConfig.updated]]]
    /\ UNCHANGED <<tokMode, token, apiKey, tokConfig>>

UpdateConfig(c) ==
    /\ tcall[c].pc = "config"
    /\ tokConfig' = IF tokConfig.updated = tcall[c].row.updated
                      THEN [maximum |-> tcall[c].left + 1, updated |-> tokConfig.updated + 1]
                      ELSE tokConfig
    /\ EndCall(c)
    /\ UNCHANGED <<tokMode, token, apiKey>>

(* delete_integration_api_key                                                *)
DeleteKey(c) ==
    /\ tcall[c].pc = "new" /\ ~apiKey.deleted
    /\ apiKey' = [apiKey EXCEPT !.deleted = TRUE, !.updated = @ + 1]
    /\ EndCall(c)
    /\ UNCHANGED <<tokMode, token, tokConfig>>

ExpireToken(t) ==
    /\ token[t].status # "none" /\ ~token[t].expired
    /\ token' = [token EXCEPT ![t].expired = TRUE]
    /\ UNCHANGED <<tokMode, apiKey, tokConfig, tcall>>

TokNext ==
    \/ \E c \in TokenCallers :
        \/ "get" \in TokenCalls[c] /\ \E n \in 1 .. 2 : GetTokens(c, n)
        \/ StoreToken(c) \/ GenerateEnds(c)
        \/ "update" \in TokenCalls[c] /\ \E t \in Tokens : ReadToken(c, t)
        \/ \E s \in {"unused", "used", "abused", "disabled"} : UpdateToken(c, s) \/ UpdateRefused(c, s)
        \/ "config" \in TokenCalls[c] /\ (ReadConfig(c) \/ DeleteKey(c))
        \/ UpdateConfig(c)
    \/ \E t \in Tokens : ExpireToken(t)

TokSpec == TokInit /\ [][TokNext]_tokVars

(***************************************************************************)
(* Properties                                                              *)
(***************************************************************************)
TokTypeOK ==
    /\ \A t \in Tokens : token[t].status \in {"none", "unused", "used", "abused", "disabled"}
    /\ tokConfig.maximum \in Nat

(* If calls for new tokens do not overlap, an integration never has more    *)
(* open tokens than maximum_open_tokens.                                     *)
OpenBounded == tokMode.serial => Cardinality(OpenTokens) <= tokConfig.maximum

(* Concurrent changes of the configuration are not lost: each one that took  *)
(* effect was based on the value it replaced.                                *)
ConfigChangesKept == tokConfig.maximum = MaximumOpen + tokConfig.updated
=============================================================================
