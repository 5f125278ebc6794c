-------------------------------- MODULE Grants --------------------------------
(***************************************************************************)
(* Tokens of outside services that the store keeps: the OAuth grant of an  *)
(* MCP server (internal/mcp/oauth.go, http.go, handlers_mcp_oauth.go) and  *)
(* a user's GitHub token (handlers_oauth.go, handlers_auth.go).  Each is   *)
(* read, changed and written back by requests that hold no lock over it.   *)
(***************************************************************************)
EXTENDS Naturals, FiniteSets

CONSTANTS
  Clients,   (* bound: requests at once                                    *)
  MaxTokens, (* bound: grants and refreshes the provider ever gives        *)
  MaxFlows   (* bound: authorizations ever started                         *)

VARIABLES
  grant,     (* the stored mcp.OAuthTokens                                 *)
  issued, valid,     (* tokens given, and refresh tokens the provider takes *)
  flows, begun,      (* authorizations under way, those ever started       *)
  devices, asked,    (* device flows under way, those ever started         *)
  token, source,     (* the GitHub token and what is stored as its source  *)
  doing,     (* what each request is about to do                           *)
  forgot,    (* the user disconnected and has not connected again          *)
  mixed,     (* a request wrote what another was about to write back       *)
  lost,      (* a refreshed grant was never written                        *)
  torn       (* a token was written without its source                     *)

grantVars == <<grant, issued, valid, flows, begun>>
githubVars == <<devices, asked, token, source>>
flagVars == <<forgot, mixed, lost, torn>>
tokenVars == <<grantVars, githubVars, doing, flagVars>>

Idle == [at |-> "idle"]
(* renewable: the provider gave a refresh token with it. *)
NoGrant == [client |-> FALSE, access |-> 0, fresh |-> FALSE, refresh |-> 0, renewable |-> FALSE]
Grant == [client : BOOLEAN, access : 0 .. MaxTokens, fresh : BOOLEAN, refresh : 0 .. MaxTokens,
          renewable : BOOLEAN]

TypeOK ==
  /\ grant \in Grant /\ issued \in 0 .. MaxTokens /\ valid \subseteq 1 .. issued
  /\ begun \in 0 .. MaxFlows /\ flows \subseteq 1 .. begun
  /\ asked \in 0 .. MaxFlows /\ devices \subseteq 1 .. asked
  /\ {token, source} \subseteq {"none", "oauth", "pat"}
  /\ {forgot, mixed, lost, torn} \subseteq BOOLEAN
  /\ \A c \in Clients :
       doing[c].at \in {"idle", "refresh", "save", "expire", "register", "exchange",
                        "poll", "token", "source"}

Init ==
  /\ grant = NoGrant /\ issued = 0 /\ valid = {} /\ flows = {} /\ begun = 0
  /\ devices = {} /\ asked = 0 /\ token = "none" /\ source = "none"
  /\ doing = [c \in Clients |-> Idle]
  /\ forgot = FALSE /\ mixed = FALSE /\ lost = FALSE /\ torn = FALSE
-----------------------------------------------------------------------------
Becomes(c, state) == doing' = [doing EXCEPT ![c] = state]

(* oauthStore.save, over a copy that another request may hold. *)
Holds(c) == doing[c].at \in {"refresh", "save", "expire", "register"}
Store(c, tokens) ==
  /\ grant' = tokens
  /\ mixed' = (mixed \/ \E d \in Clients \ {c} : Holds(d))

GrantExpires ==
  /\ grant.fresh /\ grant' = [grant EXCEPT !.fresh = FALSE]
  /\ UNCHANGED <<issued, valid, flows, begun, githubVars, doing, flagVars>>

(* AccessToken: an expired grant is refreshed. *)
AccessToken(c) ==
  /\ doing[c] = Idle /\ ~grant.fresh /\ grant.refresh # 0
  /\ Becomes(c, [at |-> "refresh", tokens |-> grant])
  /\ UNCHANGED <<grantVars, githubVars, flagVars>>

(* A bug to catch: a refresh token that is not sent again is forgotten. *)
AsSent(old, new) == new

(* "Servers are not required to resend the refresh token" *)
SentOrOld(old, new) == IF new = 0 THEN old ELSE new

(* RefreshAccessToken: the provider takes the refresh token, and may rotate it. *)
Refresh(c) ==
  LET old == doing[c].tokens IN
  /\ doing[c].at = "refresh"
  /\ \/ /\ old.refresh \in valid /\ issued < MaxTokens
        /\ issued' = issued + 1
        /\ \E new \in {0, issued'} :
             /\ valid' = IF new = 0 THEN valid ELSE (valid \ {old.refresh}) \cup {new}
             /\ Becomes(c, [at |-> "save", again |-> TRUE,
                            tokens |-> [old EXCEPT !.access = issued', !.fresh = TRUE,
                                                   !.refresh = SentOrOld(old.refresh, new)]])
     \/ Becomes(c, Idle) /\ UNCHANGED <<issued, valid>>
  /\ UNCHANGED <<grant, flows, begun, githubVars, flagVars>>

(* The save of a refresh or of a callback, or its failure. *)
SaveTokens(c) ==
  /\ doing[c].at = "save"
  /\ \/ /\ Store(c, doing[c].tokens)
        /\ forgot' = (forgot /\ doing[c].again) /\ UNCHANGED lost
     \/ lost' = TRUE /\ UNCHANGED <<grant, mixed, forgot>>
  /\ Becomes(c, Idle)
  /\ UNCHANGED <<issued, valid, flows, begun, githubVars, torn>>

(* postAttempt, on a 401: Invalidate reads the grant and writes it back expired. *)
InvalidateReads(c) ==
  /\ doing[c] = Idle /\ grant # NoGrant
  /\ Becomes(c, [at |-> "expire", tokens |-> grant])
  /\ UNCHANGED <<grantVars, githubVars, flagVars>>

InvalidateSaves(c) ==
  /\ doing[c].at = "expire"
  /\ Store(c, [doing[c].tokens EXCEPT !.fresh = FALSE])
  /\ Becomes(c, Idle)
  /\ UNCHANGED <<issued, valid, flows, begun, githubVars, forgot, lost, torn>>

(* handleMCPOAuthStart: a client is registered once, and a flow awaits its redirect. *)
StartReads(c) ==
  /\ doing[c] = Idle /\ begun < MaxFlows
  /\ IF grant.client
       THEN begun' = begun + 1 /\ flows' = flows \cup {begun'} /\ UNCHANGED doing
       ELSE Becomes(c, [at |-> "register", tokens |-> grant]) /\ UNCHANGED <<begun, flows>>
  /\ UNCHANGED <<grant, issued, valid, githubVars, flagVars>>

StartRegisters(c) ==
  /\ doing[c].at = "register" /\ begun < MaxFlows
  /\ \/ /\ Store(c, [doing[c].tokens EXCEPT !.client = TRUE])
        /\ begun' = begun + 1 /\ flows' = flows \cup {begun'}
     \/ UNCHANGED <<grant, mixed, begun, flows>>
  /\ Becomes(c, Idle)
  /\ UNCHANGED <<issued, valid, githubVars, forgot, lost, torn>>

(* handleMCPOAuthCallback: the flow is taken; it may be too old. *)
CallbackTakes(c, f) ==
  /\ doing[c] = Idle /\ f \in flows
  /\ flows' = flows \ {f}
  /\ doing' \in {doing, [doing EXCEPT ![c] = [at |-> "exchange"]]}
  /\ UNCHANGED <<grant, issued, valid, begun, githubVars, flagVars>>

(* ExchangeCode; the provider may give no refresh token. *)
Exchange(c) ==
  /\ doing[c].at = "exchange"
  /\ \/ /\ issued < MaxTokens /\ issued' = issued + 1
        /\ \E new \in {0, issued'} :
             /\ valid' = valid \cup ({new} \ {0})
             /\ Becomes(c, [at |-> "save", again |-> FALSE,
                            tokens |-> [client |-> TRUE, access |-> issued', fresh |-> TRUE,
                                        refresh |-> new, renewable |-> new # 0]])
     \/ Becomes(c, Idle) /\ UNCHANGED <<issued, valid>>
  /\ UNCHANGED <<grant, flows, begun, githubVars, flagVars>>

Disconnect(c) ==
  /\ doing[c] = Idle /\ grant # NoGrant
  /\ Store(c, NoGrant) /\ forgot' = TRUE
  /\ UNCHANGED <<issued, valid, flows, begun, githubVars, doing, lost, torn>>
-----------------------------------------------------------------------------
WritesGitHub(c) == doing[c].at \in {"token", "source"}

(* handleOAuthDeviceStart *)
DeviceStart ==
  /\ asked < MaxFlows /\ asked' = asked + 1 /\ devices' = devices \cup {asked'}
  /\ UNCHANGED <<grantVars, token, source, doing, flagVars>>

(* handleOAuthDevicePoll: found and not too old; GitHub is asked. *)
DevicePoll(c, f) ==
  /\ doing[c] = Idle /\ f \in devices
  /\ \/ devices' = devices \ {f} /\ UNCHANGED doing
     \/ Becomes(c, [at |-> "poll", flow |-> f]) /\ UNCHANGED devices
  /\ UNCHANGED <<grantVars, asked, token, source, flagVars>>

(* Pending or slow down; denied or expired; a token. *)
DeviceAnswer(c) ==
  /\ doing[c].at = "poll"
  /\ \/ Becomes(c, Idle) /\ devices' \in {devices, devices \ {doing[c].flow}}
     \/ /\ Becomes(c, [at |-> "token", is |-> "oauth", flow |-> doing[c].flow])
        /\ UNCHANGED devices
  /\ UNCHANGED <<grantVars, asked, token, source, flagVars>>

(* handlePutSettings with a token, or with none; the callback of the web flow. *)
PutToken(c) ==
  /\ doing[c] = Idle
  /\ \E is \in {"none", "pat", "oauth"} : Becomes(c, [at |-> "token", is |-> is, flow |-> 0])
  /\ UNCHANGED <<grantVars, githubVars, flagVars>>

WriteToken(c) ==
  /\ doing[c].at = "token"
  /\ \/ /\ token' = doing[c].is /\ Becomes(c, [doing[c] EXCEPT !.at = "source"])
        /\ torn' = (torn \/ \E d \in Clients \ {c} : WritesGitHub(d))
     \/ Becomes(c, Idle) /\ UNCHANGED <<token, torn>>
  /\ UNCHANGED <<grantVars, devices, asked, source, forgot, mixed, lost>>

SourceOf(is) == is

WriteSource(c) ==
  /\ doing[c].at = "source"
  /\ \/ source' = SourceOf(doing[c].is) /\ devices' = devices \ {doing[c].flow} /\ UNCHANGED torn
     \/ torn' = TRUE /\ UNCHANGED <<source, devices>>
  /\ Becomes(c, Idle)
  /\ UNCHANGED <<grantVars, asked, token, forgot, mixed, lost>>

(* The server restarts; flows and requests are gone. *)
Restart ==
  /\ flows' = {} /\ devices' = {} /\ doing' = [c \in Clients |-> Idle]
  /\ lost' = (lost \/ \E c \in Clients : doing[c].at = "save")
  /\ torn' = (torn \/ \E c \in Clients : doing[c].at = "source")
  /\ UNCHANGED <<grant, issued, valid, begun, asked, token, source, forgot, mixed>>

Next ==
  \/ GrantExpires \/ DeviceStart \/ Restart
  \/ \E c \in Clients :
       \/ AccessToken(c) \/ Refresh(c) \/ SaveTokens(c)
       \/ InvalidateReads(c) \/ InvalidateSaves(c)
       \/ StartReads(c) \/ StartRegisters(c) \/ Exchange(c) \/ Disconnect(c)
       \/ \E f \in 1 .. MaxFlows : CallbackTakes(c, f) \/ DevicePoll(c, f)
       \/ DeviceAnswer(c) \/ PutToken(c) \/ WriteToken(c) \/ WriteSource(c)

Spec == Init /\ [][Next]_tokenVars
-----------------------------------------------------------------------------
(* AccessToken: a grant that can be renewed stays so over refreshes that rotate the
   token or do not, 401s, new flows and restarts, unless two requests held copies
   of it at once or a refreshed one was never written; and a grant the user
   disconnected stays away. *)
GrantUsable ==
  ~mixed /\ ~lost /\ (\A c \in Clients : doing[c].at # "save") =>
    /\ grant.renewable => grant.refresh \in valid
    /\ forgot => grant.access = 0

(* githubTokenSource: the source is the stored token's, unless two requests wrote
   at once or one stopped half way. *)
SourceIsTokens ==
  ~torn /\ (\A c \in Clients : doing[c].at # "source") => source = token

(* "handleMCPOAuthDisconnect forgets a server's grant." *)
DisconnectForgets == forgot => grant.access = 0
=============================================================================
