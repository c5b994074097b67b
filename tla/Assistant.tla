------------------------------ MODULE Assistant ------------------------------
(***************************************************************************)
(* The tool library (contexts/tool-library), the chat of the copilot       *)
(* (contexts/platform) and the guard before the model (platform/ai): one   *)
(* tool of one company, granted to some of its users; one conversation;    *)
(* the rate limit of the key that tool runs, chat and quick questions share. *)
(*                                                                         *)
(* The providers are external: an answer, a refusal or a failure.          *)
(* Abstracted: prompts, inputs, texts and what a classifier says of them,  *)
(* the moderation log; of a turn only who speaks.                          *)
(***************************************************************************)
EXTENDS Naturals, Sequences, FiniteSets

CONSTANTS
    Sessions,   \* requests that can be in flight at the same time
    Users,      \* non-admin users of the company
    Limit,      \* questions allowed per window
    Window,     \* the length of the window
    MaxTime,    \* bound: the clock
    MaxTurns    \* bound: questions in the conversation

ASSUME AssistantAssumption == IsFiniteSet(Sessions)

VARIABLES
    users,      \* the users that have a login
    enabled,    \* CompanyToolSetting: "unset", "on" or "off"
    granted,    \* ToolGrant rows
    wanted,     \* history: the list of the last replacement that was answered
    turns,      \* ChatMessages of the conversation, in order
    chatting,   \* whether the conversation is there
    now, hits,  \* the limiter's clock, and the times it keeps for the key
    session,    \* the requests in flight
    muddled     \* history: the "grants" were replaced by two at once, or in
                \* part; a turn was left "unanswered"

library == <<users, enabled, granted, wanted>>
chat == <<turns, chatting>>
limiter == <<now, hits>>
assistantVars == <<library, chat, limiter, session, muddled>>
-------------------------------------------------------------------------------
Replacing == {"grants.delete", "grants.have", "grants.create"}
Asking == {"tool.ask", "tool.model", "turn.ask", "turn.model", "turn.answer"}
SessionAwaits == {"idle", "tool.grant", "set.write", "turn.write"} \union Replacing \union Asking

Rested == [at |-> "idle", keep |-> {}, have |-> {}, value |-> "unset", found |-> FALSE]

SessionStates ==
    [at : SessionAwaits,
     keep : SUBSET Users,               \* users of the new list that exist
     have : SUBSET Users,               \* grants found after the deletion
     value : {"unset", "on", "off"},    \* the setting to write
     found : BOOLEAN]                   \* there was one when it looked

Speakers == {"user", "assistant"}

AssistantTypeOK ==
    /\ users \subseteq Users /\ granted \subseteq Users /\ wanted \subseteq Users
    /\ enabled \in {"unset", "on", "off"}
    /\ turns \in Seq(Speakers) /\ chatting \in {"none", "open", "deleted"}
    /\ now \in 0..MaxTime /\ hits \in Seq(0..MaxTime)
    /\ session \in [Sessions -> SessionStates]
    /\ muddled \subseteq {"grants", "unanswered"}

AssistantInit ==
    /\ users = Users
    /\ enabled = "unset" /\ granted = {} /\ wanted = {}
    /\ turns = <<>> /\ chatting = "none"
    /\ now = 0 /\ hits = <<>>
    /\ session = [c \in Sessions |-> Rested]
    /\ muddled = {}

InSession(c, label) == session[c].at = label
Move(c, label) == session' = [session EXCEPT ![c].at = label]
Close(c) == session' = [session EXCEPT ![c] = Rested]
-------------------------------------------------------------------------------
(* The company's switch for the tool: found and updated, or else created,  *)
(* which a unique column refuses to the slower of two.                     *)

SetEnabled(c) ==
    /\ InSession(c, "idle")
    /\ \E value \in {"on", "off"} :
         session' = [session EXCEPT ![c].at = "set.write", ![c].value = value,
                                    ![c].found = enabled # "unset"]
    /\ UNCHANGED <<library, chat, limiter, muddled>>

SetEnabledWrite(c) ==
    /\ InSession(c, "set.write")
    /\ enabled' = IF session[c].found \/ enabled = "unset" THEN session[c].value ELSE enabled
    /\ Close(c)
    /\ UNCHANGED <<users, granted, wanted, chat, limiter, muddled>>
-------------------------------------------------------------------------------
(* setGrants: the users that exist, the grants not among them deleted, the *)
(* rest found, the missing created; four calls and no transaction.         *)

SetGrants(c) ==
    /\ InSession(c, "idle")
    /\ \E list \in SUBSET Users :
         session' = [session EXCEPT ![c].at = "grants.delete", ![c].keep = list \intersect users]
    /\ muddled' = IF \E d \in Sessions : session[d].at \in Replacing
                     THEN muddled \union {"grants"} ELSE muddled \ {"grants"}
    /\ UNCHANGED <<library, chat, limiter>>

(* Mutant: the list only ever grows. *)
DeleteNothing(c) ==
    /\ InSession(c, "grants.delete")
    /\ Move(c, "grants.have")
    /\ UNCHANGED <<library, chat, limiter, muddled>>

DeleteUnwanted(c) ==
    /\ InSession(c, "grants.delete")
    /\ granted' = granted \intersect session[c].keep
    /\ Move(c, "grants.have")
    /\ UNCHANGED <<users, enabled, wanted, chat, limiter, muddled>>

FindExisting(c) ==
    /\ InSession(c, "grants.have")
    /\ session' = [session EXCEPT ![c].have = granted, ![c].at = "grants.create"]
    /\ UNCHANGED <<library, chat, limiter, muddled>>

(* One that is there by now, or a user who left, fails the whole createMany. *)
CreateMissing(c) ==
    /\ InSession(c, "grants.create")
    /\ LET missing == session[c].keep \ session[c].have IN
         IF missing \intersect granted = {} /\ missing \subseteq users
           THEN /\ granted' = granted \union missing
                /\ wanted' = session[c].keep
                /\ UNCHANGED muddled
           ELSE muddled' = muddled \union {"grants"} /\ UNCHANGED <<granted, wanted>>
    /\ Close(c)
    /\ UNCHANGED <<users, enabled, chat, limiter>>
-------------------------------------------------------------------------------
(* A tool run: the switch, then the grant, unless HR runs it, then the     *)
(* question to the model.                                                  *)

RunTool(c) ==
    /\ InSession(c, "idle") /\ enabled # "off"
    /\ \/ Move(c, "tool.ask")
       \/ Move(c, "tool.grant")
    /\ UNCHANGED <<library, chat, limiter, muddled>>

HasGrant(c) ==
    /\ InSession(c, "tool.grant")
    /\ \E u \in Users : IF u \in granted THEN Move(c, "tool.ask") ELSE Close(c)
    /\ UNCHANGED <<library, chat, limiter, muddled>>
-------------------------------------------------------------------------------
(* The chat: the question is stored, the model asked, the answer stored.   *)

CreateConversation ==
    /\ chatting = "none" /\ chatting' = "open"
    /\ UNCHANGED <<library, turns, limiter, session, muddled>>

DeleteConversation ==
    /\ chatting = "open" /\ chatting' = "deleted" /\ turns' = <<>>
    /\ UNCHANGED <<library, limiter, session, muddled>>

Send(c) ==
    /\ InSession(c, "idle") /\ chatting = "open"
    /\ Cardinality({i \in 1..Len(turns) : turns[i] = "user"}
                   \union {d \in Sessions : InSession(d, "turn.write")}) < MaxTurns
    /\ Move(c, "turn.write")
    /\ UNCHANGED <<library, chat, limiter, muddled>>

(* Not found: the request ends. *)
AppendQuestion(c) ==
    /\ InSession(c, "turn.write")
    /\ IF chatting = "open"
         THEN turns' = Append(turns, "user") /\ Move(c, "turn.ask")
         ELSE Close(c) /\ UNCHANGED turns
    /\ UNCHANGED <<library, chatting, limiter, muddled>>

AppendAnswer(c) ==
    /\ InSession(c, "turn.answer")
    /\ turns' = IF chatting = "open" THEN Append(turns, "assistant") ELSE turns
    /\ Close(c)
    /\ UNCHANGED <<library, chatting, limiter, muddled>>
-------------------------------------------------------------------------------
(* GuardedAgentService.ask: the limiter, then a refusal, an answer, or an  *)
(* error, which leaves a stored question without an answer.                *)

Recent == SelectSeq(hits, LAMBDA t : t + Window > now)

Unanswered(c) ==
    muddled' = muddled \union {x \in {"unanswered"} : session[c].at \in {"turn.ask", "turn.model"}}

Allow(c) ==
    /\ session[c].at \in {"tool.ask", "turn.ask"}
    /\ Len(Recent) < Limit
    /\ hits' = Append(Recent, now)
    /\ Move(c, IF InSession(c, "tool.ask") THEN "tool.model" ELSE "turn.model")
    /\ UNCHANGED <<library, chat, now, muddled>>

(* Refused for the rate; or for the length, before the limiter is asked. *)
Refuse(c) ==
    /\ session[c].at \in {"tool.ask", "turn.ask"}
    /\ \/ Len(Recent) >= Limit /\ hits' = Recent
       \/ UNCHANGED hits
    /\ Unanswered(c) /\ Close(c)
    /\ UNCHANGED <<library, chat, now>>

(* Mutant: a refusal of the model ends the request. *)
DropRefusals(c) ==
    /\ session[c].at \in {"tool.model", "turn.model"}
    /\ IF InSession(c, "turn.model") THEN Move(c, "turn.answer") \/ Close(c) ELSE Close(c)
    /\ UNCHANGED <<library, chat, limiter, muddled>>

(* An answer, a refusal, or the text of an offline assistant. *)
Model(c) ==
    /\ session[c].at \in {"tool.model", "turn.model"}
    /\ IF InSession(c, "turn.model") THEN Move(c, "turn.answer") ELSE Close(c)
    /\ UNCHANGED <<library, chat, limiter, muddled>>

ProviderFails(c) ==
    /\ session[c].at \in {"tool.model", "turn.model"}
    /\ Unanswered(c) /\ Close(c)
    /\ UNCHANGED <<library, chat, limiter>>

AskCopilot(c) ==
    /\ InSession(c, "idle")
    /\ Move(c, "tool.ask")
    /\ UNCHANGED <<library, chat, limiter, muddled>>
-------------------------------------------------------------------------------
(* A restart forgets the limiter's times and whatever is in flight. *)
Restart ==
    /\ hits' = <<>>
    /\ session' = [c \in Sessions |-> Rested]
    /\ muddled' = muddled
         \union {x \in {"grants"} : \E c \in Sessions : session[c].at \in Replacing}
         \union {x \in {"unanswered"} : \E c \in Sessions :
                   session[c].at \in {"turn.ask", "turn.model", "turn.answer"}}
    /\ UNCHANGED <<library, chat, now>>

Tick ==
    /\ now < MaxTime /\ now' = now + 1
    /\ UNCHANGED <<library, chat, hits, session, muddled>>

(* A login is deleted, and with it its grants. *)
UserLeaves ==
    /\ \E u \in users : users' = users \ {u} /\ granted' = granted \ {u}
    /\ UNCHANGED <<enabled, wanted, chat, limiter, session, muddled>>

LibraryNext ==
    \/ \E c \in Sessions :
         \/ SetEnabled(c) \/ SetEnabledWrite(c)
         \/ SetGrants(c) \/ DeleteUnwanted(c) \/ FindExisting(c) \/ CreateMissing(c)
    \/ UserLeaves \/ Restart

AskNext ==
    \/ \E c \in Sessions :
         \/ RunTool(c) \/ HasGrant(c) \/ AskCopilot(c)
         \/ Send(c) \/ AppendQuestion(c) \/ AppendAnswer(c)
         \/ Allow(c) \/ Refuse(c) \/ Model(c) \/ ProviderFails(c)
    \/ CreateConversation \/ DeleteConversation \/ Tick \/ Restart
-------------------------------------------------------------------------------
(* Properties *)

(* Four calls without a transaction settle on the list that was asked for, *)
(* less the users who left, whatever earlier replacements left half-way:   *)
(* unless the last one crossed another or failed itself.                   *)
GrantsSettle ==
    "grants" \notin muddled /\ (\A c \in Sessions : session[c].at \notin Replacing)
      => granted = wanted \intersect users

(* No answer is stored before its question, however requests overlap; and  *)
(* every question has one once nothing is in flight, the refused ones too, *)
(* unless a request was turned away or lost.                               *)
QuestionsAnswered ==
    LET said(who, n) == Cardinality({i \in 1..n : turns[i] = who}) IN
    /\ \A n \in 1..Len(turns) : said("assistant", n) <= said("user", n)
    /\ "unanswered" \notin muddled /\ (\A c \in Sessions : session[c].at \notin Asking)
         => 2 * said("user", Len(turns)) = Len(turns)
===============================================================================
