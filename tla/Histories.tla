----------------------------- MODULE Histories -----------------------------
(***************************************************************************)
(* The messages a model is sent, over the Runs of one conversation: how a  *)
(* Run puts its history together, what its tool rounds add, what a fork    *)
(* starts from, and what the three protocols make of it.                   *)
(*   core/agent.go, core/loop.go, core/fork.go   assembly, guides, seed    *)
(*   ext/hook/contextfix                         Fix                       *)
(*   ext/hook/skill                              text for the system part  *)
(*   ext/hook/filetools                          image marks and messages  *)
(*   ext/hook/task                               contextSnapshot           *)
(*   ext/provider/{openai,anthropic,openairesponses}   requests, replies   *)
(*                                                                         *)
(* Texts are reduced to whether they are there, a system message to the    *)
(* parts it was made from, a file to the mark that read_file leaves.       *)
(* AgentLoop has the control of a Run; here a Run may end after any step.  *)
(***************************************************************************)
EXTENDS Integers, Sequences, FiniteSets, SequencesExt

CONSTANTS
  Ids,       \* the tool call ids of the provider, which may repeat them
  Turns,     \* bound: Runs of the conversation
  MaxCalls,  \* bound: tool calls of the conversation
  MaxBlocks, \* bound: blocks of one reply
  Prompt,    \* WithSystemPrompt is used
  Skills,    \* the keywords of each skill
  None       \* no id

ASSUME HistoriesAssumption ==
  /\ None \notin Ids
  /\ Prompt \in BOOLEAN /\ Turns \in Nat \ {0} /\ MaxCalls \in Nat /\ MaxBlocks \in Nat

VARIABLES
  turn, count, marks,  \* Runs, tool calls and image marks so far
  used,    \* the ids used so far
  repeated, \* the provider has used one again
  said,    \* the blocks of the reply that has just come
  msgs,    \* state.Messages
  pc       \* "model": a request is due; "called", "answered": around the tool batch;
           \* "limit", "wrap": before and in finalWrap; "over": the Run has ended

vars == <<turn, count, marks, used, repeated, said, msgs, pc>>

-----------------------------------------------------------------------------
(* Messages                                                                *)

Blank == [role |-> "user", text |-> TRUE, parts |-> <<>>, calls |-> <<>>, id |-> None,
          mark |-> 0, images |-> <<>>]
System(ps)      == [Blank EXCEPT !.role = "system", !.parts = ps]
User            == Blank
Images(is)      == [Blank EXCEPT !.images = is]
Assistant(t, c) == [Blank EXCEPT !.role = "assistant", !.text = t, !.calls = c]
Tool(i, k)      == [Blank EXCEPT !.role = "tool", !.id = i, !.mark = k]

Message == [role : {"system", "user", "assistant", "tool"}, text : BOOLEAN,
            parts : Seq({"prompt", "skill", "guide"}), calls : Seq(Ids), id : Ids \cup {None},
            mark : Nat, images : Seq(Nat)]

CalledIds(ms)   == UNION {ToSet(ms[p].calls) : p \in DOMAIN ms}
AnsweredIds(ms) == {ms[p].id : p \in {q \in DOMAIN ms : ms[q].role = "tool"}}

TypeOK ==
  /\ turn \in 1 .. Turns /\ count \in 0 .. MaxCalls /\ marks \in 0 .. count
  /\ used \subseteq Ids /\ repeated \in BOOLEAN
  /\ pc \in {"model", "called", "answered", "limit", "wrap", "over"}
  /\ msgs \in Seq(Message) /\ msgs # <<>>
  /\ \A p \in DOMAIN msgs :
       /\ msgs[p].calls # <<>> => msgs[p].role = "assistant"
       /\ msgs[p].role = "tool" <=> msgs[p].id # None
       /\ msgs[p].mark # 0 => msgs[p].role = "tool" /\ msgs[p].mark <= marks
       /\ msgs[p].images # <<>> => msgs[p].role = "user"
       /\ msgs[p].parts # <<>> <=> msgs[p].role = "system"
  /\ said # <<>> => Last(msgs).role = "assistant"
  /\ pc = "called" => Last(msgs).role = "assistant" /\ Last(msgs).calls # <<>>

-----------------------------------------------------------------------------
(* The assembly of a Run                                                   *)

\* Fault: an answer serves one call only.
FixConsuming(ms) ==
  LET fill(acc, c) == IF c \in acc.open THEN [acc EXCEPT !.open = @ \ {c}]
                      ELSE [acc EXCEPT !.out = Append(@, Tool(c, 0))]
      add(acc, m) == IF m.role = "tool" /\ m.id \notin CalledIds(ms) THEN acc
                     ELSE FoldLeft(fill, [acc EXCEPT !.out = Append(@, m)], m.calls)
  IN FoldLeft(add, [out |-> <<>>, open |-> AnsweredIds(ms)], ms).out

\* contextfix.Fix.  The answers to lost calls go; right behind the message of a call comes a
\* placeholder for it, unless its id is answered, or was called before, somewhere in the history.
Filled(ms, p, k) ==
  LET c      == ms[p].calls[k]
      before == CalledIds(SubSeq(ms, 1, p - 1)) \cup ToSet(SubSeq(ms[p].calls, 1, k - 1))
  IN IF c \in AnsweredIds(ms) \cup before THEN <<>> ELSE <<Tool(c, 0)>>

WithFilled(ms, p) == <<ms[p]>> \o FlattenSeq([k \in DOMAIN ms[p].calls |-> Filled(ms, p, k)])

Kept(ms, p) ==
  IF ms[p].role = "tool" /\ ms[p].id \notin CalledIds(ms) THEN <<>> ELSE WithFilled(ms, p)

\* Fault: the answers of lost calls stay.
FixKeepingOrphans(ms) == FlattenSeq([p \in DOMAIN ms |-> WithFilled(ms, p)])

Fix(ms) == FlattenSeq([p \in DOMAIN ms |-> Kept(ms, p)])

\* Fault: the system message of the last Run comes along.
WithHistoryWhole(ms, history) == ms \o history

WithHistory(ms, history) ==
  ms \o FlattenSeq([p \in DOMAIN history |->
                      IF history[p].role = "system" THEN <<>> ELSE <<history[p]>>])

\* skill.OnStart and appendGuides: to the system message in front, or to a new one.
AddToSystem(ms, part) ==
  IF ms # <<>> /\ ms[1].role = "system"
    THEN [ms EXCEPT ![1].parts = Append(@, part)]
    ELSE <<System(<<part>>)>> \o ms

\* A skill without keywords applies to every input.
Match(keywords, words) == keywords = {} \/ keywords \cap words # {}

SkillOnStart(ms, words) ==
  IF \E keywords \in Skills : Match(keywords, words) THEN AddToSystem(ms, "skill") ELSE ms

\* Run up to the first iteration: system prompt, history, input, start hooks, guides.
Assemble(history, words) ==
  LET ms == WithHistory(IF Prompt THEN <<System(<<"prompt">>)>> ELSE <<>>, history)
  IN AddToSystem(SkillOnStart(Fix(Append(ms, User)), words), "guide")

Init ==
  /\ turn = 1 /\ count = 0 /\ marks = 0 /\ used = {} /\ repeated = FALSE /\ said = <<>>
  /\ \E words \in SUBSET UNION Skills : msgs = Assemble(<<>>, words)
  /\ pc = "model"

\* The next Run: the host brings the messages along, without some at either end.
NextTurn ==
  /\ pc = "over" /\ turn < Turns
  /\ turn' = turn + 1
  /\ \E cut \in 1 .. Len(msgs), words \in SUBSET UNION Skills :
       \/ msgs' = Assemble(SubSeq(msgs, cut, Len(msgs)), words)
       \/ msgs' = Assemble(SubSeq(msgs, 1, cut), words)
  /\ pc' = "model" /\ said' = <<>>
  /\ UNCHANGED <<count, marks, used, repeated>>

-----------------------------------------------------------------------------
(* The rounds of a Run                                                     *)

\* A reply as its server puts it: blocks of thinking, text and calls, in an order of its own.
Blocks == {<<"thinking", None>>, <<"text", None>>} \cup ({"call"} \X Ids)
Replies ==
  {r \in UNION {[1 .. n -> Blocks] : n \in 0 .. MaxBlocks} : IsInjective(r)}

OfKind(r, kind) ==
  FlattenSeq([k \in DOMAIN r |-> IF r[k][1] = kind THEN <<r[k][2]>> ELSE <<>>])

\* Fault: each call replaces the one before it.
FromContentLast(r) ==
  LET calls == OfKind(r, "call")
  IN Assistant(OfKind(r, "text") # <<>>, IF calls = <<>> THEN calls ELSE <<Last(calls)>>)

\* fromContent: over the blocks of an anthropic reply; the thinking is kept apart.
FromContent(r) == Assistant(OfKind(r, "text") # <<>>, OfKind(r, "call"))

\* fromOutput: over the items of a responses reply, of which a message may hold no text.
FromOutput(items) ==
  Assistant(\E k \in DOMAIN items : items[k][1] = "text", OfKind(items, "call"))

\* fromChatMessage: a chat message has one content, one reasoning and a list of calls.
FromChatMessage(msg) == Assistant(msg.content, msg.calls)
ChatMessage(r) == [content |-> OfKind(r, "text") # <<>>, calls |-> OfKind(r, "call")]

\* The three Invoke, given a reply that arrived whole.
OpenAiInvoke(r)    == FromChatMessage(ChatMessage(r))
AnthropicInvoke(r) == FromContent(r)
ResponsesInvoke(r) == FromOutput(r)

\* The reply enters the history: text, calls, or both, or neither.
Reply(r) ==
  /\ pc = "model"
  /\ count + Len(OfKind(r, "call")) <= MaxCalls
  /\ \E m \in {OpenAiInvoke(r), AnthropicInvoke(r), ResponsesInvoke(r)} : msgs' = Append(msgs, m)
  /\ said' = r
  /\ LET calls == ToSet(OfKind(r, "call"))
     IN /\ count' = count + Len(OfKind(r, "call"))
        /\ pc' = IF Last(msgs').calls = <<>> THEN "over" ELSE "called"
        /\ used' = used \cup calls
        /\ repeated' = (repeated \/ used \cap calls # {})
  /\ UNCHANGED <<turn, marks>>

\* execToolCalls: one answer for each call, in order.  That of read_file on an image is a
\* mark; on a binary file, or with an image handler that declines, it is a text.
ToolBatch(images) ==
  LET calls == Last(msgs).calls
      nth(k) == Cardinality({j \in images : j <= k})
  IN /\ pc = "called"
     /\ images \subseteq DOMAIN calls
     /\ msgs' = msgs \o [k \in DOMAIN calls |->
                           Tool(calls[k], IF k \in images THEN marks + nth(k) ELSE 0)]
     /\ marks' = marks + Cardinality(images)
     /\ pc' = "answered" /\ said' = <<>>
     /\ UNCHANGED <<turn, count, used, repeated>>

\* Fault: the scan for marks does not stop at the assistant message.
WithImagesRescan(ms, loadable) ==
  LET tools == SelectSeq(ms, LAMBDA m : m.role = "tool")
      found == SelectSeq([k \in DOMAIN tools |-> tools[k].mark], LAMBDA k : k \in loadable)
  IN IF found = <<>> THEN ms ELSE Append(ms, Images(found))

\* filetools.OnLoop: the tool messages behind the last assistant message; the marks in them
\* whose files still load; one user message with these images behind the last of them.
WithImages(ms, loadable) ==
  LET start == Max({p \in DOMAIN ms : ms[p].role = "assistant"} \cup {0})
      tools == {p \in start + 1 .. Len(ms) : ms[p].role = "tool"}
      marked(p) == IF ms[p].mark \in loadable THEN <<ms[p].mark>> ELSE <<>>
      found == FlattenSeq([k \in 1 .. Len(ms) - start |-> marked(start + k)])
  IN IF found = <<>> THEN ms ELSE InsertAt(ms, Max(tools) + 1, Images(found))

\* The loop hooks, and on to the next request, or out of the loop after MaxIterations rounds.
OnLoop(loadable) ==
  /\ pc = "answered"
  /\ msgs' = WithImages(msgs, loadable)
  /\ pc' \in {"model", "limit"}
  /\ UNCHANGED <<turn, count, marks, used, repeated, said>>

\* finalWrap: a notice in the user's name, and one more request, ...
FinalWrap ==
  /\ pc = "limit" /\ pc' = "wrap"
  /\ msgs' = Append(msgs, User)
  /\ UNCHANGED <<turn, count, marks, used, repeated, said>>

\* ... of whose reply the text and the thinking are kept, whatever calls it holds.
WrapReply(text) ==
  /\ pc = "wrap" /\ pc' = "over"
  /\ msgs' = Append(msgs, Assistant(text, <<>>))
  /\ UNCHANGED <<turn, count, marks, used, repeated, said>>

\* A hook error, a Stop, cancellation or a failed model call ends the Run here.
End ==
  /\ pc # "over" /\ pc' = "over" /\ said' = <<>>
  /\ UNCHANGED <<turn, count, marks, used, repeated, msgs>>

-----------------------------------------------------------------------------
(* Forks                                                                   *)

\* contextSnapshot: without the reply that holds the task call, and without a user message
\* before it.
ContextSnapshot(ms) ==
  LET before == Front(ms)
  IN IF before # <<>> /\ Last(before).role = "user" THEN Front(before) ELSE before

\* fork: no system prompt, no start hooks and no guides of its own.
ForkMessages(seed) == Append(seed, User)

\* What a model is sent now: by the Run, in its rounds or to wrap it up, or by the fork of a
\* task call.
Requests ==
  CASE pc \in {"model", "wrap"} -> {msgs}
    [] pc = "called" -> {ForkMessages(ContextSnapshot(msgs))}
    [] pc \in {"answered", "limit", "over"} -> {}

-----------------------------------------------------------------------------
(* Protocols                                                               *)

Block(role, kind, of) == [role |-> role, kind |-> kind, of |-> of]
TextOf(m, role)   == IF m.text THEN <<Block(role, "text", None)>> ELSE <<>>
ImagesOf(m)       == [k \in DOMAIN m.images |-> Block("user", "image", m.images[k])]
CallsOf(m)        == [k \in DOMAIN m.calls |-> Block("assistant", "call", m.calls[k])]

AntBlocks(m) ==
  CASE m.role = "system" -> <<>>
    [] m.role = "user" -> TextOf(m, "user") \o ImagesOf(m)
    [] m.role = "assistant" -> TextOf(m, "assistant") \o CallsOf(m)
    [] m.role = "tool" -> <<Block("user", "result", m.id)>>

\* toAnthropic: turns of blocks; a block of the same role joins the last turn.
ToAnthropic(ms) ==
  LET emit(out, b) == IF out # <<>> /\ Last(out)[1].role = b.role
                        THEN Append(Front(out), Append(Last(out), b))
                        ELSE Append(out, <<b>>)
  IN FoldLeft(emit, <<>>, FlattenSeq([p \in DOMAIN ms |-> AntBlocks(ms[p])]))

\* toChatMessages: one message for each, the content of a user message with images in parts.
ToChat(ms) ==
  [p \in DOMAIN ms |->
     [role |-> ms[p].role, calls |-> ms[p].calls, id |-> ms[p].id,
      content |-> TextOf(ms[p], ms[p].role)
                    \o (IF ms[p].role = "user" THEN ImagesOf(ms[p]) ELSE <<>>)]]

\* Fault: the text of a reply with calls is not sent.
ItemsSilent(m) ==
  CASE m.role = "system" -> <<>>
    [] m.role = "user" -> << TextOf(m, "user") \o ImagesOf(m) >>
    [] m.role = "assistant" ->
         (IF m.text /\ m.calls = <<>> THEN << TextOf(m, "assistant") >> ELSE <<>>)
           \o [k \in DOMAIN m.calls |-> << CallsOf(m)[k] >>]
    [] m.role = "tool" -> << <<Block("tool", "result", m.id)>> >>

\* toInput: items; text and calls of an assistant message are items of their own.
ItemsOf(m) ==
  CASE m.role = "system" -> <<>>
    [] m.role = "user" -> << TextOf(m, "user") \o ImagesOf(m) >>
    [] m.role = "assistant" ->
         (IF m.text THEN << TextOf(m, "assistant") >> ELSE <<>>)
           \o [k \in DOMAIN m.calls |-> << CallsOf(m)[k] >>]
    [] m.role = "tool" -> << <<Block("tool", "result", m.id)>> >>

ToInput(ms) == FlattenSeq([p \in DOMAIN ms |-> ItemsOf(ms[p])])

-----------------------------------------------------------------------------

Next ==
  \/ NextTurn
  \/ \E r \in Replies : Reply(r)
  \/ \E images \in SUBSET (1 .. MaxCalls) : ToolBatch(images)
  \/ \E loadable \in SUBSET (1 .. marks) : OnLoop(loadable)
  \/ FinalWrap
  \/ \E text \in BOOLEAN : WrapReply(text)
  \/ End

Spec == Init /\ [][Next]_vars

\* For TLC: the ids are interchangeable.
Symmetry == Permutations(Ids)

-----------------------------------------------------------------------------
(* Properties                                                              *)

KindIds(bs, kind) == {b.of : b \in {c \in ToSet(bs) : c.kind = kind}}

\* toAnthropic (anthropic.go:204) on what Fix, OnLoop and contextSnapshot leave, for a
\* provider with unique call ids: the turns alternate; the calls of an assistant turn are
\* answered by the blocks the next turn begins with, one each; and nothing else is answered.
WellPaired ==
  \A ms \in IF repeated THEN {} ELSE Requests :
    LET turns == ToAnthropic(ms)
    IN \A i \in DOMAIN turns :
         LET uses == KindIds(turns[i], "call")
             n    == Cardinality(uses)
         IN /\ i > 1 => turns[i][1].role # turns[i - 1][1].role
            /\ uses # {} => /\ i < Len(turns) /\ n <= Len(turns[i + 1])
                            /\ KindIds(SubSeq(turns[i + 1], 1, n), "result") = uses
            /\ \A k \in DOMAIN turns[i] : turns[i][k].kind = "result" =>
                 /\ i > 1 /\ turns[i][k].of \in KindIds(turns[i - 1], "call")
                 /\ \A j \in 1 .. k : turns[i][j].kind = "result"

\* WithHistory, skill.OnStart, appendGuides and fork ("全程单条 system", skill.go:283): every
\* request, of a Run or a fork, in the first Run or a later one, starts with its only system
\* message, which has each part once and the guides in any case.
OneSystem ==
  \A ms \in Requests :
    /\ {p \in DOMAIN ms : ms[p].role = "system"} = {1}
    /\ IsInjective(ms[1].parts)
    /\ "guide" \in ToSet(ms[1].parts) /\ ("prompt" \in ToSet(ms[1].parts) <=> Prompt)

\* OnLoop (filetools/hook.go:101): a mark is turned into an image at most once, although the
\* tool messages with the marks stay in the history for good.
ImagesOnce ==
  IsInjective(FlattenSeq([p \in DOMAIN msgs |-> msgs[p].images]))

\* Fix (contextfix.go:30): a history in which every call is answered right behind its message
\* is left alone, whatever ids the provider repeats.
IntactKept ==
  (/\ \A p \in DOMAIN msgs : \A k \in DOMAIN msgs[p].calls :
        p + k <= Len(msgs) /\ msgs[p + k].id = msgs[p].calls[k]
   /\ AnsweredIds(msgs) \subseteq CalledIds(msgs))
  => Fix(msgs) = msgs

\* The content of blocks, whichever role they have in a protocol.
Content(bs) == [k \in DOMAIN bs |-> <<bs[k].kind, bs[k].of>>]

\* The blocks of a chat message.
ChatBlocks(cm) ==
  CASE cm.role = "system" -> <<>>
    [] cm.role = "tool" -> <<Block("tool", "result", cm.id)>>
    [] OTHER -> cm.content \o CallsOf(cm)

\* What the three providers send for messages, in order; the system text goes out apart.
Sent(ms) ==
  {Content(FlattenSeq(ToAnthropic(ms))), Content(FlattenSeq(ToInput(ms))),
   Content(FlattenSeq([p \in DOMAIN ms |-> ChatBlocks(ToChat(ms)[p])]))}

\* toAnthropic, toChatMessages, toInput: the three carry the same content in the same order.
ProtocolsAgree ==
  \A ms \in Requests : Cardinality(Sent(ms)) = 1

\* Invoke and the request of the next round (anthropic.go:267, :204): the model is told that
\* it said what it said, each call once and in its order, the text in front.
EchoFaithful ==
  said # <<>> =>
    Sent(<<Last(msgs)>>) =
      {(IF OfKind(said, "text") = <<>> THEN <<>> ELSE << <<"text", None>> >>)
         \o FlattenSeq([k \in DOMAIN said |-> IF said[k][1] = "call" THEN <<said[k]>> ELSE <<>>])}

\* "剔除触发本次 task 的那条 user 指令" (task/hook.go:201): what the snapshot leaves out before
\* the call is the instruction that led to it, so the images read on the way stay.
SeedKeepsImages ==
  pc = "called" =>
    \A p \in DOMAIN msgs : msgs[p].images # <<>> =>
      \E q \in DOMAIN ContextSnapshot(msgs) : ContextSnapshot(msgs)[q] = msgs[p]

=============================================================================
