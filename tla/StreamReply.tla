----------------------------- MODULE StreamReply -----------------------------
(***************************************************************************)
(* One streaming model call: how the three providers fold the events of a  *)
(* stream into a reply, and what a consumer sees meanwhile.                *)
(*   ext/provider/openai           Stream, deltas keyed by call index      *)
(*   ext/provider/anthropic        Stream, deltas keyed by content block   *)
(*   ext/provider/openairesponses  Stream, deltas keyed by item id         *)
(*                                                                         *)
(* Every step is one event of the server and the whole handling of it by   *)
(* the provider's loop; the connection keeps the order.  The server may    *)
(* interleave the arguments of several calls, as the keys of the protocols *)
(* allow, and the stream may end at any point.  Texts are counted, an      *)
(* argument is the sequence of its fragments.  Calls are numbered; the     *)
(* number also stands for the call's id and name.                          *)
(***************************************************************************)
EXTENDS Integers, Sequences, Functions

CONSTANTS
  Apis,       \* the protocols considered
  NCalls,     \* calls a reply may hold
  MaxFrags,   \* fragments of one call's arguments
  MaxTexts    \* text or thinking blocks

ASSUME ApisAssumption == Apis \subseteq {"openai", "anthropic", "responses"}
ASSUME BoundsAssumption ==
  NCalls \in Nat \ {0} /\ MaxFrags \in Nat /\ MaxTexts \in Nat

Call == 1..NCalls
NoCall == 0
Key == 0..(NCalls + MaxTexts)
Fragment == Call \X (1..MaxFrags)

VARIABLES
  api,      \* the provider's protocol
  \* what the server has sent
  begun,    \* the calls mentioned so far, in order
  key,      \* key[c]: what the events of call c carry to name it
  named,    \* the calls whose id and name were sent
  sent,     \* sent[c]: how many fragments of c's arguments were sent
  closed,   \* the calls whose last fragment was sent
  done,     \* responses: the items that are done
  texts,    \* texts sent
  \* the provider
  order,    \* the keys in acc, in the order of their insertion
  acc,      \* acc[k]: id, name and arguments accumulated under k
  result,   \* "none", "reply" or "error"
  reply,    \* the calls of the final response
  \* the consumer
  shown     \* shown[i]: name and arguments of the deltas with Index i

serverVars == <<api, begun, key, named, sent, closed, done, texts>>
vars == <<serverVars, order, acc, result, reply, shown>>

Blank == [name |-> NoCall, args |-> <<>>]
Frags(c, n) == [j \in 1..n |-> <<c, j>>]

TypeOK ==
  /\ api \in Apis
  /\ begun \in Seq(Call)
  /\ key \in [Call -> Key]
  /\ named \subseteq Call
  /\ sent \in [Call -> 0..MaxFrags]
  /\ closed \subseteq Call
  /\ done \subseteq Call
  /\ texts \in 0..MaxTexts
  /\ order \in Seq(Key) /\ Len(order) <= NCalls
  /\ acc \in [Key -> [name : Call \cup {NoCall}, args : Seq(Fragment)]]
  /\ result \in {"none", "reply", "error"}
  /\ reply \in Seq([name : Call \cup {NoCall}, json : BOOLEAN, args : Seq(Fragment)])
  /\ shown \in [0..(NCalls - 1) -> [name : Call \cup {NoCall}, args : Seq(Fragment)]]

Init ==
  /\ api \in Apis
  /\ begun = <<>> /\ order = <<>> /\ reply = <<>>
  /\ key = [c \in Call |-> 0]
  /\ named = {} /\ closed = {} /\ done = {}
  /\ sent = [c \in Call |-> 0]
  /\ texts = 0
  /\ acc = [k \in Key |-> Blank]
  /\ result = "none"
  /\ shown = [i \in 0..(NCalls - 1) |-> Blank]

\* The provider is still reading.
Open == result = "none"

(***************************************************************************)
(* The server's side of an event.                                          *)
(***************************************************************************)
\* A call that has not been mentioned, under a key of its own: the next index
\* (openai), the next content block (anthropic), its item id (responses).
NextKey(c) ==
  CASE api = "openai"    -> Len(begun)
    [] api = "anthropic" -> Len(begun) + texts
    [] api = "responses" -> c

Mention(c) ==
  /\ c \notin Range(begun)
  /\ begun' = Append(begun, c)
  /\ key' = [key EXCEPT ![c] = NextKey(c)]

MentionAgain(c) == c \in Range(begun) /\ UNCHANGED <<begun, key>>

SendFragment(c) ==
  /\ c \notin closed
  /\ sent[c] < MaxFrags
  /\ sent' = [sent EXCEPT ![c] = @ + 1]
  /\ closed' \in {closed, closed \cup {c}}

(***************************************************************************)
(* The provider's side.                                                    *)
(***************************************************************************)
\* The entry for k is created when it is missing.
Touch(k) == order' = IF k \in Range(order) THEN order ELSE Append(order, k)

SetName(k, c) == acc' = [acc EXCEPT ![k].name = c]
AddArgs(k, s) == acc' = [acc EXCEPT ![k].args = @ \o s]

\* Fault: the done event appends the arguments the deltas have brought already.
BackfillAlways(k, c, s) ==
  acc' = [acc EXCEPT ![k] = [name |-> c, args |-> @.args \o s]]

\* A done item may be all there is: its arguments count when no delta came.
Backfill(k, c, s) ==
  acc' = [acc EXCEPT ![k] = [name |-> c, args |-> IF @.args = <<>> THEN s ELSE @.args]]

ShowName(i, c) == shown' = [shown EXCEPT ![i].name = c]
ShowArgs(i, s) == shown' = [shown EXCEPT ![i].args = @ \o s]

\* openai: the first delta of an index has the id and the name.
OpenAiBegin(c) ==
  /\ api = "openai" /\ Open
  /\ Mention(c)
  /\ named' = named \cup {c}
  /\ LET k == Len(begun) IN
       /\ Touch(k)
       /\ SetName(k, c)
       /\ ShowName(k, c)
  /\ UNCHANGED <<api, sent, closed, done, texts, result, reply>>

OpenAiArgs(c) ==
  /\ api = "openai" /\ Open
  /\ MentionAgain(c)
  /\ SendFragment(c)
  /\ Touch(key[c])
  /\ AddArgs(key[c], <<<<c, sent[c] + 1>>>>)
  /\ ShowArgs(key[c], <<<<c, sent[c] + 1>>>>)
  /\ UNCHANGED <<api, named, done, texts, result, reply>>

\* anthropic: blockIdxToTool numbers the tool blocks as they are registered.
ToolIndex(blocks, k) == CHOOSE i \in 0..(Len(blocks) - 1) : blocks[i + 1] = k

\* content_block_start of a tool_use block.
AntStart(c) ==
  /\ api = "anthropic" /\ Open
  /\ Mention(c)
  /\ named' = named \cup {c}
  /\ LET k == Len(begun) + texts IN
       /\ Touch(k)
       /\ SetName(k, c)
       /\ ShowName(Len(order), c)
  /\ UNCHANGED <<api, sent, closed, done, texts, result, reply>>

\* Fault: deltas are shown under the content block instead of the tool index.
AntArgsByBlock(c) ==
  /\ api = "anthropic" /\ Open
  /\ Mention(c) \/ MentionAgain(c)
  /\ key'[c] < NCalls
  /\ SendFragment(c)
  /\ Touch(key'[c])
  /\ AddArgs(key'[c], <<<<c, sent[c] + 1>>>>)
  /\ ShowArgs(key'[c], <<<<c, sent[c] + 1>>>>)
  /\ UNCHANGED <<api, named, done, texts, result, reply>>

\* content_block_delta with input_json_delta, of a block that was started or of one whose
\* start the server leaves out for good: its call stays without id and name.
AntArgs(c) ==
  /\ api = "anthropic" /\ Open
  /\ Mention(c) \/ MentionAgain(c)
  /\ SendFragment(c)
  /\ Touch(key'[c])
  /\ AddArgs(key'[c], <<<<c, sent[c] + 1>>>>)
  /\ ShowArgs(ToolIndex(order', key'[c]), <<<<c, sent[c] + 1>>>>)
  /\ UNCHANGED <<api, named, done, texts, result, reply>>

\* responses: output_item.added, which may leave the id and the name to done.
RespAdded(c) ==
  /\ api = "responses" /\ Open
  /\ Mention(c)
  /\ Touch(c)
  /\ \/ named' = named \cup {c} /\ SetName(c, c)
     \/ UNCHANGED <<named, acc>>
  /\ UNCHANGED <<api, sent, closed, done, texts, result, reply, shown>>

\* function_call_arguments.delta, for an item that was not added as well; the
\* delta is shown under the index of the item registered last.
RespArgs(c) ==
  /\ api = "responses" /\ Open
  /\ c \notin done
  /\ Mention(c) \/ MentionAgain(c)
  /\ SendFragment(c)
  /\ Touch(c)
  /\ AddArgs(c, <<<<c, sent[c] + 1>>>>)
  /\ ShowArgs(Len(order') - 1, <<<<c, sent[c] + 1>>>>)
  /\ UNCHANGED <<api, named, done, texts, result, reply>>

\* output_item.done, with the id, the name and all arguments; the server has
\* sent the arguments completely before, or sends them only now.
RespDone(c) ==
  /\ api = "responses" /\ Open
  /\ c \notin done
  /\ Mention(c) \/ MentionAgain(c)
  /\ done' = done \cup {c}
  /\ named' = named \cup {c}
  /\ IF c \in closed
       THEN UNCHANGED <<sent, closed>>
       ELSE /\ sent[c] = 0
            /\ \E n \in 0..MaxFrags : sent' = [sent EXCEPT ![c] = n]
            /\ closed' = closed \cup {c}
  /\ Touch(c)
  /\ Backfill(c, c, Frags(c, sent'[c]))
  /\ UNCHANGED <<api, texts, result, reply, shown>>

\* A text or a thought: its own content block in anthropic.
Text ==
  /\ Open
  /\ texts < MaxTexts
  /\ texts' = texts + 1
  /\ UNCHANGED <<api, begun, key, named, sent, closed, done, order, acc, result, reply, shown>>

(***************************************************************************)
(* The end of the stream.                                                  *)
(***************************************************************************)
\* Bytes are JSON when they are the arguments of a call from first to last.
ValidJson(s) == \E c \in closed : s = Frags(c, sent[c])

\* Nothing becomes {}, what is no JSON a marker with a preview.
SafeArgs(s) ==
  IF s = <<>> \/ ValidJson(s)
    THEN [json |-> TRUE, args |-> s]
    ELSE [json |-> FALSE, args |-> <<>>]

Final(name, args) == [name |-> name, json |-> args.json, args |-> args.args]

\* openai reads indices from 0, the others in the order of registration.
ReplyKey(i) == IF api = "openai" THEN i - 1 ELSE order[i]

\* The end marker, or the end of the connection without one: the loop ends
\* without an error in both cases.
Finish ==
  /\ Open
  /\ result' = "reply"
  /\ reply' = [i \in 1..Len(order) |->
                 Final(acc[ReplyKey(i)].name, SafeArgs(acc[ReplyKey(i)].args))]
  /\ UNCHANGED <<serverVars, order, acc, shown>>

\* responses: all the server ever said is in the output of its last event.
\* (Output whose arguments are cut off is left out, see the README.)
FinishOutput ==
  /\ api = "responses" /\ Open
  /\ order = <<>> /\ texts = 0
  /\ \E n \in 1..NCalls, size \in [Call -> 0..MaxFrags] :
       \E q \in [1..n -> Call] :
         /\ IsInjective(q)
         /\ begun' = q
         /\ named' = Range(q) /\ closed' = Range(q)
         /\ sent' = [c \in Call |-> IF c \in Range(q) THEN size[c] ELSE 0]
         /\ reply' = [i \in 1..n |->
                        Final(q[i], [json |-> TRUE, args |-> Frags(q[i], size[q[i]])])]
  /\ result' = "reply"
  /\ UNCHANGED <<api, key, done, texts, order, acc, shown>>

\* A read fails, a chunk does not decode, or the consumer returns an error.
Break ==
  /\ Open
  /\ result' = "error"
  /\ UNCHANGED <<serverVars, order, acc, reply, shown>>

ServerEvent(c) ==
  \/ OpenAiBegin(c) \/ OpenAiArgs(c)
  \/ AntStart(c) \/ AntArgs(c)
  \/ RespAdded(c) \/ RespArgs(c) \/ RespDone(c)

Next ==
  \/ \E c \in Call : ServerEvent(c)
  \/ Text
  \/ Finish \/ FinishOutput \/ Break

Spec == Init /\ [][Next]_vars

(***************************************************************************)
(* Properties.                                                             *)
(***************************************************************************)
\* The response has the calls of the model, in the order the model began them,
\* each under its own id and name, with exactly its own arguments, however the
\* events were interleaved; arguments cut off by the end of the stream are
\* marked, never passed on as if they were complete.
ReplyFaithful ==
  result = "reply" =>
    /\ Len(reply) = Len(begun)
    /\ \A i \in 1..Len(begun) :
         LET c == begun[i] IN
         /\ reply[i].name = IF c \in named THEN c ELSE NoCall
         /\ reply[i].json => reply[i].args = Frags(c, sent[c])
         /\ ~reply[i].json => sent[c] > 0 /\ c \notin closed

\* A consumer that buckets the deltas of openai or anthropic by Index has, at
\* every moment, for the i-th call its name, if it was sent, and the arguments
\* received so far.
ShownIsReply ==
  api \in {"openai", "anthropic"} =>
    \A i \in 1..Len(begun) :
      LET c == begun[i] IN
      shown[i - 1] = [name |-> IF c \in named THEN c ELSE NoCall, args |-> Frags(c, sent[c])]

==============================================================================
