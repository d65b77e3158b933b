------------------------------ MODULE Timelines ------------------------------
(***************************************************************************)
(* The pure part of an episode's training data: how the timelines of an    *)
(* episode are merged, which tokens of a message the model is trained on,  *)
(* and where a sample is cut into prompt and response.                     *)
(*                                                                         *)
(* A message is a record of its text, its author, tokens (the LLM call     *)
(* that generated its token_arr, or NoCall if the chat template made it)   *)
(* and lack (the reply was cut short: lack_normal_eos).  A timeline is a   *)
(* sequence of messages.  Texts are compared and never looked into; of a   *)
(* token, only whether it is one of the three of the template.             *)
(*                                                                         *)
(* A definition whose name begins with Bug is not part of the model: it is *)
(* the definition after it with a plausible mistake, kept to show which    *)
(* property notices.                                                       *)
(***************************************************************************)
EXTENDS Naturals, SequencesExt

CONSTANTS
  NoCall,    \* no LLM call
  CutShort   \* the replies that end for want of room, without a closing tag

\* The messages that say one of these texts, and those of these calls.
Messages(texts, calls) ==
  [text : texts, author : {"env"}, tokens : {NoCall}, lack : {FALSE}] \cup
  [text : texts, author : {"llm"}, tokens : calls, lack : BOOLEAN]

-----------------------------------------------------------------------------
(* Merging: timeline_merging.py *)

TextsOf(timeline) == [i \in DOMAIN timeline |-> timeline[i].text]

\* The target is a beginning of the source, text by text (timeline_compare_level is
\* "text" and ignore_tools is set, the defaults).
BugMergeable(source, target) ==
  \A i \in DOMAIN source \cap DOMAIN target : source[i].text = target[i].text
Mergeable(source, target) ==
  /\ Len(source) >= Len(target)
  /\ \A i \in DOMAIN target : source[i].text = target[i].text

\* What the model said in the target it also said in the source, where the message
\* came back to it as part of a prompt.
BugToggle(source, target) == source
Toggle(source, target) ==
  [i \in DOMAIN source |->
     IF i \in DOMAIN target /\ target[i].author = "llm" /\ source[i].author # "llm"
     THEN [source[i] EXCEPT !.author = "llm", !.tokens = target[i].tokens]
     ELSE source[i]]

\* A timeline that is absorbed is left alone from then on, as source and as target.
BugAbsorb(state, s, t) ==
  LET source == state.lines[s]
      target == state.lines[t]
  IN  IF s \in state.absorbed \/ ~Mergeable(source, target)
      THEN state
      ELSE [lines    |-> [state.lines EXCEPT ![s] = Toggle(source, target)],
            absorbed |-> state.absorbed \cup {t}]
Absorb(state, s, t) ==
  LET source == state.lines[s]
      target == state.lines[t]
  IN  IF s \in state.absorbed \/ t \in state.absorbed \/ ~Mergeable(source, target)
      THEN state
      ELSE [lines    |-> [state.lines EXCEPT ![s] = Toggle(source, target)],
            absorbed |-> state.absorbed \cup {t}]

\* The inner loop: timeline s is offered the earlier ones, the latest first.
Round(state, s) ==
  LET offered[m \in 0..s - 1] ==
        IF m = 0 THEN state ELSE Absorb(offered[m - 1], s, s - m)
  IN  offered[s - 1]

\* The outer loop, from the last timeline down.
Absorbed(timelines) ==
  LET n == Len(timelines)
      visited[i \in 0..n] ==
        IF i = 0 THEN [lines |-> timelines, absorbed |-> {}]
        ELSE Round(visited[i - 1], n + 1 - i)
  IN  visited[n]

\* The messages are changed in place: this is what anyone sees who still holds the list.
MergedInPlace(timelines) == Absorbed(timelines).lines

\* The timelines that are not absorbed, in their order.
Unabsorbed(state) ==
  LET n == Len(state.lines)
      kept[i \in 0..n] ==
        IF i = 0 THEN <<>>
        ELSE IF i \in state.absorbed THEN kept[i - 1]
        ELSE Append(kept[i - 1], state.lines[i])
  IN  kept[n]

merge_tracker_timelines(timelines) == Unabsorbed(Absorbed(timelines))

-----------------------------------------------------------------------------
(* Tokens: base_tracker.py and extended_msg.py *)

Begin == "<|im_start|>"
Eos == "<|im_end|>"
Newline == "newline"
Word == "word"

\* The tokens of a message by the chat template; what it says is one word.
Templated == <<Begin, Word, Eos, Newline>>

\* The first and the last position of a token, or 0.
FirstIndex(tokens, token) ==
  LET found == {i \in DOMAIN tokens : tokens[i] = token}
  IN  IF found = {} THEN 0 ELSE Min(found)
LastIndex(tokens, token) ==
  LET found == {i \in DOMAIN tokens : tokens[i] = token}
  IN  IF found = {} THEN 0 ELSE Max(found)

\* replace_token_ids: the tokens the model generated take the place of those between
\* the generation prompt and the closing tag of the template.
ReplaceTokenIds(container, precise) ==
  LET begin  == FirstIndex(container, Begin)
      end    == LastIndex(container, Eos)
      center == IF Last(precise) = Eos THEN Front(precise) ELSE precise
  IN  SubSeq(container, 1, begin) \o center \o SubSeq(container, end, Len(container))
LackNormalEos(precise) == Last(precise) # Eos

\* What the model generates when it says a text: not as many tokens as the template has.
Generated(text) == IF text \in CutShort THEN <<Word>> ELSE <<Word, Word, Eos>>

\* The token_arr of a message.
TokensOf(msg) ==
  IF msg.tokens = NoCall THEN Templated ELSE ReplaceTokenIds(Templated, Generated(msg.text))

\* get_loss_mask: the positions trained on.  The first generation prompt is blacked out,
\* and what follows the first closing tag, and the tag itself if the model did not say it.
BugLossMask(msg) ==
  IF msg.author # "llm" THEN {}
  ELSE LET eos == FirstIndex(TokensOf(msg), Eos)
       IN  {i \in DOMAIN TokensOf(msg) :
              /\ i # FirstIndex(TokensOf(msg), Begin)
              /\ eos = 0 \/ i < eos}
LossMask(msg) ==
  IF msg.author # "llm" THEN {}
  ELSE LET eos == FirstIndex(TokensOf(msg), Eos)
       IN  {i \in DOMAIN TokensOf(msg) :
              /\ i # FirstIndex(TokensOf(msg), Begin)
              /\ eos = 0 \/ i < eos \/ (i = eos /\ ~msg.lack)}

-----------------------------------------------------------------------------
(* Samples: tokenize_steps *)

\* Which tokens of a message, and of the first messages of a timeline, are trained on.
Marks(msg) == LET mask == LossMask(msg) IN [j \in DOMAIN TokensOf(msg) |-> j \in mask]
FlatUpTo(timeline) ==
  LET upTo[i \in 0..Len(timeline)] ==
        IF i = 0 THEN <<>> ELSE upTo[i - 1] \o Marks(timeline[i])
  IN  upTo
Flat(timeline) == FlatUpTo(timeline)[Len(timeline)]

\* The first message to be trained on, or 0.
FirstTrained(timeline) ==
  LET said == {i \in DOMAIN timeline : timeline[i].author = "llm"}
  IN  IF said = {} THEN 0 ELSE Min(said)

\* It must have one before it.
Tokenizable(timeline) == FirstTrained(timeline) > 1

\* max_forward_steps.
MaxForward == 100

\* The cut stands before the first message to be trained on, moved over what is
\* masked out, MaxForward steps at most, but never beyond max_prompt_length.
BugSplitIndex(timeline, flat, maxPrompt) == Min({maxPrompt, Len(flat)})
SplitIndex(timeline, flat, maxPrompt) ==
  LET start == Len(FlatUpTo(timeline)[FirstTrained(timeline) - 1])
  IN  Min({maxPrompt, start + MaxForward} \cup {i - 1 : i \in {n \in start + 1..Len(flat) : flat[n]}})

\* A response that is too long loses its end.
Sample(timeline, maxPrompt, maxResponse) ==
  LET flat == Flat(timeline)
      cut  == SplitIndex(timeline, flat, maxPrompt)
  IN  [prompt   |-> SubSeq(flat, 1, cut),
       response |-> SubSeq(flat, cut + 1, Min({cut + maxResponse, Len(flat)}))]

==============================================================================
