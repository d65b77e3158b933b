---------------------------- MODULE EpisodeTracker ----------------------------
(***************************************************************************)
(* What becomes of the LLM calls of one episode: the endpoint that passes  *)
(* a client's call on, the service loop that answers it, the context       *)
(* tracker that keeps what was said, and the runner that turns it into     *)
(* training data when the episode ends.                                    *)
(*                                                                         *)
(* The tracker has no lock and two threads: the service loop answers one   *)
(* call after the other and saves each as a timeline; the runner resets    *)
(* the tracker when the claim is taken back, and merges the timelines when *)
(* the output has come.  The endpoint hands a call over before it looks    *)
(* whose episode it is, and it never looks who asks.                       *)
(*                                                                         *)
(* SwarmServer has what the episode's record goes through; here is as much *)
(* of it as the tracker sees.  Taking a claim back waits for the runner's  *)
(* reset and then writes the record, ending an episode checks the record   *)
(* and then sends the output from a thread; neither looks again, and they  *)
(* may overlap.  A record that is gone does not come back (SwarmServer has *)
(* the window in which it may).  A reset that no runner is left to serve   *)
(* runs into its time-out when the record is long gone, and writes nothing.*)
(* How long an inference takes is left open.  An endpoint's thread         *)
(* that gives up waiting (after its fifty rounds, or because the episode   *)
(* or the engine's status is lost) touches nothing: it looks like one that *)
(* has no answer yet.                                                      *)
(*                                                                         *)
(* A definition whose name begins with Bug is not part of the model: it is *)
(* the definition after it with a plausible mistake, kept to show which    *)
(* property notices.                                                       *)
(***************************************************************************)
EXTENDS Timelines

CONSTANTS
  Calls,        \* the numbers of the LLM calls, made in this order
  MaxClaims,    \* how often the episode is claimed
  MaxShared,    \* bound: the calls of an episode whose claim is taken back
  MaxReverts,   \* bound: how many reverts of a claim are under way at a time
  Replies,      \* what the model may say
  Cuttable,     \* bound: the calls whose reply may be cut short, as long as no claim is taken back
  Madness,      \* the calls whose reply compute_string_madness may take for mad
  MaxMessages,  \* more messages than this overflow the context
  MaxPrompt,    \* data.max_prompt_length
  MaxResponse,  \* data.max_response_length
  NoSave,       \* no save is under way
  MaxSamples    \* rollout.multi_turn.max_sample_per_task

\* What a message may say, and the timelines that may be saved.
Texts == Replies \cup {"overflow", "user", "edited"}
TimelineLists == Seq(Seq(Messages(Texts, Calls)))

ASSUME TrackerAssumption ==
  /\ Calls \subseteq Nat /\ IsFiniteSet(Calls)
  /\ MaxClaims \in Nat /\ MaxShared \in Nat /\ MaxReverts \in Nat
  /\ CutShort \subseteq Replies /\ {Madness, Cuttable} \subseteq SUBSET Calls
  /\ NoCall \notin Calls /\ NoSave \notin TimelineLists
  /\ MaxMessages \in Nat /\ MaxPrompt \in Nat /\ MaxResponse \in Nat /\ MaxSamples \in Nat

VARIABLES
  stopping,   \* the rollout's stop flags are up
  record,     \* the episode's record on the server
  claims,     \* how often it has been claimed; the last claim is that number
  resets,     \* how many resets are on their way to the runner
  writes,     \* how many reverts have had their reset and have yet to write the record
  output,     \* the claim whose end_episode has passed its checks, or 0
  call,       \* the calls
  service,    \* the service loop of the InterchangeClient
  terminate,  \* _should_terminate
  saved,      \* saved_timelines
  loaded,     \* the list a save under way has loaded, or NoSave
  readonly,   \* _read_only
  mad,        \* already_mad_flag
  rewards,    \* Len(step_reward_arr)
  runner,     \* where the runner is
  samples,    \* the timelines that were made into samples and handed over
  owner,      \* history: the last claim when the runner took the output
  owed,       \* history: the caller's calls that had been answered when end_episode passed
  wiped,      \* history: calls replied to before a reset
  raw,        \* history: saved_timelines as they were when merged
  late        \* history: a timeline was saved that is another's, or too late

recordVars == <<record, claims, resets, writes, output>>
trackerVars == <<saved, readonly, mad, rewards>>
history == <<owner, owed, wiped, raw, late>>
vars == <<stopping, recordVars, call, service, terminate, trackerVars, loaded, runner, samples,
          history>>

\* A call: whose it is, what is asked and answered, where the endpoint's thread is
\* (wait) and where the service is with it (serve), and what step_prepare said of it.
Unsent == [claim |-> 0, prompt |-> <<>>, reply |-> "none", wait |-> "unsent",
           serve |-> "none", info |-> "none"]
Waits == {"unsent", "waiting", "answered", "refused"}
Serves == {"none", "queued", "inferring", "saving", "replied", "failed"}
Infos == {"none", "safe", "interrupted", "mad", "overflow"}

Message(text) ==
  [text |-> text, author |-> "env", tokens |-> NoCall, lack |-> FALSE]

Sent == {k \in Calls : call[k].wait # "unsent"}
Shared == claims > 1 \/ resets + writes > 0
Busy == {k \in Calls : call[k].serve \in {"inferring", "saving"}}

\* Only the call being saved has loaded the list, and only one is served at a time.
TypeOK ==
  /\ stopping \in BOOLEAN
  /\ record \in {"registered", "claimed", "gone"}
  /\ claims \in 0..MaxClaims
  /\ {resets, writes} \subseteq Nat /\ resets + writes <= MaxReverts
  /\ {output, owner} \subseteq 0..claims
  /\ call \in [Calls -> [claim : 0..claims, prompt : Seq(Texts), reply : Replies \cup {"none", "overflow"},
                         wait : Waits, serve : Serves, info : Infos]]
  /\ \A k, n \in Busy : k = n
  /\ service \in {"up", "down"}
  /\ {terminate, readonly, mad, late} \subseteq BOOLEAN
  /\ saved \in TimelineLists
  /\ loaded \in TimelineLists \cup {NoSave}
  /\ loaded # NoSave => \E k \in Calls : call[k].serve = "saving"
  /\ rewards \in 0..Cardinality(Calls)
  /\ runner \in {"waiting", "took", "ended", "merged", "readonly", "aligned", "finished", "left"}
  /\ samples \subseteq Seq(Messages(Texts, Calls)) /\ Cardinality(samples) <= MaxSamples
  /\ {owed, wiped} \subseteq SUBSET Calls

Init ==
  /\ stopping = FALSE
  /\ record = "registered"
  /\ claims = 0
  /\ resets = 0 /\ writes = 0
  /\ output = 0
  /\ call = [k \in Calls |-> Unsent]
  /\ service = "up"
  /\ terminate = FALSE
  /\ saved = <<>>
  /\ loaded = NoSave
  /\ readonly = FALSE
  /\ mad = FALSE
  /\ rewards = 0
  /\ runner = "waiting"
  /\ samples = {}
  /\ owner = 0 /\ owed = {}
  /\ wiped = {}
  /\ raw = <<>>
  /\ late = FALSE

-----------------------------------------------------------------------------
(* The record, and the rollout *)

\* The status that refuses a claim comes a moment after the stop flags.
Claim ==
  /\ record = "registered"
  /\ claims < MaxClaims
  /\ claims = 0 \/ Cardinality(Sent) < MaxShared
  /\ record' = "claimed"
  /\ claims' = claims + 1
  /\ UNCHANGED <<stopping, resets, writes, output, call, service, terminate, trackerVars, loaded, runner,
                 samples, history>>

\* The claim is taken back, by an abort, an eval episode's end or the janitor: a thread
\* asks the runner to reset the tracker (one that has taken an output never will).  The
\* record stays claimed meanwhile.
AskReset ==
  /\ record = "claimed"
  /\ runner = "waiting"
  /\ resets + writes < MaxReverts /\ Cardinality(Sent) <= MaxShared
  /\ resets' = resets + 1
  /\ UNCHANGED <<stopping, record, claims, writes, output, call, service, terminate, trackerVars, loaded,
                 runner, samples, history>>

\* The runner has answered: if there still is a record, others may claim it, whoever has
\* claimed or ended the episode by now.
BugRevertWrite ==
  /\ writes > 0
  /\ writes' = writes - 1
  /\ record' = IF record = "gone" \/ (\E k \in Calls : call[k].claim = claims /\ call[k].wait = "waiting")
               THEN record ELSE "registered"
  /\ UNCHANGED <<stopping, claims, resets, output, call, service, terminate, trackerVars, loaded, runner,
                 samples, history>>
RevertWrite ==
  /\ writes > 0
  /\ writes' = writes - 1
  /\ record' = IF record = "gone" THEN "gone" ELSE "registered"
  /\ UNCHANGED <<stopping, claims, resets, output, call, service, terminate, trackerVars, loaded, runner,
                 samples, history>>

\* end_episode has found the caller to be the owner, and starts a thread with the output.
\* The runner takes one; a second one only waits for nobody's answer.
EndEpisode ==
  /\ record = "claimed"
  /\ runner = "waiting"
  /\ output # claims
  /\ output' = claims
  /\ owed' = {k \in Calls : call[k].claim = claims /\ call[k].wait = "answered"}
  /\ UNCHANGED <<stopping, record, claims, resets, writes, call, service, terminate, trackerVars, loaded,
                 runner, samples, owner, wiped, raw, late>>

\* The runner's acknowledgment lets the thread delete the record.
RecordOutput ==
  /\ runner # "waiting"
  /\ record # "gone"
  /\ record' = "gone"
  /\ UNCHANGED <<stopping, claims, resets, writes, output, call, service, terminate, trackerVars, loaded,
                 runner, samples, history>>

\* In ROLLING_POST an abort, or the end of an eval episode, deletes the record.
DeleteRecord ==
  /\ stopping
  /\ record # "gone"
  /\ record' = "gone"
  /\ UNCHANGED <<stopping, claims, resets, writes, output, call, service, terminate, trackerVars, loaded,
                 runner, samples, history>>

Stop ==
  /\ ~stopping
  /\ stopping' = TRUE
  /\ UNCHANGED <<recordVars, call, service, terminate, trackerVars, loaded, runner, samples, history>>

-----------------------------------------------------------------------------
(* The endpoint: chat_completions and _begin_handle_chat_completion *)

\* A client starts anew, or goes on from a call it has had an answer to, with the reply
\* as it was or put differently (its reasoning left out, say).
Prompts(claim) ==
  {<<"user">>} \cup
  UNION {{call[k].prompt \o <<text, "user">> : text \in {call[k].reply, "edited"}} :
            k \in {n \in Calls : call[n].claim = claim /\ call[n].wait = "answered"}}

\* The caller has the claim or once had it.  The record must be there; then the call is
\* on its way, and only then does the thread look whether anyone has the episode.
Send(k) ==
  /\ call[k].wait = "unsent" /\ \A n \in Calls : n < k => call[n].wait # "unsent"
  /\ Shared => Cardinality(Sent) < MaxShared
  /\ record # "gone"
  /\ \E claim \in 1..claims : \E prompt \in Prompts(claim) :
       call' = [call EXCEPT ![k] =
                  [Unsent EXCEPT !.claim = claim, !.prompt = prompt, !.serve = "queued",
                                 !.wait = IF record = "registered" THEN "refused" ELSE "waiting"]]
  /\ UNCHANGED <<stopping, recordVars, service, terminate, trackerVars, loaded, runner, samples, history>>

Answer(k) ==
  /\ call[k].wait = "waiting"
  /\ call[k].serve = "replied"
  /\ call' = [call EXCEPT ![k].wait = "answered"]
  /\ UNCHANGED <<stopping, recordVars, service, terminate, trackerVars, loaded, runner, samples, history>>

-----------------------------------------------------------------------------
(* The service loop: InterchangeClient and OpenaiLlmProxyWithTracker.run_infer *)

\* should_hard_terminate; its question to the server deletes a record nobody has claimed.
ShouldTerminate == terminate \/ (stopping /\ record \in {"registered", "gone"})
AskClaimed == record' = IF stopping /\ ~terminate /\ record = "registered" THEN "gone" ELSE record

Prepare(k) ==
  CASE stopping                          -> "interrupted"
    [] ~stopping /\ mad                  -> "mad"
    [] ~stopping /\ ~mad /\ Len(call[k].prompt) > MaxMessages -> "overflow"
    [] OTHER                             -> "safe"

\* step_prepare.  A prompt that is too long is answered at once, and not kept.
BugServe(k) ==
  /\ service = "up" /\ ~ShouldTerminate
  /\ call[k].serve = "queued"
  /\ call' = [call EXCEPT ![k].serve = "inferring", ![k].info = Prepare(k)]
  /\ UNCHANGED <<stopping, recordVars, service, terminate, trackerVars, loaded, runner, samples, history>>
Serve(k) ==
  /\ service = "up" /\ ~ShouldTerminate
  /\ call[k].serve = "queued"
  /\ Busy = {}
  /\ call' = IF Len(call[k].prompt) > MaxMessages
             THEN [call EXCEPT ![k].serve = "replied", ![k].info = Prepare(k), ![k].reply = "overflow"]
             ELSE [call EXCEPT ![k].serve = "inferring", ![k].info = Prepare(k)]
  /\ UNCHANGED <<stopping, recordVars, service, terminate, trackerVars, loaded, runner, samples, history>>

ReplyMessage(k) ==
  [text |-> call[k].reply, author |-> "llm", tokens |-> k,
   lack |-> LackNormalEos(Generated(call[k].reply))]
Timeline(k) ==
  [i \in DOMAIN call[k].prompt |-> Message(call[k].prompt[i])] \o <<ReplyMessage(k)>>

\* step_track, up to the save.  Saving evaluates self.saved_timelines, then copies the
\* timeline, then extends and stores the list it has evaluated.
Track(k, reply) ==
  /\ call[k].serve = "inferring"
  /\ mad' \in (IF k \in Madness THEN {mad, TRUE} ELSE {mad})
  /\ IF call[k].info = "safe" /\ ~readonly
     THEN /\ call' = [call EXCEPT ![k].serve = "saving", ![k].reply = reply]
          /\ loaded' = saved
     ELSE /\ call' = [call EXCEPT ![k].serve = "replied", ![k].reply = reply]
          /\ UNCHANGED loaded
  /\ UNCHANGED <<stopping, recordVars, service, terminate, saved, readonly, rewards, runner, samples, history>>

\* Whose the timelines are: the last claim's, until the output is taken.
Owner == IF runner = "waiting" THEN claims ELSE owner

\* A timeline that does not belong with the others: it is not the owner's, or the claim has
\* been, or is being, taken back, or the timelines have been merged.
Stale(k) ==
  \/ call[k].claim # Owner
  \/ runner = "waiting" /\ (record = "registered" \/ writes > 0)
  \/ runner \notin {"waiting", "took", "ended"}

Save(k) ==
  /\ call[k].serve = "saving"
  /\ saved' = Append(loaded, Timeline(k))
  /\ loaded' = NoSave
  /\ call' = [call EXCEPT ![k].serve = "replied"]
  /\ late' = (late \/ Stale(k))
  /\ UNCHANGED <<stopping, recordVars, service, terminate, readonly, mad, rewards, runner, samples,
                 owner, owed, wiped, raw>>

\* The inference or the tracker raises: the loop ends for good, and the socket closes.
ServiceFails(k) ==
  /\ call[k].serve = "inferring"
  /\ call' = [call EXCEPT ![k].serve = "failed"]
  /\ service' = "down"
  /\ UNCHANGED <<stopping, recordVars, terminate, trackerVars, loaded, runner, samples, history>>

ServiceEnds ==
  /\ service = "up"
  /\ Busy = {}
  /\ ShouldTerminate
  /\ AskClaimed
  /\ service' = "down"
  /\ UNCHANGED <<stopping, claims, resets, writes, output, call, terminate, trackerVars, loaded, runner, samples, history>>

-----------------------------------------------------------------------------
(* The runner: SwarmRunner *)

BugResetTracker == readonly' = FALSE /\ mad' = FALSE /\ rewards' = 0 /\ UNCHANGED saved
ResetTracker == readonly' = FALSE /\ mad' = FALSE /\ rewards' = 0 /\ saved' = <<>>

\* The reverting handler is told, and will write the record.
RunnerReset ==
  /\ runner = "waiting"
  /\ resets > 0
  /\ ResetTracker
  /\ resets' = resets - 1
  /\ writes' = writes + 1
  /\ wiped' = {k \in Calls : call[k].serve = "replied"}
  /\ UNCHANGED <<stopping, record, claims, output, call, service, terminate, loaded, runner, samples,
                 owner, owed, raw, late>>

\* should_exit_hard: nobody has the episode, and nobody will.
HardExit ==
  /\ runner = "waiting"
  /\ stopping
  /\ record \in {"registered", "gone"}
  /\ record' = "gone"
  /\ ResetTracker
  /\ terminate' = TRUE
  /\ runner' = "left"
  /\ UNCHANGED <<stopping, claims, resets, writes, output, call, service, loaded, samples, history>>

\* Whoever sent it, and whoever has the episode by now.
TakeOutput ==
  /\ runner = "waiting"
  /\ output # 0
  /\ runner' = "took"
  /\ owner' = claims
  /\ UNCHANGED <<stopping, recordVars, call, service, terminate, trackerVars, loaded, samples, owed, wiped,
                 raw, late>>

\* The output has been taken: the service is told to stop.  An episode without
\* timelines is dropped; otherwise its reward is spread over them.
RewardFirst ==
  /\ runner = "took"
  /\ terminate' = TRUE
  /\ rewards' = Len(saved)
  /\ runner' = IF saved = <<>> THEN "left" ELSE "ended"
  /\ UNCHANGED <<stopping, recordVars, call, service, saved, readonly, mad, loaded, samples, history>>

\* group_merge: the list is replaced, then made read-only.
Merge ==
  /\ runner = "ended"
  /\ saved' = merge_tracker_timelines(saved)
  /\ loaded' = IF loaded = NoSave THEN NoSave ELSE MergedInPlace(saved)
  /\ raw' = saved
  /\ runner' = "merged"
  /\ UNCHANGED <<stopping, recordVars, call, service, terminate, readonly, mad, rewards, samples, owner, owed, wiped, late>>

ReadOnly ==
  /\ runner = "merged"
  /\ readonly' = TRUE
  /\ runner' = "readonly"
  /\ UNCHANGED <<stopping, recordVars, call, service, terminate, saved, mad, rewards, loaded, samples, history>>

BugRewardAgain ==
  /\ runner = "readonly"
  /\ runner' = "aligned"
  /\ UNCHANGED <<stopping, recordVars, call, service, terminate, trackerVars, loaded, samples, history>>
RewardAgain ==
  /\ runner = "readonly"
  /\ rewards' = Len(saved)
  /\ runner' = "aligned"
  /\ UNCHANGED <<stopping, recordVars, call, service, terminate, saved, readonly, mad, loaded, samples, history>>

\* group_tokenize: one reward per timeline, one sample per timeline, and of too many
\* samples any MaxSamples.
Tokenize ==
  /\ runner = "aligned"
  /\ \/ /\ rewards = Len(saved)
        /\ \A i \in DOMAIN saved : Tokenizable(saved[i])
        /\ \E S \in kSubset(Min({MaxSamples, Len(saved)}), DOMAIN saved) :
             samples' = {saved[i] : i \in S}
        /\ runner' = "finished"
     \/ /\ ~(rewards = Len(saved) /\ \A i \in DOMAIN saved : Tokenizable(saved[i]))
        /\ runner' = "left"
        /\ UNCHANGED samples
  /\ UNCHANGED <<stopping, recordVars, call, service, terminate, trackerVars, loaded, history>>

-----------------------------------------------------------------------------

RecordStep ==
  Claim \/ AskReset \/ RevertWrite \/ EndEpisode \/ RecordOutput \/ DeleteRecord \/ Stop

TrackStep(k) ==
  \E reply \in IF k \in Cuttable /\ ~Shared THEN Replies ELSE Replies \ CutShort : Track(k, reply)

RunnerStep ==
  \/ RunnerReset \/ HardExit \/ TakeOutput
  \/ RewardFirst \/ Merge \/ ReadOnly \/ RewardAgain \/ Tokenize

Next ==
  \/ RecordStep
  \/ \E k \in Calls : Send(k) \/ Answer(k) \/ Serve(k) \/ TrackStep(k) \/ Save(k) \/ ServiceFails(k)
  \/ ServiceEnds
  \/ RunnerStep

Spec == Init /\ [][Next]_vars

-----------------------------------------------------------------------------
(* Properties *)

\* The reply of call k is in the timeline, after the prompt it answered, as something
\* the model said.
LearnedIn(k, timeline) ==
  LET n == Len(call[k].prompt)
  IN  /\ Len(timeline) > n
      /\ IsPrefix(Append(call[k].prompt, call[k].reply), TextsOf(timeline))
      /\ timeline[n + 1].author = "llm"

\* What a client was answered before it ended the episode is trained on, whatever was merged
\* and however calls, saves, reverts and the merge interleave, if step_prepare let it be kept
\* and the samples were not too many.  Excepted is what a reset has wiped since it was said:
\* end_episode may pass its checks while the claim is being taken back.
AnswersKept ==
  runner = "finished" /\ Cardinality(samples) < MaxSamples =>
    \A k \in owed \ wiped : call[k].info = "safe" => \E t \in samples : LearnedIn(k, t)

\* An owner whose answers a reset has wiped does not keep the episode: the revert that asked
\* for the reset takes the claim, though others' reverts, ends and claims come in between.
ResetTakesClaim ==
  record = "claimed" /\ (\E k \in wiped : call[k].claim = claims) => writes > 0

\* What the model said is trained on once: no two messages, in one sample or in two, are the
\* same answer, although an answer comes back in every prompt that goes on from it.
TrainedOnce ==
  runner = "finished" /\ ~late =>
    \A s, t \in samples : \A i \in DOMAIN s : \A j \in DOMAIN t :
      /\ s[i].author = "llm" /\ t[j].author = "llm"
      /\ s[i].tokens = t[j].tokens
      => s = t /\ i = j

\* Nothing of an earlier claim is trained on, although former owners go on calling and the
\* output may be theirs, unless a timeline was saved that was not the owner's, between a reset
\* and the loss of the claim, or after the merge.
OwnersOnly ==
  runner = "finished" /\ ~late =>
    \A t \in samples : \A i \in DOMAIN t : t[i].author = "llm" => call[t[i].tokens].claim = owner

\* Merging loses nothing the model said, and invents nothing: what is trained on as the
\* model's was said by it, after the same texts.  And no timeline is left that another
\* one, saved later, continues.
MergeSound ==
  runner = "merged" /\ ~late =>
    /\ \A i \in DOMAIN raw : \A j \in DOMAIN raw[i] : raw[i][j].author = "llm" =>
         \E n \in DOMAIN saved : LearnedIn(raw[i][j].tokens, saved[n])
    /\ \A n \in DOMAIN saved : \A j \in DOMAIN saved[n] : saved[n][j].author = "llm" =>
         \E i \in DOMAIN raw : /\ j \in DOMAIN raw[i]
                               /\ raw[i][j] = [saved[n][j] EXCEPT !.lack = raw[i][j].lack]
                               /\ SubSeq(TextsOf(raw[i]), 1, j) = SubSeq(TextsOf(saved[n]), 1, j)
    /\ \A i, j \in DOMAIN saved : i < j => ~IsPrefix(TextsOf(saved[i]), TextsOf(saved[j]))

\* The tokens trained on are those the model generated, no more and no less, except that
\* a reply cut short loses its mark when it is merged into another timeline.
MaskExact ==
  runner = "aligned" => \A i \in DOMAIN saved : \A j \in DOMAIN saved[i] :
    LET msg == saved[i][j]
    IN  msg.author = "llm" /\ (msg.text \in CutShort => msg.lack) =>
          LET mask == LossMask(msg)
              first == Min(mask)
          IN  /\ SubSeq(TokensOf(msg), first, first + Cardinality(mask) - 1) = Generated(msg.text)
              /\ mask = first..(first + Cardinality(mask) - 1)

\* Every token trained on is in the response part of its sample, behind a prompt that
\* is not too long, unless the response is cut for its length.
SampleComplete ==
  runner = "aligned" =>
    \A i \in DOMAIN saved :
      LET s == Sample(saved[i], MaxPrompt, MaxResponse)
      IN  /\ Len(s.prompt) <= MaxPrompt
          /\ ~Contains(s.prompt, TRUE)
          /\ Len(s.prompt) + Len(s.response) = Len(Flat(saved[i])) \/ Len(s.response) = MaxResponse

\* The alignment of rewards and timelines cannot fail, unless a timeline was saved too late.
RewardsAligned ==
  runner = "aligned" /\ ~late =>
    rewards = Len(saved) /\ \A i \in DOMAIN saved : Tokenizable(saved[i])

-----------------------------------------------------------------------------
(* What the documentation says and the code does not do *)

\* In ROLLING_POST "ongoing episodes can still complete normally" (docs/en/swarm.md):
\* an answer the model gave then is kept like any other.
CompletesNormally ==
  runner = "finished" /\ Cardinality(samples) < MaxSamples =>
    \A k \in owed \ wiped :
      call[k].info \in {"safe", "interrupted"} => \E t \in samples : LearnedIn(k, t)

==============================================================================
