----------------------------- MODULE Transcribe -----------------------------
(* whisper_full_with_state: the loop that turns audio into segments. It     *)
(* looks at one window of the audio after the other; in a window it decodes *)
(* at one temperature after the other, with several decoders, until a       *)
(* decoding is good enough, and the timestamps among the tokens say how far *)
(* the next window is to move.                                              *)
(*                                                                          *)
(* Time is counted in frames of 10 ms. A token is Text, Eot or a timestamp: *)
(* k stands for token_beg + k, which is 2 * k frames into the window. What  *)
(* the network computes (which token is drawn, how probable a sequence is,  *)
(* whether there is speech) is a choice; ties with a threshold are left     *)
(* out. Of the prompts only the number of tokens is kept.                   *)
EXTENDS Integers, Sequences, FiniteSets

CONSTANTS
    Params,         \* the whisper_full_params a caller passes
    Starts, Ends,   \* the ranges of audio it asks for, in frames
    MaxDecoders,    \* WHISPER_MAX_DECODERS
    MaxTs,          \* the last timestamp: half of 100 * WHISPER_CHUNK_SIZE
    MaxInitialTs,   \* max_initial_ts, as a timestamp
    DeltaMin,       \* delta_min: audio this short is not looked at
    NearEnd,        \* 500: this close to the end the prompts are dropped
    EntropyLen,     \* 32: sequences longer than this can be too uniform
    TextCtx,        \* whisper_n_text_ctx
    InitTokens,     \* sot, and language and task of a multilingual model
    TokenBeg,       \* token_beg
    MaxCalls        \* bound of the model: calls

Text == -2
Eot == -1
Tokens == {Text, Eot} \cup 0 .. MaxTs
Chunk == 2 * MaxTs
Lesser(a, b) == IF a < b THEN a ELSE b
Greater(a, b) == IF a < b THEN b ELSE a

n_max == TextCtx \div 2 - 4

\* decoders: how many at each temperature; cold: how many of the temperatures
\* are below WHISPER_HISTORY_CONDITIONING_TEMP_CUTOFF.
ParamType ==
    [beam : BOOLEAN, decoders : Seq(1 .. MaxDecoders), cold : Nat,
     no_context : BOOLEAN, no_timestamps : BOOLEAN, single_segment : BOOLEAN,
     carry_initial_prompt : BOOLEAN, n_max_text_ctx : Nat,
     prompt_n_tokens : Nat, max_tokens : Nat]

max_prompt_ctx(p) == Lesser(p.n_max_text_ctx, TextCtx \div 2)

ASSUME SizesAreSane ==
    /\ MaxDecoders \in Nat \ {0} /\ MaxTs \in Nat \ {0}
    /\ MaxInitialTs \in 0 .. MaxTs
    /\ DeltaMin \in Nat /\ NearEnd \in Nat /\ EntropyLen \in Nat
    /\ InitTokens \in 1 .. 3 /\ TokenBeg \in Nat /\ MaxCalls \in Nat
    /\ TextCtx \in Nat /\ TextCtx >= 10
    /\ Starts \subseteq Nat /\ Ends \subseteq Nat

\* A caller that carries its initial prompt from call to call has room for it
\* in each of them: the code subtracts without asking.
ASSUME ParamsAreSane ==
    /\ \A p \in Params : p \in ParamType /\ p.decoders # <<>>
    /\ \A p, q \in Params :
          p.carry_initial_prompt /\ q.carry_initial_prompt =>
             /\ max_prompt_ctx(q) # 1
             /\ q.no_context \/ max_prompt_ctx(p) <= max_prompt_ctx(q)

VARIABLES
    \* whisper_state, kept between calls
    result_all,     \* segments: window and position in it, and their times
    prompt_past0,   \* number of tokens of the static context
    prompt_past1,   \* and of the rolling one
    kv_self_n_dec,  \* decoders the KV cache was made for
    \* the call
    pc, params, seek, seek_start, seek_end, calls,
    \* the window
    it,             \* temperature
    i,              \* tokens each live decoder has
    prompt, decoders, best_decoder_id,
    noSpeech        \* no_speech_prob > no_speech_thold

past == <<prompt_past0, prompt_past1>>
range == <<params, seek_start, seek_end, calls>>
window == <<it, i, prompt, decoders, best_decoder_id, noSpeech>>
vars == <<result_all, past, kv_self_n_dec, pc, range, seek, window>>

\* whisper_decoder as a temperature begins; low: avg_logprobs < logprob_thold.
FreshDecoder ==
    [tokens |-> <<>>, tid |-> 0, result_len |-> 0, low |-> TRUE,
     seek_delta |-> Chunk, failed |-> FALSE, completed |-> FALSE, has_ts |-> FALSE]

NoPrompt == [prev |-> FALSE, take0 |-> 0, take1 |-> 0]

\* Between windows the decoders still hold the last one; nothing reads it.
NoWindow ==
    /\ it' = 1 /\ i' = 0 /\ prompt' = NoPrompt /\ best_decoder_id' = 1
    /\ decoders' = [j \in 1 .. MaxDecoders |-> FreshDecoder]
    /\ noSpeech' = FALSE

Init ==
    /\ result_all = {} /\ prompt_past0 = 0 /\ prompt_past1 = 0
    /\ kv_self_n_dec = 1
    /\ pc = "idle" /\ params \in Params /\ calls = 0
    /\ seek = 0 /\ seek_start = 0 /\ seek_end = 0
    /\ it = 1 /\ i = 0 /\ prompt = NoPrompt /\ best_decoder_id = 1
    /\ decoders = [j \in 1 .. MaxDecoders |-> FreshDecoder]
    /\ noSpeech = FALSE

n_decoders_cur == params.decoders[it]
Cur == 1 .. n_decoders_cur
Live == {j \in Cur : ~decoders[j].failed /\ ~decoders[j].completed}

-----------------------------------------------------------------------------
(* A call.                                                                  *)

PreparePrompt(p) ==
    LET kept0 == IF p.no_context THEN 0 ELSE prompt_past0
        kept1 == IF p.no_context THEN 0 ELSE prompt_past1
        most  == Greater(1, max_prompt_ctx(p) - 1)
    IN  /\ prompt_past0' =
              IF p.carry_initial_prompt /\ kept0 = 0
              THEN Lesser(p.prompt_n_tokens, most) ELSE kept0
        /\ prompt_past1' =
              IF p.carry_initial_prompt THEN kept1 ELSE kept1 + p.prompt_n_tokens

\* The old result goes first, whatever comes of the call.
Call(p, start, end) ==
    /\ pc = "idle" /\ calls < MaxCalls
    /\ calls' = calls + 1
    /\ params' = p
    /\ result_all' = {}
    /\ seek_start' = start /\ seek_end' = end /\ seek' = start
    /\ \/ pc' = "window" /\ end >= start + DeltaMin /\ PreparePrompt(p)
       \/ \* audio_ctx is too large
          pc' = "idle" /\ end >= start + DeltaMin /\ PreparePrompt(p)
       \/ \* no spectrogram, no language, too many decoders, too short
          pc' = "idle" /\ UNCHANGED past
    /\ UNCHANGED <<kv_self_n_dec, window>>

\* Out of the loop, with what has been found so far.
Return ==
    /\ pc' = "idle"
    /\ NoWindow
    /\ UNCHANGED <<result_all, range, seek>>

\* The audio is at its end, encoder_begin_callback says no, or the encoder fails.
LeaveLoop ==
    /\ pc = "window"
    /\ Return
    /\ UNCHANGED <<past, kv_self_n_dec>>

EnterWindow ==
    /\ pc = "window"
    /\ seek + DeltaMin < seek_end
    /\ IF seek > seek_start /\ seek + NearEnd >= seek_end
       THEN prompt_past0' = 0 /\ prompt_past1' = 0
       ELSE UNCHANGED past
    /\ pc' = "prepare"
    /\ UNCHANGED <<result_all, kv_self_n_dec, range, seek, window>>

-----------------------------------------------------------------------------
(* A temperature.                                                           *)

\* Mutant: the token that joins the contexts is not counted.
TakePromptAll ==
    LET can_take0 == params.carry_initial_prompt /\ prompt_past0 # 0
        take0     == IF can_take0 THEN prompt_past0 ELSE 0
    IN  IF /\ params.n_max_text_ctx > 0 /\ it <= params.cold
           /\ can_take0 \/ prompt_past1 # 0
        THEN [prev |-> TRUE, take0 |-> take0,
              take1 |-> Lesser(max_prompt_ctx(params) - take0, prompt_past1)]
        ELSE NoPrompt

TakePrompt ==
    LET can_take0 == params.carry_initial_prompt /\ prompt_past0 # 0
        take0     == IF can_take0 THEN prompt_past0 ELSE 0
    IN  IF /\ params.n_max_text_ctx > 0 /\ it <= params.cold
           /\ can_take0 \/ prompt_past1 # 0
        THEN [prev |-> TRUE, take0 |-> take0,
              take1 |-> Lesser(max_prompt_ctx(params) - take0 - 1, prompt_past1)]
        ELSE NoPrompt

promptSize ==
    (IF prompt.prev THEN 1 ELSE 0) + prompt.take0 + prompt.take1
       + InitTokens + (IF params.no_timestamps THEN 1 ELSE 0)

ResetDecoders == [j \in DOMAIN decoders |-> IF j \in Cur THEN FreshDecoder ELSE decoders[j]]

Prepare ==
    /\ pc = "prepare"
    /\ decoders' = ResetDecoders
    /\ prompt' = TakePrompt
    /\ kv_self_n_dec' = Greater(kv_self_n_dec, n_decoders_cur)
    /\ noSpeech' \in BOOLEAN
    /\ i' = 0
    /\ pc' = "sample"
    /\ UNCHANGED <<result_all, past, range, seek, it, best_decoder_id>>

\* No memory for a larger KV cache: the state is freed, and -7 returned.
LoseState ==
    /\ pc = "prepare"
    /\ kv_self_n_dec < n_decoders_cur
    /\ pc' = "freed"
    /\ NoWindow
    /\ UNCHANGED <<result_all, past, kv_self_n_dec, range, seek>>

\* The prompt or the last tokens cannot be decoded, or abort_callback says so.
DecodeFails ==
    /\ pc = "prepare" \/ (pc \in {"sample", "rank"} /\ i > 0 /\ Live # {})
    /\ Return
    /\ kv_self_n_dec' = Greater(kv_self_n_dec, n_decoders_cur)
    /\ UNCHANGED past

-----------------------------------------------------------------------------
(* A token for every live decoder.                                          *)

\* Mutant: timestamps may decrease.
AllowedBack(d) ==
    LET n == Len(d.tokens) IN
    {id \in Tokens :
        /\ n = 0 => id # Eot /\ id <= MaxInitialTs
        /\ params.no_timestamps => id < 0
        /\ n > 0 /\ d.tokens[n] >= 0 =>
              IF n = 1 \/ d.tokens[n - 1] >= 0 THEN id < 0 ELSE id # Text}

\* whisper_process_logits: what is not masked. Blanks are suppressed at the
\* start; timestamps come in pairs, except directly before Eot, and do not
\* decrease.
Allowed(d) ==
    LET n == Len(d.tokens) IN
    {id \in Tokens :
        /\ n = 0 => id # Eot /\ id <= MaxInitialTs
        /\ params.no_timestamps => id < 0
        /\ n > 0 /\ d.tokens[n] >= 0 =>
              IF n = 1 \/ d.tokens[n - 1] >= 0 THEN id < 0 ELSE id # Text
        /\ d.has_ts => id < 0 \/ 2 * id >= d.seek_delta}

\* The most probable timestamp that goes with the first token. If all are
\* masked, whisper_sample_token leaves 0, a text token, in its place, and
\* whisper_sample_token_topk leaves token_beg.
FirstTids(id) ==
    IF id >= 0 THEN {id}
    ELSE IF ~params.no_timestamps THEN 0 .. MaxInitialTs
    ELSE IF params.beam THEN {0} ELSE {-TokenBeg}

\* What decoder d becomes with one token more.
Drawn(d) ==
    IF d.tokens = <<>>
    THEN UNION {{[d EXCEPT !.tokens = <<id>>, !.tid = t] : t \in FirstTids(id)}
                   : id \in Allowed(d)}
    ELSE {[d EXCEPT !.tokens = Append(@, id)] : id \in Allowed(d)}

\* In a beam search a decoder goes on with a candidate of any of them.
Candidates(j) ==
    IF params.beam THEN UNION {Drawn(decoders[k]) : k \in Live}
    ELSE Drawn(decoders[j])

AtEnd(d) == seek + d.seek_delta + DeltaMin >= seek_end

\* Mutant: <|0.00|> counts as a timestamp, and the window may stand still.
StampedAtZero(d) ==
    LET id == d.tokens[i + 1] IN
    IF id >= 0
    THEN [d EXCEPT !.seek_delta = 2 * id, !.result_len = i + 1, !.has_ts = TRUE]
    ELSE d

\* The decoder state after the token at position i, counted from 0.
Stamped(d) ==
    LET id == d.tokens[i + 1] IN
    IF id > 0
    THEN [d EXCEPT !.seek_delta = 2 * id, !.result_len = i + 1, !.has_ts = TRUE]
    ELSE d

GoesBack(d) ==
    LET id == d.tokens[i + 1] IN
    id > 0 /\ d.has_ts /\ d.seek_delta > 2 * id /\ d.result_len < i

Ended(d) ==
    \/ d.tokens[i + 1] = Eot
    \/ params.max_tokens > 0 /\ i >= params.max_tokens
    \/ d.has_ts /\ AtEnd(d)

Complete(d) ==
    IF params.single_segment \/ params.no_timestamps
    THEN [d EXCEPT !.result_len = i + 1, !.seek_delta = Chunk, !.completed = TRUE]
    ELSE IF d.result_len = 0 THEN [d EXCEPT !.result_len = i + 1, !.completed = TRUE]
    ELSE [d EXCEPT !.completed = TRUE]

Settle(d) ==
    IF Ended(d)
    THEN IF d.result_len = 0 /\ ~params.no_timestamps /\ ~AtEnd(d)
         THEN [d EXCEPT !.failed = TRUE] ELSE Complete(d)
    ELSE IF i = n_max - 1 /\ (d.result_len = 0 \/ d.seek_delta < MaxTs)
         THEN [d EXCEPT !.failed = TRUE] \* a repetition loop
    ELSE d

Updated(d) == IF GoesBack(d) THEN [d EXCEPT !.failed = TRUE] ELSE Settle(Stamped(d))

Sample ==
    /\ pc = "sample"
    /\ \E c \in [Live -> UNION {Candidates(j) : j \in Live}] :
          /\ \A j \in Live : c[j] \in Candidates(j)
          /\ decoders' = [j \in DOMAIN decoders |->
                             IF j \in Live THEN Updated(c[j]) ELSE decoders[j]]
    /\ i' = i + 1
    /\ pc' = IF \/ i' = n_max
                \/ \A j \in Cur : decoders'[j].failed \/ decoders'[j].completed
             THEN "rank" ELSE "sample"
    /\ UNCHANGED <<result_all, past, kv_self_n_dec, range, seek, it, prompt,
                   best_decoder_id, noSpeech>>

-----------------------------------------------------------------------------
(* The best of them, or the next temperature.                               *)

Cut(d) == [d EXCEPT !.tokens = SubSeq(@, 1, d.result_len)]

\* A sequence is cut to what the timestamps confirm and scored; one that is
\* too uniform fails after all.
Judged(d) ==
    IF d.failed THEN {d}
    ELSE UNION {{[Cut(d) EXCEPT !.low = l, !.failed = f] : l \in BOOLEAN} :
                   f \in {x \in BOOLEAN : x => d.result_len > EntropyLen}}

Scores(ds) ==
    {s \in [Cur -> UNION {Judged(ds[j]) : j \in Cur}] : \A j \in Cur : s[j] \in Judged(ds[j])}

Poor(d) == d.failed \/ (d.low /\ ~noSpeech)

Rank ==
    /\ pc = "rank"
    /\ \E s \in Scores(decoders) :
          LET ranked == [j \in DOMAIN decoders |-> IF j \in Cur THEN s[j] ELSE decoders[j]]
              good   == {j \in Cur : ~ranked[j].failed}
          IN  /\ decoders' = ranked
              /\ best_decoder_id' \in IF good = {} THEN {best_decoder_id} ELSE good
              /\ IF it < Len(params.decoders) /\ Poor(ranked[best_decoder_id'])
                 THEN pc' = "prepare" /\ it' = it + 1
                 ELSE pc' = "emit" /\ it' = it
    /\ UNCHANGED <<result_all, past, kv_self_n_dec, range, seek, i, prompt, noSpeech>>

-----------------------------------------------------------------------------
(* What the window says.                                                    *)

best == decoders[best_decoder_id]

\* Where a segment ends: at the first timestamp of a row of them.
Cuts ==
    IF params.single_segment THEN {}
    ELSE {k \in 1 .. Len(best.tokens) :
             best.tokens[k] > 0 /\ (k = 1 \/ best.tokens[k - 1] <= 0)}

\* The pieces between cuts that have text; the last one may lack its timestamp.
Pieces ==
    {bc \in ({0} \cup Cuts) \X (Cuts \cup {Len(best.tokens) + 1}) :
        /\ \E k \in bc[1] + 1 .. bc[2] - 1 : best.tokens[k] = Text
        /\ \A k \in Cuts : k <= bc[1] \/ k >= bc[2]}

TimeFrom(b) == seek + 2 * (IF b = 0 THEN best.tid ELSE best.tokens[b])
TimeTo(c) == seek + (IF c \in Cuts THEN 2 * best.tokens[c] ELSE best.seek_delta)

NewSegments ==
    {[window |-> seek, at |-> bc[2], t0 |-> TimeFrom(bc[1]), t1 |-> TimeTo(bc[2])]
        : bc \in Pieces}

\* Text and one timestamp: the rest of the window is silence.
SingleTimestampEnding ==
    LET n == Len(best.tokens)
    IN  n > 1 /\ best.tokens[n - 1] < 0 /\ best.tokens[n] > 0

SeekDelta ==
    IF SingleTimestampEnding THEN Lesser(seek_end - seek, Chunk) ELSE best.seek_delta

Emit ==
    LET silent == noSpeech /\ best.low IN
    /\ pc = "emit"
    /\ result_all' = IF silent THEN result_all ELSE result_all \cup NewSegments
    /\ prompt_past1' =
          (IF ~params.carry_initial_prompt /\ prompt.prev
           THEN prompt.take0 + prompt.take1 ELSE 0)
          + (IF silent THEN 0 ELSE best.result_len)
    /\ seek' = seek + SeekDelta
    /\ pc' = "window"
    /\ NoWindow
    /\ UNCHANGED <<prompt_past0, kv_self_n_dec, range>>

-----------------------------------------------------------------------------

\* The bound on calls and a state that is gone end the model.
Done ==
    /\ pc = "freed" \/ (pc = "idle" /\ calls = MaxCalls)
    /\ UNCHANGED vars

Step == LeaveLoop \/ EnterWindow \/ Prepare \/ LoseState \/ DecodeFails
           \/ Sample \/ Rank \/ Emit

Next ==
    \/ \E p \in Params, start \in Starts, end \in Ends : Call(p, start, end)
    \/ Step
    \/ Done

Spec == Init /\ [][Next]_vars

\* A thread that is in the call goes on; what it waits for is computation.
FairSpec == Spec /\ WF_vars(Step)

-----------------------------------------------------------------------------
(* Properties.                                                              *)

DecoderType ==
    [tokens : Seq(Tokens), tid : {-TokenBeg} \cup 0 .. MaxTs, low : BOOLEAN,
     result_len : Nat, seek_delta : 1 .. Chunk,
     failed : BOOLEAN, completed : BOOLEAN, has_ts : BOOLEAN]

\* The types of the variables of whisper_full_with_state.
TypeOK ==
    /\ result_all \subseteq [window : Nat, at : Nat \ {0}, t0 : Int, t1 : Int]
    /\ prompt_past0 \in Nat /\ prompt_past1 \in Nat /\ kv_self_n_dec \in Nat \ {0}
    /\ pc \in {"idle", "window", "prepare", "sample", "rank", "emit", "freed"}
    /\ params \in Params /\ calls \in 0 .. MaxCalls
    /\ seek \in Nat /\ seek_start \in Nat /\ seek_end \in Nat
    /\ it \in 1 .. Len(params.decoders) /\ i \in 0 .. n_max
    /\ prompt \in [prev : BOOLEAN, take0 : Nat, take1 : Nat]
    /\ decoders \in [1 .. MaxDecoders -> DecoderType]
    /\ best_decoder_id \in 1 .. MaxDecoders
    /\ noSpeech \in BOOLEAN

\* A segment ends before the next one begins, within a window and from window
\* to window, and the ends do not go back: captions written in this order do
\* not overlap. (Greedy decoding without timestamps gives segments that begin
\* long before the audio; only their ends are in order.)
SegmentsInOrder ==
    \A s, r \in result_all :
       s.window < r.window \/ (s.window = r.window /\ s.at < r.at) =>
          /\ s.t1 <= r.t1
          /\ (params.no_timestamps /\ ~params.beam) \/ s.t1 <= r.t0

\* The prompt keeps within its budget, whatever earlier calls left in the two
\* contexts, and with the tokens to come it fits the positions of the network.
ContextFits ==
    pc = "sample" =>
       /\ prompt.take1 >= 0
       /\ prompt.prev => 1 + prompt.take0 + prompt.take1 <= max_prompt_ctx(params)
       /\ promptSize + n_max <= TextCtx

\* A decoding that failed is shown only when all of the last temperature failed.
FailureIsLastResort ==
    pc = "emit" /\ best.failed =>
       it = Len(params.decoders) /\ \A j \in Cur : decoders[j].failed

\* Every call returns: each window moves the audio on, each temperature ends.
CallReturns == pc \in {"window", "prepare", "sample", "rank", "emit"} ~> pc \in {"idle", "freed"}

=============================================================================
