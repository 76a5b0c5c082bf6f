-------------------------- MODULE TranscribeProofs --------------------------
(* What holds of whisper_full_with_state for every audio, every choice of   *)
(* the network and every size of window, context and vocabulary.            *)
EXTENDS Transcribe, SequenceTheorems, TLAPS

\* What is known of a decoder: its timestamps do not decrease, the window is
\* to move at least as far as the last of them, and the tokens it counts as
\* its result are there.
Sound(d, p) ==
    /\ d.result_len <= Len(d.tokens)
    /\ d.tid >= 0 \/ (p.no_timestamps /\ ~p.beam)
    /\ \A k, l \in 1 .. Len(d.tokens) :
          k < l /\ d.tokens[k] > 0 /\ d.tokens[l] > 0 => d.tokens[k] <= d.tokens[l]
    /\ \A k \in 1 .. Len(d.tokens) :
          d.tokens[k] > 0 => d.has_ts /\ 2 * d.tokens[k] <= d.seek_delta

DecoderInv ==
    /\ \A j \in 1 .. MaxDecoders : Sound(decoders[j], params)
    /\ pc \in {"idle", "window"} =>
          it = 1 /\ i = 0 /\ decoders = [j \in 1 .. MaxDecoders |-> FreshDecoder]
    /\ pc = "sample" => i < n_max /\ \A j \in Live : Len(decoders[j].tokens) = i

\* The static context fits the call that goes on, and those that keep it.
ContextInv ==
    /\ \A q \in Params :
          q.carry_initial_prompt /\ ~q.no_context =>
             prompt_past0 <= Greater(1, max_prompt_ctx(q) - 1)
    /\ params.carry_initial_prompt /\ pc \in {"window", "prepare", "sample", "rank", "emit"} =>
          prompt_past0 <= Greater(1, max_prompt_ctx(params) - 1)

\* The segments so far lie before the window, unless the audio is at its end.
AudioInv ==
    /\ \A s \in result_all :
          s.window < seek /\ (s.t1 <= seek \/ seek >= seek_end)
    /\ pc \in {"prepare", "sample", "rank", "emit"} => seek + DeltaMin < seek_end

IInv ==
    /\ TypeOK /\ DecoderInv /\ ContextInv /\ AudioInv
    /\ SegmentsInOrder /\ ContextFits /\ FailureIsLastResort

-----------------------------------------------------------------------------
(* Constants and parameters.                                                *)

LEMMA SizeFacts ==
    /\ n_max \in Nat \ {0} /\ TextCtx \div 2 \in Nat /\ TextCtx \div 2 >= 5
    /\ n_max = TextCtx \div 2 - 4 /\ TextCtx \div 2 + TextCtx \div 2 <= TextCtx
    /\ Chunk \in Nat /\ Chunk = 2 * MaxTs /\ MaxTs \in Nat /\ MaxTs >= 1
BY SizesAreSane, SMT DEF n_max, Chunk

LEMMA ParamFacts ==
    ASSUME NEW p \in Params
    PROVE  /\ p \in ParamType
           /\ p.decoders \in Seq(1 .. MaxDecoders) /\ Len(p.decoders) \in Nat \ {0}
           /\ \A k \in 1 .. Len(p.decoders) : p.decoders[k] \in 1 .. MaxDecoders
           /\ max_prompt_ctx(p) \in Nat /\ max_prompt_ctx(p) <= TextCtx \div 2
           /\ p.prompt_n_tokens \in Nat /\ p.n_max_text_ctx \in Nat
           /\ p.carry_initial_prompt \in BOOLEAN /\ p.no_context \in BOOLEAN
           /\ p.n_max_text_ctx > 0 => max_prompt_ctx(p) > 0
<1>1. p \in ParamType /\ p.decoders # <<>>
  BY ParamsAreSane
<1>2. /\ p.decoders \in Seq(1 .. MaxDecoders) /\ Len(p.decoders) \in Nat \ {0}
      /\ \A k \in 1 .. Len(p.decoders) : p.decoders[k] \in 1 .. MaxDecoders
  <2>1. p.decoders \in Seq(1 .. MaxDecoders)
    BY <1>1 DEF ParamType
  <2>2. ASSUME NEW q \in Seq(1 .. MaxDecoders), q # <<>>
        PROVE  /\ Len(q) \in Nat \ {0}
               /\ \A k \in 1 .. Len(q) : q[k] \in 1 .. MaxDecoders
    BY <2>2, EmptySeq, ElementOfSeq, LenProperties
  <2>. QED  BY <2>1, <2>2, <1>1
<1>3. p.prompt_n_tokens \in Nat /\ p.n_max_text_ctx \in Nat
      /\ p.carry_initial_prompt \in BOOLEAN /\ p.no_context \in BOOLEAN
  BY <1>1 DEF ParamType
<1>4. /\ max_prompt_ctx(p) \in Nat /\ max_prompt_ctx(p) <= TextCtx \div 2
      /\ p.n_max_text_ctx > 0 => max_prompt_ctx(p) > 0
  BY <1>3, SizeFacts, SMT DEF max_prompt_ctx, Lesser
<1>. QED  BY <1>1, <1>2, <1>3, <1>4

LEMMA FreshFacts ==
    /\ FreshDecoder \in DecoderType
    /\ \A p : Sound(FreshDecoder, p)
    /\ FreshDecoder.tokens = <<>> /\ Len(FreshDecoder.tokens) = 0
BY SizeFacts, SizesAreSane, SMT DEF FreshDecoder, DecoderType, Sound, Tokens

-----------------------------------------------------------------------------
(* One decoder: a token more, and what follows from it.                     *)

\* What a token that is drawn makes of a sound decoder.
Extends(c, d) ==
    /\ c \in DecoderType
    /\ \E id \in Allowed(d) : c.tokens = Append(d.tokens, id)
    /\ c.tid >= 0 \/ (params.no_timestamps /\ ~params.beam)
    /\ c.result_len = d.result_len /\ c.seek_delta = d.seek_delta
    /\ c.failed = d.failed /\ c.completed = d.completed /\ c.has_ts = d.has_ts

LEMMA AllowedFacts ==
    ASSUME NEW d \in DecoderType, NEW id \in Allowed(d)
    PROVE  /\ id \in Tokens /\ id \in Int /\ id <= MaxTs
           /\ d.has_ts => id < 0 \/ 2 * id >= d.seek_delta
           /\ params.no_timestamps => id < 0
BY SizesAreSane, SMT DEF Allowed, Tokens, Text, Eot

LEMMA DrawnExtends ==
    ASSUME NEW d \in DecoderType, Sound(d, params), NEW c \in Drawn(d)
    PROVE  Extends(c, d)
<1>1. CASE d.tokens = <<>>
  <2>1. PICK id \in Allowed(d) : \E t \in FirstTids(id) :
            c = [d EXCEPT !.tokens = <<id>>, !.tid = t]
    BY <1>1 DEF Drawn
  <2>2. PICK t \in FirstTids(id) : c = [d EXCEPT !.tokens = <<id>>, !.tid = t]
    BY <2>1
  <2>3. id \in Tokens /\ id \in Int /\ id <= MaxTs /\ (params.no_timestamps => id < 0)
    BY AllowedFacts
  <2>4. /\ t \in {-TokenBeg} \cup 0 .. MaxTs
        /\ t >= 0 \/ (params.no_timestamps /\ ~params.beam)
    BY <2>2, <2>3, SizesAreSane, SMT DEF FirstTids
  <2>5. c \in DecoderType
    <3>1. <<id>> \in Seq(Tokens)
      BY <2>3
    <3>. QED  BY <2>2, <2>4, <3>1 DEF DecoderType
  <2>6. c.tokens = Append(d.tokens, id)
    BY <2>2, <1>1 DEF DecoderType
  <2>. QED  BY <2>2, <2>4, <2>5, <2>6 DEF Extends, DecoderType
<1>2. CASE d.tokens # <<>>
  <2>1. PICK id \in Allowed(d) : c = [d EXCEPT !.tokens = Append(@, id)]
    BY <1>2 DEF Drawn
  <2>2. id \in Tokens
    BY AllowedFacts
  <2>3. d.tokens \in Seq(Tokens)
    BY DEF DecoderType
  <2>4. Append(d.tokens, id) \in Seq(Tokens)
    BY <2>2, <2>3
  <2>5. c \in DecoderType
    BY <2>1, <2>4 DEF DecoderType
  <2>. QED  BY <2>1, <2>5 DEF Extends, DecoderType, Sound
<1>. QED  BY <1>1, <1>2

\* The token at position i is stamped: the decoder stays sound.
LEMMA StampedSound ==
    ASSUME i \in Nat,
           NEW d \in DecoderType, Sound(d, params), Len(d.tokens) = i,
           NEW c, Extends(c, d)
    PROVE  /\ ~GoesBack(c)
           /\ Stamped(c) \in DecoderType /\ Sound(Stamped(c), params)
           /\ Stamped(c).tokens = c.tokens /\ Len(c.tokens) = i + 1
<1>1. PICK id \in Allowed(d) : c.tokens = Append(d.tokens, id)
  BY DEF Extends
<1>2. /\ id \in Tokens /\ id \in Int /\ id <= MaxTs
      /\ d.has_ts => id < 0 \/ 2 * id >= d.seek_delta
  BY AllowedFacts
<1>3. d.tokens \in Seq(Tokens) /\ d.result_len \in Nat /\ d.seek_delta \in 1 .. Chunk
      /\ d.has_ts \in BOOLEAN
  BY DEF DecoderType
<1>4. /\ c.tokens \in Seq(Tokens) /\ Len(c.tokens) = i + 1 /\ c.tokens[i + 1] = id
      /\ \A k \in 1 .. i : c.tokens[k] = d.tokens[k]
  BY <1>1, <1>2, <1>3
<1>5. ~GoesBack(c)
  BY <1>2, <1>3, <1>4, SizeFacts, SMTT(30) DEF GoesBack, Extends
<1>6. \A k \in 1 .. i : d.tokens[k] \in Int
  BY <1>3, SizesAreSane, SMT DEF Tokens, Text, Eot
<1>7. CASE id > 0
  <2>1. Stamped(c) = [c EXCEPT !.seek_delta = 2 * id, !.result_len = i + 1, !.has_ts = TRUE]
    BY <1>4, <1>7 DEF Stamped
  <2>2. 2 * id \in 1 .. Chunk /\ i + 1 \in Nat
    BY <1>2, <1>7, SizeFacts, SMT
  <2>3. Stamped(c) \in DecoderType
    <3> DEFINE at == i + 1
               move == 2 * id
    <3>1. at \in Nat /\ move \in 1 .. Chunk /\ c \in DecoderType
      BY <2>2 DEF Extends
    <3>2. Stamped(c) = [c EXCEPT !.seek_delta = move, !.result_len = at, !.has_ts = TRUE]
      BY <2>1
    <3> HIDE DEF at, move
    <3>. QED  BY <3>1, <3>2 DEF DecoderType
  <2>4. /\ Stamped(c).tokens = c.tokens /\ Stamped(c).seek_delta = 2 * id
        /\ Stamped(c).result_len = i + 1 /\ Stamped(c).has_ts = TRUE
        /\ Stamped(c).tid = c.tid
    BY <2>1 DEF DecoderType, Extends
  <2>5. \A k \in 1 .. i : d.tokens[k] > 0 => d.tokens[k] <= id
    <3>1. SUFFICES ASSUME NEW k \in 1 .. i, d.tokens[k] > 0
                   PROVE  d.tokens[k] <= id
      OBVIOUS
    <3>2. d.has_ts /\ 2 * d.tokens[k] <= d.seek_delta
      BY <3>1 DEF Sound
    <3>3. d.tokens[k] \in Int /\ id \in Int /\ d.seek_delta \in Int /\ 2 * id >= d.seek_delta
      BY <3>1, <3>2, <1>2, <1>3, <1>6, <1>7, SizeFacts
    <3>. QED  BY <3>2, <3>3
  <2>6. Sound(Stamped(c), params)
    <3>1. Stamped(c).result_len <= Len(Stamped(c).tokens)
      BY <2>4, <1>4
    <3>2. Stamped(c).tid >= 0 \/ (params.no_timestamps /\ ~params.beam)
      BY <2>4 DEF Extends
    <3>3. \A k, l \in 1 .. i + 1 :
             k < l /\ c.tokens[k] > 0 /\ c.tokens[l] > 0 => c.tokens[k] <= c.tokens[l]
      <4>1. SUFFICES ASSUME NEW k \in 1 .. i + 1, NEW l \in 1 .. i + 1,
                            k < l, c.tokens[k] > 0, c.tokens[l] > 0
                     PROVE  c.tokens[k] <= c.tokens[l]
        OBVIOUS
      <4>2. CASE l = i + 1
        BY <4>1, <4>2, <2>5, <1>4, SMT
      <4>3. CASE l # i + 1
        <5>1. k \in 1 .. i /\ l \in 1 .. i
          BY <4>1, <4>3, SMT
        <5>. QED  BY <5>1, <4>1, <1>4 DEF Sound
      <4>. QED  BY <4>2, <4>3
    <3>4. \A k \in 1 .. i + 1 : c.tokens[k] > 0 => 2 * c.tokens[k] <= 2 * id
      <4>1. SUFFICES ASSUME NEW k \in 1 .. i + 1, c.tokens[k] > 0
                     PROVE  2 * c.tokens[k] <= 2 * id
        OBVIOUS
      <4>2. CASE k = i + 1
        BY <4>2, <1>2, <1>4, SMT
      <4>3. CASE k \in 1 .. i
        <5>1. d.tokens[k] \in Int /\ d.tokens[k] <= id
          BY <4>1, <4>3, <2>5, <1>4, <1>6
        <5>. QED  BY <5>1, <4>3, <1>2, <1>4, SMT
      <4>. QED  BY <4>2, <4>3, SMT
    <3>. QED  BY <3>1, <3>2, <3>3, <3>4, <2>4, <1>4 DEF Sound
  <2>. QED  BY <1>4, <1>5, <2>3, <2>4, <2>6
<1>8. CASE ~(id > 0)
  <2>1. Stamped(c) = c
    BY <1>4, <1>8 DEF Stamped
  <2>2. \A k \in 1 .. i + 1 : c.tokens[k] > 0 => k \in 1 .. i /\ d.tokens[k] > 0
    BY <1>4, <1>8, SMT
  <2>3. c.result_len <= Len(c.tokens)
    BY <1>3, <1>4, SMT DEF Extends, Sound
  <2>4. \A k, l \in 1 .. i + 1 :
           k < l /\ c.tokens[k] > 0 /\ c.tokens[l] > 0 => c.tokens[k] <= c.tokens[l]
    BY <2>2, <1>4 DEF Sound
  <2>5. \A k \in 1 .. i + 1 : c.tokens[k] > 0 => c.has_ts /\ 2 * c.tokens[k] <= c.seek_delta
    BY <2>2, <1>4 DEF Sound, Extends
  <2>6. Sound(c, params)
    BY <2>3, <2>4, <2>5, <1>4 DEF Sound, Extends
  <2>. QED  BY <2>1, <2>6, <1>4, <1>5 DEF Extends
<1>. QED  BY <1>7, <1>8

\* Completed or failed, a decoder keeps its tokens and stays sound.
LEMMA SettleSound ==
    ASSUME i \in Nat, NEW d \in DecoderType, Sound(d, params), Len(d.tokens) = i + 1
    PROVE  /\ Settle(d) \in DecoderType /\ Sound(Settle(d), params)
           /\ Len(Settle(d).tokens) = i + 1
<1>1. \A k \in 1 .. i + 1 : d.tokens[k] \in Int /\ d.tokens[k] <= MaxTs
  BY SizesAreSane, SMT DEF DecoderType, Tokens, Text, Eot
<1>2. [d EXCEPT !.failed = TRUE] \in DecoderType /\ Sound([d EXCEPT !.failed = TRUE], params)
      /\ [d EXCEPT !.failed = TRUE].tokens = d.tokens
  BY DEF DecoderType, Sound
<1>3. Complete(d) \in DecoderType /\ Sound(Complete(d), params) /\ Complete(d).tokens = d.tokens
  <2>1. CASE params.single_segment \/ params.no_timestamps
    <3> DEFINE e == [d EXCEPT !.result_len = i + 1, !.seek_delta = Chunk, !.completed = TRUE]
    <3>1. Complete(d) = e
      BY <2>1 DEF Complete
    <3>2. e \in DecoderType
      <4> DEFINE at == i + 1
      <4>1. at \in Nat /\ Chunk \in 1 .. Chunk
        BY SizeFacts, SMT
      <4>2. e = [d EXCEPT !.result_len = at, !.seek_delta = Chunk, !.completed = TRUE]
        OBVIOUS
      <4> HIDE DEF at, e
      <4>. QED  BY <4>1, <4>2 DEF DecoderType
    <3>3. e.tokens = d.tokens /\ e.result_len = i + 1 /\ e.seek_delta = Chunk
          /\ e.has_ts = d.has_ts /\ e.tid = d.tid
      BY DEF DecoderType
    <3>4. \A k \in 1 .. i + 1 : d.tokens[k] > 0 => d.has_ts /\ 2 * d.tokens[k] <= Chunk
      BY <1>1, SizeFacts, SMT DEF Sound
    <3>5. Sound(e, params)
      BY <3>3, <3>4 DEF Sound
    <3>. QED  BY <3>1, <3>2, <3>3, <3>5
  <2>2. CASE ~(params.single_segment \/ params.no_timestamps)
    <3> DEFINE e == [d EXCEPT !.result_len = i + 1, !.completed = TRUE]
               f == [d EXCEPT !.completed = TRUE]
    <3>1. e \in DecoderType /\ Sound(e, params) /\ e.tokens = d.tokens
      <4> DEFINE at == i + 1
      <4>1. at \in Nat /\ at <= Len(d.tokens)
        BY SMT
      <4>2. e = [d EXCEPT !.result_len = at, !.completed = TRUE]
        OBVIOUS
      <4> HIDE DEF at, e
      <4>. QED  BY <4>1, <4>2 DEF DecoderType, Sound
    <3>2. f \in DecoderType /\ Sound(f, params) /\ f.tokens = d.tokens
      BY DEF DecoderType, Sound
    <3>. QED  BY <2>2, <3>1, <3>2 DEF Complete
  <2>. QED  BY <2>1, <2>2
<1>. QED  BY <1>2, <1>3 DEF Settle

LEMMA CutSound ==
    ASSUME NEW d \in DecoderType, Sound(d, params), NEW l \in BOOLEAN, NEW f \in BOOLEAN
    PROVE  /\ [Cut(d) EXCEPT !.low = l, !.failed = f] \in DecoderType
           /\ Sound([Cut(d) EXCEPT !.low = l, !.failed = f], params)
           /\ [Cut(d) EXCEPT !.low = l, !.failed = f].failed = f
<1> DEFINE cut == SubSeq(d.tokens, 1, d.result_len)
           e == [Cut(d) EXCEPT !.low = l, !.failed = f]
<1>1. d.tokens \in Seq(Tokens) /\ d.result_len \in Nat /\ d.result_len <= Len(d.tokens)
  BY DEF DecoderType, Sound
<1>2. cut \in Seq(Tokens) /\ Len(cut) = d.result_len
      /\ \A k \in 1 .. d.result_len : cut[k] = d.tokens[k]
  BY <1>1
<1>3. e = [d EXCEPT !.tokens = cut, !.low = l, !.failed = f]
  BY DEF Cut, DecoderType
<1>4. e \in DecoderType
  BY <1>2, <1>3 DEF DecoderType
<1>5. e.tokens = cut /\ e.result_len = d.result_len /\ e.seek_delta = d.seek_delta
      /\ e.has_ts = d.has_ts /\ e.tid = d.tid /\ e.failed = f
  BY <1>3 DEF DecoderType
<1>6. \A k \in 1 .. d.result_len : k \in 1 .. Len(d.tokens)
  BY <1>1, SMT
<1>7. Sound(e, params)
  <2>1. e.result_len <= Len(e.tokens) /\ (e.tid >= 0 \/ (params.no_timestamps /\ ~params.beam))
    BY <1>1, <1>2, <1>5 DEF Sound
  <2>2. \A k, m \in 1 .. d.result_len :
           k < m /\ cut[k] > 0 /\ cut[m] > 0 => cut[k] <= cut[m]
    BY <1>2, <1>6 DEF Sound
  <2>3. \A k \in 1 .. d.result_len : cut[k] > 0 => d.has_ts /\ 2 * cut[k] <= d.seek_delta
    BY <1>2, <1>6 DEF Sound
  <2> HIDE DEF cut, e
  <2>. QED  BY <2>1, <2>2, <2>3, <1>2, <1>5 DEF Sound
<1>. QED  BY <1>4, <1>5, <1>7

LEMMA JudgedSound ==
    ASSUME NEW d \in DecoderType, Sound(d, params), NEW e \in Judged(d)
    PROVE  e \in DecoderType /\ Sound(e, params)
<1>1. CASE d.failed
  BY <1>1 DEF Judged
<1>2. CASE ~d.failed
  <2>1. PICK f \in BOOLEAN : e \in {[Cut(d) EXCEPT !.low = l, !.failed = f] : l \in BOOLEAN}
    BY <1>2 DEF Judged
  <2>2. PICK l \in BOOLEAN : e = [Cut(d) EXCEPT !.low = l, !.failed = f]
    BY <2>1
  <2>. QED  BY <2>2, CutSound
<1>. QED  BY <1>1, <1>2

-----------------------------------------------------------------------------
(* The steps that leave the segments alone.                                 *)

LEMMA InitHolds == Init => IInv
<1> SUFFICES ASSUME Init PROVE IInv
  OBVIOUS
<1> USE DEF Init
<1>1. \A j \in 1 .. MaxDecoders : decoders[j] = FreshDecoder
  OBVIOUS
<1>2. TypeOK
  <2>1. it \in 1 .. Len(params.decoders) /\ i \in 0 .. n_max
    BY ParamFacts, SizeFacts, SMT
  <2>2. best_decoder_id \in 1 .. MaxDecoders /\ calls \in 0 .. MaxCalls
    BY SizesAreSane, SMT
  <2>3. decoders \in [1 .. MaxDecoders -> DecoderType]
    BY FreshFacts
  <2>4. prompt \in [prev : BOOLEAN, take0 : Nat, take1 : Nat]
    BY DEF NoPrompt
  <2>5. /\ result_all = {} /\ prompt_past0 \in Nat /\ prompt_past1 \in Nat
        /\ kv_self_n_dec \in Nat \ {0} /\ params \in Params
        /\ seek \in Nat /\ seek_start \in Nat /\ seek_end \in Nat
    BY SMT
  <2>6. pc = "idle" /\ noSpeech = FALSE
    OBVIOUS
  <2> HIDE DEF Init
  <2>. QED  BY <2>1, <2>2, <2>3, <2>4, <2>5, <2>6 DEF TypeOK
<1>3. DecoderInv
  BY <1>1, FreshFacts DEF DecoderInv
<1>4. ContextInv
  <2>1. ASSUME NEW q \in Params
        PROVE  0 <= Greater(1, max_prompt_ctx(q) - 1)
    BY ParamFacts, SMT DEF Greater
  <2>. QED  BY <2>1 DEF ContextInv
<1>. QED  BY <1>2, <1>3, <1>4 DEF IInv, AudioInv, SegmentsInOrder, ContextFits, FailureIsLastResort

\* After NoWindow the variables of the window are as at the start.
LEMMA NoWindowFacts ==
    ASSUME NoWindow, params' \in Params
    PROVE  /\ it' = 1 /\ i' = 0
           /\ decoders' = [j \in 1 .. MaxDecoders |-> FreshDecoder]
           /\ it' \in 1 .. Len(params'.decoders) /\ i' \in 0 .. n_max
           /\ decoders' \in [1 .. MaxDecoders -> DecoderType]
           /\ prompt' \in [prev : BOOLEAN, take0 : Nat, take1 : Nat]
           /\ best_decoder_id' \in 1 .. MaxDecoders
           /\ noSpeech' \in BOOLEAN
           /\ \A j \in 1 .. MaxDecoders : Sound(decoders'[j], params')
<1>1. it' \in 1 .. Len(params'.decoders) /\ i' \in 0 .. n_max
      /\ best_decoder_id' \in 1 .. MaxDecoders
  BY ParamFacts, SizeFacts, SizesAreSane, SMT DEF NoWindow
<1>2. decoders' = [j \in 1 .. MaxDecoders |-> FreshDecoder]
  BY DEF NoWindow
<1>. QED  BY <1>1, <1>2, FreshFacts DEF NoWindow, NoPrompt

\* How many decoders the temperature has.
LEMMA CurFacts ==
    ASSUME TypeOK
    PROVE  /\ n_decoders_cur \in 1 .. MaxDecoders
           /\ Cur \subseteq 1 .. MaxDecoders /\ Live \subseteq Cur
           /\ Greater(kv_self_n_dec, n_decoders_cur) \in Nat \ {0}
<1>1. n_decoders_cur \in 1 .. MaxDecoders /\ kv_self_n_dec \in Nat \ {0}
  BY ParamFacts DEF TypeOK, n_decoders_cur
<1>. QED  BY <1>1, SizesAreSane, SMT DEF Cur, Live, Greater

LEMMA CallHolds ==
    ASSUME IInv, NEW p \in Params, NEW start \in Starts, NEW end \in Ends,
           Call(p, start, end)
    PROVE  IInv'
<1> USE DEF IInv
<1>1. /\ pc = "idle" /\ params' = p /\ result_all' = {} /\ pc' \in {"window", "idle"}
      /\ seek' = start /\ seek_start' = start /\ seek_end' = end
      /\ kv_self_n_dec' = kv_self_n_dec /\ window' = window
      /\ calls' = calls + 1 /\ calls < MaxCalls
  BY DEF Call
<1>2. it' = 1 /\ i' = 0 /\ prompt' = prompt /\ noSpeech' = noSpeech
      /\ best_decoder_id' = best_decoder_id /\ decoders' = decoders
      /\ decoders' = [j \in 1 .. MaxDecoders |-> FreshDecoder]
  BY <1>1 DEF window, DecoderInv
<1>3. /\ prompt_past0 \in Nat /\ prompt_past1 \in Nat /\ p.prompt_n_tokens \in Nat
      /\ max_prompt_ctx(p) \in Nat /\ calls \in 0 .. MaxCalls
      /\ p.carry_initial_prompt \in BOOLEAN /\ p.no_context \in BOOLEAN
  BY ParamFacts DEF TypeOK
<1>4. \/ PreparePrompt(p)
      \/ pc' = "idle" /\ prompt_past0' = prompt_past0 /\ prompt_past1' = prompt_past1
  BY DEF Call, past
<1>5. prompt_past0' \in Nat /\ prompt_past1' \in Nat
  <2>1. CASE PreparePrompt(p)
    BY <2>1, <1>3, SMT DEF PreparePrompt, Lesser, Greater
  <2>. QED  BY <2>1, <1>3, <1>4
<1>6. TypeOK'
  <2>1. it' \in 1 .. Len(p.decoders) /\ i' \in 0 .. n_max /\ calls' \in 0 .. MaxCalls
    BY <1>1, <1>2, <1>3, ParamFacts, SizeFacts, SizesAreSane, SMT
  <2>2. start \in Nat /\ end \in Nat
    BY SizesAreSane
  <2>. QED  BY <1>1, <1>2, <1>5, <2>1, <2>2 DEF TypeOK
<1>7. DecoderInv'
  <2>1. \A j \in 1 .. MaxDecoders : decoders'[j] = FreshDecoder
    BY <1>2
  <2>. QED  BY <1>1, <1>2, <2>1, FreshFacts DEF DecoderInv
<1>8. ContextInv'
  <2>1. ASSUME PreparePrompt(p), NEW q \in Params,
               q.carry_initial_prompt, ~q.no_context \/ q = p
        PROVE  prompt_past0' <= Greater(1, max_prompt_ctx(q) - 1)
    <3>1. max_prompt_ctx(q) \in Nat
      BY ParamFacts
    <3>2. CASE p.carry_initial_prompt /\ (p.no_context \/ prompt_past0 = 0)
      <4>1. prompt_past0' <= Greater(1, max_prompt_ctx(p) - 1)
        BY <2>1, <3>2, <1>3, SMT DEF PreparePrompt, Lesser, Greater
      <4>2. max_prompt_ctx(p) <= max_prompt_ctx(q)
        BY <2>1, <3>2, <3>1, ParamsAreSane
      <4>. QED  BY <4>1, <4>2, <3>1, <1>3, <1>5, SMT DEF Greater
    <3>3. CASE ~p.carry_initial_prompt /\ p.no_context
      BY <2>1, <3>1, <3>3, SMT DEF PreparePrompt, Greater
    <3>4. CASE ~p.no_context /\ (prompt_past0 # 0 \/ ~p.carry_initial_prompt)
      <4>1. prompt_past0' = prompt_past0
        BY <2>1, <3>4 DEF PreparePrompt
      <4>2. ~q.no_context
        BY <2>1, <3>4
      <4>. QED  BY <4>1, <4>2, <2>1 DEF ContextInv
    <3>. QED  BY <3>2, <3>3, <3>4, <1>3
  <2>2. CASE PreparePrompt(p)
    BY <2>2, <2>1, <1>1 DEF ContextInv
  <2>3. CASE pc' = "idle" /\ prompt_past0' = prompt_past0
    BY <2>3 DEF ContextInv
  <2>. QED  BY <2>2, <2>3, <1>4
<1>. QED  BY <1>1, <1>6, <1>7, <1>8
          DEF AudioInv, SegmentsInOrder, ContextFits, FailureIsLastResort

\* However the loop is left, what was found stays.
LEMMA LeavingHolds ==
    ASSUME IInv, NoWindow, pc' \in {"idle", "freed"}, kv_self_n_dec' \in Nat \ {0},
           UNCHANGED <<result_all, past, range, seek>>
    PROVE  IInv'
<1> USE DEF IInv, range, past
<1>1. params' = params /\ params' \in Params
  BY DEF TypeOK
<1>2. TypeOK'
  BY <1>1, NoWindowFacts DEF TypeOK
<1>3. DecoderInv'
  BY <1>1, NoWindowFacts DEF DecoderInv
<1>4. ContextInv' /\ AudioInv' /\ SegmentsInOrder'
  BY <1>1 DEF ContextInv, AudioInv, SegmentsInOrder
<1>. QED  BY <1>2, <1>3, <1>4 DEF ContextFits, FailureIsLastResort

LEMMA EnterHolds == IInv /\ EnterWindow => IInv'
<1> SUFFICES ASSUME IInv, EnterWindow PROVE IInv'
  OBVIOUS
<1> USE DEF IInv, EnterWindow, range, window, past
<1>1. \/ prompt_past0' = 0 /\ prompt_past1' = 0
      \/ prompt_past0' = prompt_past0 /\ prompt_past1' = prompt_past1
  OBVIOUS
<1>2. TypeOK'
  BY <1>1, SMTT(30) DEF TypeOK
<1>3. DecoderInv'
  BY DEF DecoderInv
<1>4. ContextInv'
  <2>1. ASSUME NEW q \in Params
        PROVE  0 <= Greater(1, max_prompt_ctx(q) - 1)
    BY ParamFacts, SMT DEF Greater
  <2>2. params \in Params
    BY DEF TypeOK
  <2>. QED  BY <1>1, <2>1, <2>2 DEF ContextInv
<1>. QED  BY <1>2, <1>3, <1>4 DEF AudioInv, SegmentsInOrder, ContextFits, FailureIsLastResort

\* The prompt that is taken keeps within its budget.
LEMMA PromptFits ==
    ASSUME IInv, pc = "prepare"
    PROVE  /\ TakePrompt \in [prev : BOOLEAN, take0 : Nat, take1 : Nat]
           /\ TakePrompt.prev =>
                 1 + TakePrompt.take0 + TakePrompt.take1 <= max_prompt_ctx(params)
           /\ ~TakePrompt.prev => TakePrompt.take0 = 0 /\ TakePrompt.take1 = 0
<1> USE DEF IInv
<1>1. /\ params \in Params /\ prompt_past0 \in Nat /\ prompt_past1 \in Nat
      /\ max_prompt_ctx(params) \in Nat
      /\ params.n_max_text_ctx > 0 => max_prompt_ctx(params) > 0
  BY ParamFacts DEF TypeOK
<1>2. params.carry_initial_prompt =>
         /\ prompt_past0 <= Greater(1, max_prompt_ctx(params) - 1)
         /\ max_prompt_ctx(params) # 1
  BY <1>1, ParamsAreSane DEF ContextInv
<1> DEFINE take0 == IF params.carry_initial_prompt /\ prompt_past0 # 0 THEN prompt_past0 ELSE 0
           take1 == Lesser(max_prompt_ctx(params) - take0 - 1, prompt_past1)
<1>3. CASE params.n_max_text_ctx > 0
  <2>1. max_prompt_ctx(params) > 0
    BY <1>1, <1>3
  <2>2. take0 \in Nat /\ take0 + 1 <= max_prompt_ctx(params)
    BY <1>1, <1>2, <2>1, SMT DEF Greater
  <2>3. take1 \in Nat /\ 1 + take0 + take1 <= max_prompt_ctx(params)
    <3> HIDE DEF take0
    <3>. QED  BY <1>1, <2>2, SMT DEF Lesser
  <2>4. TakePrompt \in {[prev |-> TRUE, take0 |-> take0, take1 |-> take1], NoPrompt}
    BY DEF TakePrompt
  <2>5. CASE TakePrompt = [prev |-> TRUE, take0 |-> take0, take1 |-> take1]
    <3>1. TakePrompt.prev = TRUE /\ TakePrompt.take0 = take0 /\ TakePrompt.take1 = take1
      BY <2>5
    <3>2. TakePrompt \in [prev : BOOLEAN, take0 : Nat, take1 : Nat]
      BY <2>5, <2>2, <2>3
    <3> HIDE DEF take0, take1
    <3>. QED  BY <3>1, <3>2, <2>3
  <2>6. CASE TakePrompt = NoPrompt
    BY <2>6 DEF NoPrompt
  <2>. QED  BY <2>4, <2>5, <2>6
<1>4. CASE ~(params.n_max_text_ctx > 0)
  BY <1>4 DEF TakePrompt, NoPrompt
<1>. QED  BY <1>3, <1>4

LEMMA PrepareHolds == IInv /\ Prepare => IInv'
<1> SUFFICES ASSUME IInv, Prepare PROVE IInv'
  OBVIOUS
<1> USE DEF IInv, range, past
<1>1. /\ pc = "prepare" /\ pc' = "sample" /\ decoders' = ResetDecoders
      /\ prompt' = TakePrompt /\ i' = 0 /\ noSpeech' \in BOOLEAN
      /\ kv_self_n_dec' = Greater(kv_self_n_dec, n_decoders_cur)
      /\ UNCHANGED <<result_all, prompt_past0, prompt_past1, params, seek_start,
                     seek_end, calls, seek, it, best_decoder_id>>
  BY DEF Prepare
<1>2. DOMAIN decoders = 1 .. MaxDecoders
  BY DEF TypeOK
<1>3. \A j \in 1 .. MaxDecoders :
         decoders'[j] = IF j \in Cur THEN FreshDecoder ELSE decoders[j]
  BY <1>1, <1>2 DEF ResetDecoders
<1>4. TypeOK'
  <2>1. decoders' \in [1 .. MaxDecoders -> DecoderType]
    BY <1>1, <1>2, FreshFacts DEF TypeOK, ResetDecoders
  <2>2. i' \in 0 .. n_max
    BY <1>1, SizeFacts, SMT
  <2>. QED  BY <1>1, <2>1, <2>2, PromptFits, CurFacts DEF TypeOK
<1>5. DecoderInv'
  <2>1. \A j \in 1 .. MaxDecoders : Sound(decoders'[j], params)
    BY <1>3, FreshFacts DEF DecoderInv
  <2>2. \A j \in Live' : Len(decoders'[j].tokens) = 0
    <3>1. Live' \subseteq Cur
      BY <1>1 DEF Live, Cur, n_decoders_cur
    <3>. QED  BY <3>1, <1>3, FreshFacts, CurFacts
  <2>3. 0 < n_max
    BY SizeFacts, SMT
  <2>. QED  BY <1>1, <2>1, <2>2, <2>3 DEF DecoderInv
<1>6. ContextInv' /\ AudioInv' /\ SegmentsInOrder'
  BY <1>1 DEF ContextInv, AudioInv, SegmentsInOrder
<1>7. ContextFits'
  <2> DEFINE size == (IF TakePrompt.prev THEN 1 ELSE 0) + TakePrompt.take0 + TakePrompt.take1
             more == InitTokens + (IF params.no_timestamps THEN 1 ELSE 0)
  <2>1. /\ TakePrompt.take0 \in Nat /\ TakePrompt.take1 \in Nat /\ TakePrompt.prev \in BOOLEAN
        /\ max_prompt_ctx(params) \in Nat /\ max_prompt_ctx(params) <= TextCtx \div 2
    BY <1>1, PromptFits, ParamFacts DEF TypeOK
  <2>2. size <= max_prompt_ctx(params) /\ size \in Nat
    BY <2>1, <1>1, PromptFits, SMT
  <2>3. more \in Nat /\ more <= 4
    BY SizesAreSane, SMT
  <2>4. promptSize' = size + more
    <3>1. promptSize' = (IF TakePrompt.prev THEN 1 ELSE 0) + TakePrompt.take0
             + TakePrompt.take1 + InitTokens + (IF params.no_timestamps THEN 1 ELSE 0)
      BY <1>1 DEF promptSize
    <3>. QED  BY <3>1, <2>1, SizesAreSane, SMT
  <2> HIDE DEF size, more
  <2>5. promptSize' + n_max <= TextCtx
    BY <2>1, <2>2, <2>3, <2>4, SizeFacts, SizesAreSane, SMT
  <2>. QED  BY <1>1, <2>1, <2>5, PromptFits DEF ContextFits
<1>. QED  BY <1>1, <1>4, <1>5, <1>6, <1>7 DEF FailureIsLastResort

-----------------------------------------------------------------------------
(* The steps that decide what the segments will be.                         *)

LEMMA SampleHolds == IInv /\ Sample => IInv'
<1> SUFFICES ASSUME IInv, Sample PROVE IInv'
  OBVIOUS
<1> USE DEF IInv, range, past
<1>1. PICK c \in [Live -> UNION {Candidates(j) : j \in Live}] :
         /\ \A j \in Live : c[j] \in Candidates(j)
         /\ decoders' = [j \in DOMAIN decoders |->
                            IF j \in Live THEN Updated(c[j]) ELSE decoders[j]]
  BY DEF Sample
<1>2. /\ pc = "sample" /\ i' = i + 1 /\ pc' \in {"rank", "sample"}
      /\ i' = n_max => pc' = "rank"
      /\ UNCHANGED <<result_all, prompt_past0, prompt_past1, kv_self_n_dec, params,
                     seek_start, seek_end, calls, seek, it, prompt,
                     best_decoder_id, noSpeech>>
  BY DEF Sample
<1>3. /\ i \in Nat /\ i < n_max /\ i' \in 0 .. n_max
      /\ DOMAIN decoders = 1 .. MaxDecoders
      /\ decoders \in [1 .. MaxDecoders -> DecoderType]
      /\ Live \subseteq 1 .. MaxDecoders
  <2>1. i \in 0 .. n_max /\ i < n_max
    BY <1>2 DEF TypeOK, DecoderInv
  <2>2. i \in Nat /\ i' \in 0 .. n_max
    BY <2>1, <1>2, SizeFacts, SMT
  <2>3. decoders \in [1 .. MaxDecoders -> DecoderType] /\ Live \subseteq 1 .. MaxDecoders
    BY CurFacts DEF TypeOK
  <2>. QED  BY <2>1, <2>2, <2>3
<1>4. ASSUME NEW j \in Live
      PROVE  /\ Updated(c[j]) \in DecoderType /\ Sound(Updated(c[j]), params)
             /\ Len(Updated(c[j]).tokens) = i + 1
  <2>1. PICK k \in Live : c[j] \in Drawn(decoders[k])
    BY <1>1 DEF Candidates
  <2>2. /\ decoders[k] \in DecoderType /\ Sound(decoders[k], params)
        /\ Len(decoders[k].tokens) = i
    BY <1>2, <1>3 DEF DecoderInv
  <2>3. Extends(c[j], decoders[k])
    BY <2>1, <2>2, DrawnExtends
  <2>4. /\ ~GoesBack(c[j])
        /\ Stamped(c[j]) \in DecoderType /\ Sound(Stamped(c[j]), params)
        /\ Stamped(c[j]).tokens = c[j].tokens /\ Len(c[j].tokens) = i + 1
    BY <1>3, <2>2, <2>3, StampedSound
  <2>. QED  BY <1>3, <2>4, SettleSound DEF Updated
<1>5. \A j \in 1 .. MaxDecoders :
         decoders'[j] = IF j \in Live THEN Updated(c[j]) ELSE decoders[j]
  BY <1>1, <1>3
<1>6. TypeOK'
  <2>1. decoders' \in [1 .. MaxDecoders -> DecoderType]
    BY <1>1, <1>3, <1>4
  <2>. QED  BY <1>2, <1>3, <2>1 DEF TypeOK
<1>7. DecoderInv'
  <2>1. \A j \in 1 .. MaxDecoders : Sound(decoders'[j], params)
    BY <1>4, <1>5 DEF DecoderInv
  <2>2. ASSUME NEW j \in Live' PROVE Len(decoders'[j].tokens) = i + 1
    <3>1. j \in Cur /\ ~decoders'[j].failed /\ ~decoders'[j].completed
      BY <1>2 DEF Live, Cur, n_decoders_cur
    <3>2. j \in 1 .. MaxDecoders
      BY <3>1, CurFacts
    <3>3. j \in Live
      BY <3>1, <3>2, <1>5 DEF Live
    <3>. QED  BY <3>2, <3>3, <1>4, <1>5
  <2>3. pc' = "sample" => i' < n_max
    BY <1>2, <1>3, SizeFacts, SMT
  <2>. QED  BY <1>2, <2>1, <2>2, <2>3 DEF DecoderInv
<1>8. ContextInv' /\ AudioInv' /\ SegmentsInOrder'
  BY <1>2 DEF ContextInv, AudioInv, SegmentsInOrder
<1>9. ContextFits'
  BY <1>2 DEF ContextFits, promptSize
<1>. QED  BY <1>2, <1>6, <1>7, <1>8, <1>9 DEF FailureIsLastResort

LEMMA RankHolds == IInv /\ Rank => IInv'
<1> SUFFICES ASSUME IInv, Rank PROVE IInv'
  OBVIOUS
<1> USE DEF IInv, range, past
<1> DEFINE Ranked(s) == [j \in DOMAIN decoders |-> IF j \in Cur THEN s[j] ELSE decoders[j]]
           Good(s)   == {j \in Cur : ~Ranked(s)[j].failed}
<1>1. PICK s \in Scores(decoders) :
         /\ decoders' = Ranked(s)
         /\ best_decoder_id' \in IF Good(s) = {} THEN {best_decoder_id} ELSE Good(s)
         /\ IF it < Len(params.decoders) /\ Poor(Ranked(s)[best_decoder_id'])
            THEN pc' = "prepare" /\ it' = it + 1
            ELSE pc' = "emit" /\ it' = it
  BY DEF Rank
<1>2. /\ pc = "rank"
      /\ UNCHANGED <<result_all, prompt_past0, prompt_past1, kv_self_n_dec, params,
                     seek_start, seek_end, calls, seek, i, prompt, noSpeech>>
  BY DEF Rank
<1>3. /\ DOMAIN decoders = 1 .. MaxDecoders
      /\ decoders \in [1 .. MaxDecoders -> DecoderType]
      /\ Cur \subseteq 1 .. MaxDecoders
      /\ it \in 1 .. Len(params.decoders) /\ best_decoder_id \in 1 .. MaxDecoders
  BY CurFacts DEF TypeOK
<1>4. ASSUME NEW j \in Cur
      PROVE  s[j] \in DecoderType /\ Sound(s[j], params)
  <2>1. decoders[j] \in DecoderType /\ Sound(decoders[j], params)
    BY <1>3 DEF DecoderInv
  <2>2. s[j] \in Judged(decoders[j])
    BY <1>1 DEF Scores
  <2>. QED  BY <2>1, <2>2, JudgedSound
<1>5. \A j \in 1 .. MaxDecoders : decoders'[j] = IF j \in Cur THEN s[j] ELSE decoders[j]
  BY <1>1, <1>3
<1>6. best_decoder_id' \in 1 .. MaxDecoders
  <2>1. Good(s) \subseteq Cur
    OBVIOUS
  <2> HIDE DEF Good
  <2>. QED  BY <1>1, <1>3, <2>1
<1>7. it' \in 1 .. Len(params.decoders) /\ pc' \in {"prepare", "emit"}
  <2>1. params \in Params
    BY DEF TypeOK
  <2>2. Len(params.decoders) \in Nat
    BY <2>1, ParamFacts
  <2>. QED  BY <1>1, <1>3, <2>2, SMT
<1>8. TypeOK'
  <2>1. decoders' \in [1 .. MaxDecoders -> DecoderType]
    <3>1. ASSUME NEW j \in 1 .. MaxDecoders
          PROVE  (IF j \in Cur THEN s[j] ELSE decoders[j]) \in DecoderType
      BY <1>3, <1>4
    <3>2. decoders' = [j \in 1 .. MaxDecoders |-> IF j \in Cur THEN s[j] ELSE decoders[j]]
      BY <1>1, <1>3
    <3>. QED  BY <3>1, <3>2
  <2>. QED  BY <1>2, <1>6, <1>7, <2>1 DEF TypeOK
<1>9. DecoderInv'
  <2>1. \A j \in 1 .. MaxDecoders : Sound(decoders'[j], params)
    BY <1>4, <1>5 DEF DecoderInv
  <2>. QED  BY <1>2, <1>7, <2>1 DEF DecoderInv
<1>10. FailureIsLastResort'
  <2>1. SUFFICES ASSUME pc' = "emit", decoders'[best_decoder_id'].failed
                 PROVE  /\ it' = Len(params.decoders)
                        /\ \A j \in Cur : decoders'[j].failed
    <3>1. pc' = "emit" => it' = it
      BY <1>1
    <3>. QED  BY <1>2, <2>1, <3>1 DEF FailureIsLastResort, best, Cur, n_decoders_cur
  <2>2. it' = it /\ ~(it < Len(params.decoders))
    BY <1>1, <2>1 DEF Poor
  <2>3. it' = Len(params.decoders)
    <3>1. params \in Params
      BY DEF TypeOK
    <3>2. Len(params.decoders) \in Nat
      BY <3>1, ParamFacts
    <3>. QED  BY <2>2, <3>2, <1>3, SMT
  <2>4. Good(s) = {}
    <3>1. SUFFICES ASSUME Good(s) # {} PROVE FALSE
      OBVIOUS
    <3>2. best_decoder_id' \in Good(s)
      BY <1>1, <3>1
    <3>. QED  BY <3>2, <2>1, <1>1
  <2>5. ASSUME NEW j \in Cur PROVE decoders'[j].failed
    <3>1. Ranked(s)[j].failed
      BY <2>4
    <3>. QED  BY <3>1, <1>1
  <2>. QED  BY <2>3, <2>5
<1>11. ContextInv' /\ AudioInv' /\ SegmentsInOrder'
  BY <1>2, <1>7 DEF ContextInv, AudioInv, SegmentsInOrder
<1>. QED  BY <1>2, <1>7, <1>8, <1>9, <1>10, <1>11 DEF ContextFits

\* What is known of the best decoder when its segments are made.
LEMMA BestFacts ==
    ASSUME IInv
    PROVE  /\ best \in DecoderType /\ Sound(best, params)
           /\ best.tokens \in Seq(Tokens) /\ best.seek_delta \in 1 .. Chunk
           /\ best.result_len \in Nat /\ best.tid \in Int /\ Len(best.tokens) \in Nat
           /\ \A k \in 1 .. Len(best.tokens) : best.tokens[k] \in Int
<1>1. best_decoder_id \in 1 .. MaxDecoders /\ decoders \in [1 .. MaxDecoders -> DecoderType]
  BY DEF IInv, TypeOK
<1>2. best \in DecoderType /\ Sound(best, params)
  BY <1>1 DEF best, IInv, DecoderInv
<1>3. best.tokens \in Seq(Tokens) /\ best.seek_delta \in 1 .. Chunk /\ best.result_len \in Nat
      /\ best.tid \in {-TokenBeg} \cup 0 .. MaxTs
  BY <1>2 DEF DecoderType
<1>4. best.tid \in Int
  BY <1>3, SizesAreSane, SMT
<1>5. Tokens \subseteq Int
  BY SizesAreSane, SMT DEF Tokens, Text, Eot
<1>6. Len(best.tokens) \in Nat /\ \A k \in 1 .. Len(best.tokens) : best.tokens[k] \in Tokens
  BY <1>3, ElementOfSeq, LenProperties
<1>. QED  BY <1>2, <1>3, <1>4, <1>5, <1>6

\* Where the cuts of the best decoder's tokens are in time.
LEMMA CutFacts ==
    ASSUME IInv, NEW k \in Cuts
    PROVE  /\ k \in 1 .. Len(best.tokens) /\ best.tokens[k] \in Int /\ best.tokens[k] > 0
           /\ 2 * best.tokens[k] <= best.seek_delta
           /\ \A l \in Cuts : k <= l => best.tokens[k] <= best.tokens[l]
<1>1. Cuts \subseteq {l \in 1 .. Len(best.tokens) : best.tokens[l] > 0}
  BY DEF Cuts
<1>2. k \in 1 .. Len(best.tokens) /\ best.tokens[k] > 0
  BY <1>1
<1>3. ASSUME NEW l \in Cuts, k <= l PROVE best.tokens[k] <= best.tokens[l]
  <2>1. l \in 1 .. Len(best.tokens) /\ best.tokens[l] > 0
    BY <1>1
  <2>2. best.tokens[l] \in Int
    BY <2>1, BestFacts
  <2>3. CASE k < l
    BY <2>1, <2>3, <1>2, BestFacts DEF Sound
  <2>4. CASE k = l
    BY <2>2, <2>4, SMT
  <2>. QED  BY <1>2, <1>3, <2>1, <2>3, <2>4, BestFacts, SMT
<1>. QED  BY <1>2, <1>3, BestFacts DEF Sound

\* A segment of the window, and its ends: it lies within the window's move.
PieceFits(b, c) ==
    /\ b \in {0} \cup Cuts /\ c \in Cuts \cup {Len(best.tokens) + 1}
    /\ c \in Nat \ {0} /\ TimeFrom(b) \in Int /\ TimeTo(c) \in Int
    /\ seek < TimeTo(c) /\ TimeTo(c) <= seek + best.seek_delta
    /\ (params.no_timestamps /\ ~params.beam) \/ seek <= TimeFrom(b)
    /\ \A k \in Cuts : k <= b \/ k >= c

LEMMA PiecesFit ==
    ASSUME IInv, NEW bc \in Pieces
    PROVE  PieceFits(bc[1], bc[2])
<1> DEFINE b == bc[1]
           c == bc[2]
<1>1. /\ b \in {0} \cup Cuts /\ c \in Cuts \cup {Len(best.tokens) + 1}
      /\ \A k \in Cuts : k <= b \/ k >= c
  BY DEF Pieces
<1> HIDE DEF b, c
<1>2. seek \in Nat
  BY DEF IInv, TypeOK
<1>3. /\ TimeTo(c) \in Int /\ seek < TimeTo(c) /\ TimeTo(c) <= seek + best.seek_delta
      /\ c \in Nat \ {0}
  <2>1. CASE c \in Cuts
    <3>1. /\ c \in 1 .. Len(best.tokens) /\ best.tokens[c] \in Int /\ best.tokens[c] > 0
          /\ 2 * best.tokens[c] <= best.seek_delta
      BY <2>1, CutFacts
    <3>2. TimeTo(c) = seek + 2 * best.tokens[c]
      BY <2>1 DEF TimeTo
    <3>. QED  BY <3>1, <3>2, <1>2, BestFacts, SMT
  <2>2. CASE c \notin Cuts
    <3>1. c = Len(best.tokens) + 1
      BY <2>2, <1>1
    <3>2. TimeTo(c) = seek + best.seek_delta
      BY <2>2 DEF TimeTo
    <3>3. Len(best.tokens) \in Nat /\ best.seek_delta \in Nat /\ best.seek_delta >= 1
      BY BestFacts, SizeFacts
    <3>4. TimeTo(c) \in Int /\ seek < TimeTo(c) /\ TimeTo(c) <= seek + best.seek_delta
      BY <3>2, <3>3, <1>2, SMT
    <3>5. c \in Nat \ {0}
      BY <3>1, <3>3, SMT
    <3>. QED  BY <3>4, <3>5
  <2>. QED  BY <2>1, <2>2
<1>4. /\ TimeFrom(b) \in Int
      /\ (params.no_timestamps /\ ~params.beam) \/ seek <= TimeFrom(b)
  <2>1. CASE b = 0
    <3>1. TimeFrom(b) = seek + 2 * best.tid
      BY <2>1 DEF TimeFrom
    <3>2. best.tid \in Int /\ (best.tid >= 0 \/ (params.no_timestamps /\ ~params.beam))
      BY BestFacts DEF Sound
    <3>. QED  BY <3>1, <3>2, <1>2, SMT
  <2>2. CASE b # 0
    <3>1. b \in Cuts
      BY <2>2, <1>1
    <3>2. best.tokens[b] \in Int /\ best.tokens[b] > 0
      BY <3>1, CutFacts
    <3>3. TimeFrom(b) = seek + 2 * best.tokens[b]
      BY <2>2 DEF TimeFrom
    <3>. QED  BY <3>2, <3>3, <1>2, SMT
  <2>. QED  BY <2>1, <2>2
<1>. QED  BY <1>1, <1>3, <1>4 DEF PieceFits, b, c

\* Of two pieces the later begins after the earlier has ended.
LEMMA PiecesInOrder ==
    ASSUME IInv, NEW x \in Pieces, NEW y \in Pieces, x[2] < y[2]
    PROVE  TimeTo(x[2]) <= TimeTo(y[2]) /\ TimeTo(x[2]) <= TimeFrom(y[1])
<1> DEFINE c == x[2]
           b == y[1]
           d == y[2]
<1>1. PieceFits(x[1], c) /\ PieceFits(b, d) /\ c < d
  BY PiecesFit
<1> HIDE DEF c, b, d
<1>2. /\ c \in Cuts \cup {Len(best.tokens) + 1} /\ d \in Cuts \cup {Len(best.tokens) + 1}
      /\ b \in {0} \cup Cuts /\ c \in Nat \ {0} /\ d \in Nat \ {0}
      /\ \A k \in Cuts : k <= b \/ k >= d
  BY <1>1 DEF PieceFits
<1>3. c \in Cuts
  <2>1. SUFFICES ASSUME c = Len(best.tokens) + 1 PROVE FALSE
    BY <1>2
  <2>2. d \in Cuts => d \in 1 .. Len(best.tokens)
    BY CutFacts
  <2>. QED  BY <2>1, <2>2, <1>1, <1>2, BestFacts, SMT
<1>4. c <= b /\ b \in Cuts
  <2>1. c <= b
    BY <1>1, <1>2, <1>3, SMT
  <2>2. b # 0
    BY <2>1, <1>2, SMT
  <2>. QED  BY <2>1, <2>2, <1>2
<1>5. /\ TimeTo(c) = seek + 2 * best.tokens[c]
      /\ TimeFrom(b) = seek + 2 * best.tokens[b]
  <2>1. b # 0
    BY <1>2, <1>4, SMT
  <2>. QED  BY <2>1, <1>3 DEF TimeTo, TimeFrom
<1>6. /\ best.tokens[c] \in Int /\ best.tokens[b] \in Int /\ best.tokens[c] <= best.tokens[b]
      /\ 2 * best.tokens[c] <= best.seek_delta
  BY <1>3, <1>4, CutFacts
<1>7. seek \in Nat
  BY DEF IInv, TypeOK
<1>8. TimeTo(c) <= TimeFrom(b)
  BY <1>5, <1>6, <1>7, SMT
<1>9. TimeTo(c) <= TimeTo(d)
  <2>1. CASE d \in Cuts
    <3>1. TimeTo(d) = seek + 2 * best.tokens[d]
      BY <2>1 DEF TimeTo
    <3>2. c <= d
      BY <1>1, <1>2, SMT
    <3>3. best.tokens[d] \in Int /\ best.tokens[c] <= best.tokens[d]
      BY <2>1, <3>2, <1>3, CutFacts
    <3>. QED  BY <3>1, <3>3, <1>5, <1>6, <1>7, SMT
  <2>2. CASE d \notin Cuts
    <3>1. TimeTo(d) = seek + best.seek_delta
      BY <2>2 DEF TimeTo
    <3>. QED  BY <3>1, <1>5, <1>6, <1>7, BestFacts, SMTT(30)
  <2>. QED  BY <2>1, <2>2
<1>. QED  BY <1>8, <1>9 DEF c, b, d

\* The window moves on, and past what its segments cover unless that is all.
LEMMA WindowMoves ==
    ASSUME IInv, pc = "emit"
    PROVE  /\ SeekDelta \in Nat \ {0}
           /\ best.seek_delta <= SeekDelta \/ seek + SeekDelta >= seek_end
<1>1. /\ seek \in Nat /\ seek_end \in Nat /\ seek + DeltaMin < seek_end /\ DeltaMin \in Nat
      /\ best.seek_delta \in 1 .. Chunk
  BY BestFacts, SizesAreSane DEF IInv, TypeOK, AudioInv
<1>2. CASE SingleTimestampEnding
  <2>1. SeekDelta = Lesser(seek_end - seek, Chunk)
    BY <1>2 DEF SeekDelta
  <2>. QED  BY <2>1, <1>1, SizeFacts, SMT DEF Lesser
<1>3. CASE ~SingleTimestampEnding
  <2>1. SeekDelta = best.seek_delta
    BY <1>3 DEF SeekDelta
  <2>. QED  BY <2>1, <1>1, SizeFacts, SMT
<1>. QED  BY <1>2, <1>3

LEMMA EmitHolds == IInv /\ Emit => IInv'
<1> SUFFICES ASSUME IInv, Emit PROVE IInv'
  OBVIOUS
<1>1. /\ pc = "emit" /\ pc' = "window" /\ NoWindow
      /\ result_all' = result_all \/ result_all' = result_all \cup NewSegments
      /\ seek' = seek + SeekDelta
      /\ UNCHANGED <<prompt_past0, kv_self_n_dec, params, seek_start, seek_end, calls>>
  BY DEF Emit, range
<1>2. /\ params \in Params /\ params' \in Params
      /\ seek \in Nat /\ seek_end \in Nat /\ SeekDelta \in Nat \ {0}
      /\ seek' \in Nat /\ seek < seek' /\ seek < seek_end
  <2>1. seek \in Nat /\ seek_end \in Nat /\ SeekDelta \in Nat \ {0} /\ params \in Params
        /\ seek + DeltaMin < seek_end /\ DeltaMin \in Nat
    BY <1>1, WindowMoves, SizesAreSane DEF IInv, TypeOK, AudioInv
  <2>2. seek' \in Nat /\ seek < seek' /\ seek < seek_end
    BY <2>1, <1>1, SMT
  <2>. QED  BY <2>1, <2>2, <1>1
<1>3. \A r \in NewSegments : \E bc \in Pieces :
         /\ r.window = seek /\ r.at = bc[2]
         /\ r.t0 = TimeFrom(bc[1]) /\ r.t1 = TimeTo(bc[2])
         /\ PieceFits(bc[1], bc[2])
         /\ r = [window |-> seek, at |-> bc[2], t0 |-> TimeFrom(bc[1]), t1 |-> TimeTo(bc[2])]
  BY PiecesFit DEF NewSegments
<1>4. ASSUME NEW r \in NewSegments
      PROVE  /\ r \in [window : Nat, at : Nat \ {0}, t0 : Int, t1 : Int]
             /\ r.window = seek /\ seek <= r.t1 /\ r.t1 <= seek + best.seek_delta
             /\ (params.no_timestamps /\ ~params.beam) \/ seek <= r.t0
  <2>1. PICK bc \in Pieces :
           /\ r.window = seek /\ r.at = bc[2]
           /\ r.t0 = TimeFrom(bc[1]) /\ r.t1 = TimeTo(bc[2])
           /\ PieceFits(bc[1], bc[2])
           /\ r = [window |-> seek, at |-> bc[2], t0 |-> TimeFrom(bc[1]), t1 |-> TimeTo(bc[2])]
    BY <1>3
  <2>2. /\ bc[2] \in Nat \ {0} /\ TimeFrom(bc[1]) \in Int /\ TimeTo(bc[2]) \in Int
        /\ seek < TimeTo(bc[2]) /\ TimeTo(bc[2]) <= seek + best.seek_delta
        /\ (params.no_timestamps /\ ~params.beam) \/ seek <= TimeFrom(bc[1])
    BY <2>1 DEF PieceFits
  <2>3. r \in [window : Nat, at : Nat \ {0}, t0 : Int, t1 : Int]
    BY <2>1, <2>2, <1>2
  <2>4. seek <= TimeTo(bc[2])
    BY <2>2, <1>2, SMT
  <2>. QED  BY <2>1, <2>2, <2>3, <2>4
<1>5. ASSUME NEW s \in result_all
      PROVE  /\ s \in [window : Nat, at : Nat \ {0}, t0 : Int, t1 : Int]
             /\ s.window \in Nat /\ s.t1 \in Int /\ s.window < seek /\ s.t1 <= seek
  <2>1. s \in [window : Nat, at : Nat \ {0}, t0 : Int, t1 : Int]
    BY DEF IInv, TypeOK
  <2>2. s.window < seek /\ (s.t1 <= seek \/ seek >= seek_end)
    BY DEF IInv, AudioInv
  <2>3. s.window \in Nat /\ s.t1 \in Int
    BY <2>1
  <2>. QED  BY <2>1, <2>2, <2>3, <1>2, SMT
<1>6. TypeOK'
  <2>1. prompt_past1' \in Nat
    <3>1. prompt.take0 \in Nat /\ prompt.take1 \in Nat /\ best.result_len \in Nat
      BY BestFacts DEF IInv, TypeOK
    <3>. QED  BY <3>1, SMT DEF Emit
  <2>2. result_all' \subseteq [window : Nat, at : Nat \ {0}, t0 : Int, t1 : Int]
    BY <1>1, <1>4, <1>5
  <2>. QED  BY <1>1, <1>2, <2>1, <2>2, NoWindowFacts DEF IInv, TypeOK
<1>7. DecoderInv'
  BY <1>1, <1>2, NoWindowFacts DEF DecoderInv
<1>8. ContextInv'
  BY <1>1 DEF IInv, ContextInv
<1>9. AudioInv'
  <2>1. ASSUME NEW s \in result_all'
        PROVE  s.window < seek' /\ (s.t1 <= seek' \/ seek' >= seek_end')
    <3>1. CASE s \in result_all
      BY <3>1, <1>2, <1>5, SMT
    <3>2. CASE s \in NewSegments
      <4>1. s.window = seek /\ s.t1 <= seek + best.seek_delta /\ s.t1 \in Int
        BY <3>2, <1>4
      <4>2. /\ best.seek_delta \in Int
            /\ best.seek_delta <= SeekDelta \/ seek + SeekDelta >= seek_end
        BY <1>1, WindowMoves, BestFacts, SizeFacts
      <4>. QED  BY <4>1, <4>2, <1>1, <1>2, SMT
    <3>. QED  BY <3>1, <3>2, <1>1
  <2>. QED  BY <2>1, <1>1 DEF AudioInv
<1>10. SegmentsInOrder'
  <2>1. SUFFICES ASSUME NEW s \in result_all', NEW r \in result_all',
                        s.window < r.window \/ (s.window = r.window /\ s.at < r.at)
                 PROVE  /\ s.t1 <= r.t1
                        /\ (params.no_timestamps /\ ~params.beam) \/ s.t1 <= r.t0
    BY <1>1 DEF SegmentsInOrder
  <2>2. CASE s \in result_all /\ r \in result_all
    BY <2>1, <2>2 DEF IInv, SegmentsInOrder
  <2>3. CASE s \in result_all /\ r \in NewSegments
    <3>1. s.t1 \in Int /\ s.t1 <= seek
      BY <2>3, <1>5
    <3>2. /\ r.t0 \in Int /\ r.t1 \in Int /\ seek <= r.t1
          /\ (params.no_timestamps /\ ~params.beam) \/ seek <= r.t0
      BY <2>3, <1>4
    <3>. QED  BY <3>1, <3>2, <1>2, SMT
  <2>4. CASE s \in NewSegments /\ r \in result_all
    <3>1. s.window = seek /\ r.window \in Nat /\ r.window < seek
      BY <2>4, <1>4, <1>5
    <3>. QED  BY <2>1, <3>1, <1>2, SMT
  <2>5. CASE s \in NewSegments /\ r \in NewSegments
    <3>1. PICK x \in Pieces : s.at = x[2] /\ s.t1 = TimeTo(x[2])
      BY <2>5, <1>3
    <3>2. PICK y \in Pieces : r.at = y[2] /\ r.t0 = TimeFrom(y[1]) /\ r.t1 = TimeTo(y[2])
      BY <2>5, <1>3
    <3>3. s.window = seek /\ r.window = seek
      BY <2>5, <1>4
    <3>4. x[2] < y[2]
      BY <2>1, <3>1, <3>2, <3>3, <1>2, SMT
    <3>. QED  BY <3>1, <3>2, <3>4, PiecesInOrder
  <2>. QED  BY <2>2, <2>3, <2>4, <2>5, <1>1
<1>. QED  BY <1>1, <1>6, <1>7, <1>8, <1>9, <1>10
          DEF IInv, ContextFits, FailureIsLastResort

-----------------------------------------------------------------------------
(* The theorems.                                                            *)

LEMMA NextHolds == IInv /\ [Next]_vars => IInv'
<1> SUFFICES ASSUME IInv, [Next]_vars PROVE IInv'
  OBVIOUS
<1>1. CASE \E p \in Params, start \in Starts, end \in Ends : Call(p, start, end)
  BY <1>1, CallHolds
<1>2. CASE LeaveLoop
  <2>1. kv_self_n_dec' \in Nat \ {0}
    BY <1>2 DEF LeaveLoop, IInv, TypeOK
  <2>. QED  BY <1>2, <2>1, LeavingHolds DEF LeaveLoop, Return
<1>3. CASE EnterWindow
  BY <1>3, EnterHolds
<1>4. CASE Prepare
  BY <1>4, PrepareHolds
<1>5. CASE LoseState
  <2>1. kv_self_n_dec' \in Nat \ {0}
    BY <1>5 DEF LoseState, IInv, TypeOK
  <2>. QED  BY <1>5, <2>1, LeavingHolds DEF LoseState
<1>6. CASE DecodeFails
  <2>1. kv_self_n_dec' \in Nat \ {0}
    BY <1>6, CurFacts DEF DecodeFails, IInv
  <2>. QED  BY <1>6, <2>1, LeavingHolds DEF DecodeFails, Return
<1>7. CASE Sample
  BY <1>7, SampleHolds
<1>8. CASE Rank
  BY <1>8, RankHolds
<1>9. CASE Emit
  BY <1>9, EmitHolds
<1>10. CASE UNCHANGED vars
  BY <1>10 DEF IInv, vars, past, range, window, TypeOK, DecoderInv, ContextInv, AudioInv,
               SegmentsInOrder, ContextFits, FailureIsLastResort, Live, Cur,
               n_decoders_cur, promptSize, best
<1>. QED  BY <1>1, <1>2, <1>3, <1>4, <1>5, <1>6, <1>7, <1>8, <1>9, <1>10
          DEF Next, Step, Done

LEMMA InvariantHolds == Spec => []IInv
BY InitHolds, NextHolds, PTL DEF Spec

\* The variables of whisper_full_with_state keep their types: among others,
\* a window always has a move of at least one frame and no more than a chunk.
THEOREM TranscribeTypeCorrect == Spec => []TypeOK
BY InvariantHolds, PTL DEF IInv

\* For every audio, model size and choice of the network, the segments that
\* whisper_full_with_state has found are in order: one ends before the next
\* begins, also across windows.
THEOREM CaptionsStayInOrder == Spec => []SegmentsInOrder
BY InvariantHolds, PTL DEF IInv

\* The prompt, however the contexts of earlier windows and calls came about,
\* and all tokens a decoder may add to it fit the text context.
THEOREM ContextAlwaysFits == Spec => []ContextFits
BY InvariantHolds, PTL DEF IInv

\* A decoding that failed gives segments only at the last temperature, when no
\* decoder did better.
THEOREM FailuresComeLast == Spec => []FailureIsLastResort
BY InvariantHolds, PTL DEF IInv

=============================================================================
