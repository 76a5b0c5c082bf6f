---------------------------- MODULE MCTranscribe ----------------------------
(* Transcribe for TLC: windows of 6 frames and calls of several kinds.      *)
EXTENDS Transcribe

\* One decoder at one temperature.
Long ==
    [beam |-> FALSE, decoders |-> <<1>>, cold |-> 1, no_context |-> TRUE,
     no_timestamps |-> FALSE, single_segment |-> FALSE,
     carry_initial_prompt |-> FALSE, n_max_text_ctx |-> 4,
     prompt_n_tokens |-> 2, max_tokens |-> 0]

\* Two decoders and then one: what the second left may be shown in the end.
Fallback ==
    [Long EXCEPT !.decoders = <<2, 1>>, !.max_tokens = 1]

\* A beam of two; contexts are kept, the initial prompt is carried along.
Carried ==
    [Long EXCEPT !.beam = TRUE, !.decoders = <<2>>, !.prompt_n_tokens = 9,
                 !.no_context = FALSE, !.carry_initial_prompt = TRUE,
                 !.max_tokens = 1]

\* One segment for each window, the rolling context kept from call to call.
Streamed ==
    [Long EXCEPT !.no_context = FALSE, !.single_segment = TRUE]

\* Without timestamps.
Plain == [Long EXCEPT !.no_timestamps = TRUE, !.max_tokens = 2]
PlainBeam == [Plain EXCEPT !.beam = TRUE]

MCParams == {Long, Fallback, Carried, Streamed, Plain, PlainBeam}

=============================================================================
