---------------------------- MODULE ToneAnalysis ----------------------------
(***************************************************************************)
(* What a microphone test computes between the recording and its verdict   *)
(* (Audio.cpp): the two tones in one stereo buffer, the gain, the file the *)
(* adjusted recording is written to and read back from, and the search for *)
(* the tones in its spectrum.  A sample is a short; the transform itself,  *)
(* the window and the sines are fftw's and libm's.                         *)
(***************************************************************************)
EXTENDS Integers, Sequences, FiniteSets

CONSTANTS SAMPLE_RATE, \* of the file, in Hz
          top_k        \* how many peaks are looked at

CHANNELS == 2
Short == -32768 .. 32767
Clip(x) == IF x > 32767 THEN 32767 ELSE IF x < -32768 THEN -32768 ELSE x
Abs(x) == IF x < 0 THEN -x ELSE x

generate_dual_tone(left, right) ==
  [k \in 1 .. CHANNELS * Len(left) |->
     IF k % 2 = 1 THEN left[(k + 1) \div 2] ELSE right[k \div 2]]
-----------------------------------------------------------------------------
\* The root mean square and the peak, in steps of a sample.
RECURSIVE SumSquares(_)
SumSquares(signal) ==
  IF signal = <<>> THEN 0 ELSE Head(signal) * Head(signal) + SumSquares(Tail(signal))
calculate_signal_rms(signal) ==
  IF signal = <<>> THEN 0
  ELSE LET mean == SumSquares(signal) \div Len(signal)
       IN  CHOOSE r \in 0 .. 32768 : r * r <= mean /\ mean < (r + 1) * (r + 1)
calculate_signal_peak(signal) ==
  CHOOSE p \in {0} \cup {Abs(signal[i]) : i \in DOMAIN signal} :
    \A i \in DOMAIN signal : Abs(signal[i]) <= p

\* In hundredths.  328 steps are a hundredth of the range; a record_rms of
\* zero stands for less than a millionth of it.
calculate_auto_gain(play_rms, record_rms, play_peak, record_peak) ==
  LET limited(g) == IF g < 100 THEN 100 ELSE IF g > 5000 THEN 5000 ELSE g
      rms_gain == (100 * play_rms) \div record_rms
      peak_gain == IF record_peak > 0 THEN (100 * play_peak) \div record_peak
                   ELSE rms_gain
      target_gain == (rms_gain + peak_gain) \div 2
  IN  IF record_rms = 0 THEN 800
      ELSE limited(IF record_rms < 328 THEN 2 * target_gain ELSE target_gain)

\* The conversion to short drops what is behind the point.
apply_gain_for_buffer(buffer, gain) ==
  [i \in DOMAIN buffer |->
     Clip((IF buffer[i] < 0 THEN -1 ELSE 1) * ((Abs(buffer[i]) * gain) \div 100))]

\* The steps of record_and_compare_audio_v2() before the file.
Adjusted(played, recorded) ==
  apply_gain_for_buffer(recorded,
    calculate_auto_gain(calculate_signal_rms(played), calculate_signal_rms(recorded),
                        calculate_signal_peak(played), calculate_signal_peak(recorded)))
-----------------------------------------------------------------------------
(***************************************************************************)
(* A file is a sequence of chunks; one that is not there, or is no RIFF    *)
(* file, has none.                                                         *)
(***************************************************************************)
Format == [id |-> "fmt", channels |-> CHANNELS, rate |-> SAMPLE_RATE, bits |-> 16]

\* When the file cannot be written, what was there remains.
save_buffer_to_wav(old, opens, buffer) ==
  IF opens THEN <<Format, [id |-> "data", samples |-> buffer]>> ELSE old

RECURSIVE Mix(_, _, _)
Mix(samples, first, channels) ==
  IF channels = 0 THEN 0
  ELSE samples[first] + Mix(samples, first + 1, channels - 1)

\* The last chunk of a kind counts, wherever it is.  A frame is the sum of its
\* channels, which the code divides by their number.
read_wav_simple(file) ==
  LET places(id) == {n \in DOMAIN file : file[n].id = id}
      chunk(id) == file[CHOOSE n \in places(id) : \A m \in places(id) : m <= n]
      format == IF places("fmt") = {}
                THEN [channels |-> 1, rate |-> 0, bits |-> 16] ELSE chunk("fmt")
      data == chunk("data").samples
      wrong == [ok |-> FALSE, rate |-> 0, samples |-> <<>>]
  IN  IF places("data") = {} \/ format.bits \notin {16, 24, 32} THEN wrong
      ELSE IF data = <<>> THEN wrong
      ELSE [ok |-> TRUE, rate |-> format.rate,
            samples |-> [i \in 1 .. (Len(data) \div format.channels) |->
                           Mix(data, format.channels * (i - 1) + 1, format.channels)]]
-----------------------------------------------------------------------------
\* The length of the transform; what does not fit is cut off.
Nfft(n) ==
  CHOOSE l \in {2 ^ k : k \in 0 .. 18} :
    /\ n <= l \/ l = 262144
    /\ \A k \in 0 .. 18 : 2 ^ k < l => 2 ^ k < n

\* A spectrum has a magnitude for every bin from 0 to half the length; nothing
\* is a peak of a silent one.
Half(mag) == Cardinality(DOMAIN mag) - 1
Peaks(mag) == {i \in 1 .. Half(mag) - 1 : mag[i] > mag[i - 1] /\ mag[i] > mag[i + 1]}

\* std::sort leaves the order of equal peaks open.
TopPeaks(mag) ==
  {top \in SUBSET Peaks(mag) :
     /\ Cardinality(top) = IF Cardinality(Peaks(mag)) < top_k
                           THEN Cardinality(Peaks(mag)) ELSE top_k
     /\ \A i \in top : \A j \in Peaks(mag) \ top : mag[i] >= mag[j]}

Tone == [left |-> 250, right |-> 400]
\* Bin i lies at i * rate / (2 * half) Hz.
InBand(i, half, rate, channel) ==
  /\ (Tone[channel] - 20) * 2 * half <= i * rate
  /\ i * rate <= (Tone[channel] + 20) * 2 * half

\* The sets of channels that may be found.
detect_main_frequencies(mag, rate) ==
  {{c \in {"left", "right"} : \E i \in top : InBand(i, Half(mag), rate, c)} :
     top \in TopPeaks(mag)}
=============================================================================
