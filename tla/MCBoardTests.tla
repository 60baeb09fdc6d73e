---------------------------- MODULE MCBoardTests ----------------------------
(***************************************************************************)
(* Plans in which the tests run alone, meet each other and are stopped;    *)
(* and what the microphone test computes, which has no state, on short     *)
(* recordings and coarse spectra.                                          *)
(***************************************************************************)
EXTENDS BoardTests

T(test, items) == [test |-> test, items |-> items, enabled |-> TRUE]
Off(test, items) == [T(test, items) EXCEPT !.enabled = FALSE]
Halt == T("stop", <<>>)

\* Serial ports: one kind after the other, lines, two tests at a time.
SerialPlans == {
  <<T("serial", <<"232", "485", "can", "off">>)>>,
  <<T("serial", <<"bus485", "bus485">>)>>,
  <<T("serial", <<"bus485", "bus485", "bus485">>)>>,
  <<T("serial", <<"busCan", "busCan", "other">>)>>,
  <<T("serial", <<"busCan">>)>>,
  <<T("serial", <<"232">>), T("serial", <<"485">>)>>,
  <<T("serial", <<"485">>), T("rtc", <<"rtc">>)>>}
\* Keys: with one that the board does not know; stopped and tested again.
KeyPlans == {
  <<T("key", <<"key", "key", "off">>)>>,
  <<T("key", <<"key", "other">>), Halt, T("common", <<"adc">>)>>,
    <<T("key", <<"off">>)>>}
DevicePlans == {
  <<T("rtc", <<"rtc">>), T("rtc", <<"rtc">>)>>,
  <<T("rtc", <<"rtc">>), T("ln", <<"mac", "ln">>)>>,
  <<T("camera", <<>>), T("camera", <<"unknown">>), T("camera", <<"cam">>)>>,
  <<T("common", <<"adc", "unknown", "off">>), Halt, T("gpio", <<"off">>)>>,
  <<T("gpio", <<"pin", "pin">>)>>,
  <<T("net", <<"nic", "nic3">>), T("manual", <<"fan">>)>>,
  <<Off("common", <<"adc">>), T("baseinfo", <<"info">>), T("manual", <<"other">>)>>}
RadioPlans == {
  <<T("wifi", <<"ssid">>), T("wifi", <<"ssid">>), T("manual", <<"lamp">>)>>,
  <<T("bluetooth", <<"scan">>), T("bluetooth", <<"scan">>)>>,
  <<Off("bluetooth", <<"scan">>), T("bluetooth", <<"scan">>), T("camera", <<"cam">>)>>}

AllPlans == SerialPlans \cup KeyPlans \cup DevicePlans \cup RadioPlans
Nodes == <<"adc-keys", None, "febd0030.pwm">>
-----------------------------------------------------------------------------
\* At 12.5 Hz a bin, three bins lie in the band of each tone.
Tones == INSTANCE ToneAnalysis WITH SAMPLE_RATE <- 1200, top_k <- 2
Signals(n) == [1 .. n -> {-32768, -300, 0, 7, 20000}]

\* What is read back are the frames that were saved, both channels mixed, with
\* or without other chunks around them; of a file that could not be written the
\* analysis sees what an earlier test left.
ASSUME WavKeepsFrames ==
  \A left, right \in Signals(2) :
    LET saved == Tones!save_buffer_to_wav(<<>>, TRUE, Tones!generate_dual_tone(left, right))
        list == <<[id |-> "LIST"]>>
        read == Tones!read_wav_simple(saved)
    IN  /\ read.ok /\ read.rate = 1200
        /\ read.samples = [i \in 1 .. 2 |-> left[i] + right[i]]
        /\ Tones!read_wav_simple(list \o saved \o list) = read
        /\ Tones!save_buffer_to_wav(saved, FALSE, left) = saved
        /\ ~ Tones!read_wav_simple(Tones!save_buffer_to_wav(saved, TRUE, <<>>)).ok

\* The gain makes no sample smaller, turns none over and changes no order, for
\* anything played and recorded, silence included; none leaves the range.
ASSUME GainKeepsShape ==
  \A played, recorded \in Signals(1) \cup (Signals(2) \ [1 .. 2 -> {-32768}]) :
    LET adjusted == Tones!Adjusted(played, recorded)
    IN  \A i \in DOMAIN recorded :
          /\ adjusted[i] \in Tones!Short
          /\ recorded[i] < 0 => adjusted[i] <= recorded[i]
          /\ recorded[i] >= 0 => adjusted[i] >= recorded[i]
          /\ \A j \in DOMAIN recorded :
               recorded[i] <= recorded[j] => adjusted[i] <= adjusted[j]

\* A microphone passes for sure when a peak of either band is higher than all
\* other peaks; a tone can be found just when fewer than two peaks are higher
\* than one in its band.  So two peaks in one band, or noise, can hide a tone
\* that is there, and a tone that is no peak is never found.
Spectra == {[i \in 0 .. 48 |-> IF i \in DOMAIN s THEN s[i] ELSE 0] :
              s \in [{19, 20, 21, 31, 32, 33, 40} -> 0 .. 2]}
ASSUME LoudestPeaksDecide ==
  \A mag \in Spectra :
    LET found == Tones!detect_main_frequencies(mag, 1200)
        Band == [left |-> {19, 20, 21}, right |-> {31, 32, 33}]
        peaks == Tones!Peaks(mag)
        Higher(i) == {j \in peaks : mag[j] > mag[i]}
    IN  /\ \A l \in Band.left \cap peaks, r \in Band.right \cap peaks :
             (\A j \in peaks \ {l, r} : mag[j] < mag[l] /\ mag[j] < mag[r])
               => found = {{"left", "right"}}
        /\ \A c \in {"left", "right"} :
             c \in UNION found <=>
               \E i \in Band[c] \cap peaks : Cardinality(Higher(i)) < 2

\* The three seconds of a test fit into the transform, which is less than twice
\* as long as what it is given; of a longer recording 2^18 samples are left.
ASSUME TransformFits ==
  /\ Tones!Nfft(3 * 44100) = 262144 /\ Tones!Nfft(7 * 44100) = 262144
  /\ \A n \in 1 .. 300 : Tones!Nfft(n) \in n .. 2 * n - 1
=============================================================================
