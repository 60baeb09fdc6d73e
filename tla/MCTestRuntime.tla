---------------------------- MODULE MCTestRuntime ----------------------------
(***************************************************************************)
(* Small instances of TestRuntime: two workers, scripts of up to four      *)
(* commands that bring together the kinds of tests that meet on the pool.  *)
(***************************************************************************)
EXTENDS TestRuntime

MCScript == {
  <<"switchs", "switchs", "timed", "stop">>,  \* the pool is full, then stopped
  <<"switchs", "timed", "stop">>,
  <<"switchs", "stop", "timed">>,
  <<"detached", "unknown", "inline", "disabled">>,
  <<"microphone", "timed", "plain">> }
MCCtrlC == {
  <<"detached", "inline", "disabled">>,
  <<"microphone", "timed", "plain">>,
  <<"switchs", "stop">>,
  <<"switchs">> }   \* only SIGINT ends the test
AllScript == MCScript \cup MCCtrlC

\* For the shutdown: one test that only a stop ends.
KeyScript == { <<"switchs">> }
=============================================================================
