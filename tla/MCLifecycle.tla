---------------------------- MODULE MCLifecycle ----------------------------
(* Options for model checking Lifecycle.                                   *)
EXTENDS Lifecycle

\* One to three workers on up to two controllers; a depth below the minimum per
\* worker, ordinary ones and one above 1024 per worker; no limit on the time;
\* and numbers that are refused as they are, or once they have been narrowed.
MCInputs == {
  [traddrs |-> 1],
  [traddrs |-> 2, num_cores |-> 3, iodepth |-> 17, runtime_sec |-> 0],
  [traddrs |-> 2, num_cores |-> Wrap32 + 2, iodepth |-> 7],
  [traddrs |-> 1, num_cores |-> 2, iodepth |-> 3000],
  [traddrs |-> 1, num_cores |-> Wrap32],
  [traddrs |-> 1, iodepth |-> 0],
  [num_cores |-> 2]}

\* One run of two workers on one controller.
MCTwoWorkers == {[traddrs |-> 1, num_cores |-> 2]}

\* A controller without a limit worth the name, with a low and a high one.
MCMaxCommands == {0, 2, 1200}
=============================================================================
