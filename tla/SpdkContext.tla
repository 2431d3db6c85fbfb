---------------------------- MODULE SpdkContext ----------------------------
(***************************************************************************)
(* The context of src/spdk_context.cpp: the steps of init(), which may end *)
(* at several of them, the controllers it attaches, one per address that   *)
(* answers, the thread library, which the program can do without, and      *)
(* cleanup().  The options come from module Configuration.                 *)
(***************************************************************************)
EXTENDS Configuration

CONSTANTS
  Inputs,     \* what the user may give: records with numbers for some options
  MaxCommands \* the values of maxcmd a controller may report

ASSUME SpdkContextAssumption ==
  /\ MaxCommands \subseteq Nat
  /\ \A g \in Inputs : \A f \in {"traddrs", "runtime_sec", "iodepth"} : Parsed(g)[f] \in Nat

VARIABLES
  config,
  stage,        \* how far init() is
  address,      \* the addresses probed
  ctrlrs,       \* the number of controllers in ctrlrs_
  spdk_threads, \* g_use_spdk_threads
  lib,          \* SPDK: the thread library is initialised
  maxcmd        \* what the first controller reports

contextVars == <<config, stage, address, ctrlrs, spdk_threads, lib, maxcmd>>

ContextTypeOK ==
  /\ config \in {Defaults} \cup {Parsed(g) : g \in Inputs}
  /\ stage \in {"new", "env", "library", "probe", "ready", "failed"}
  /\ address \in Nat /\ ctrlrs \in Nat
  /\ spdk_threads \in BOOLEAN /\ lib \in BOOLEAN
  /\ maxcmd \in MaxCommands \cup {0}

ContextInit ==
  /\ config = Defaults
  /\ stage = "new" /\ address = 0 /\ ctrlrs = 0
  /\ spdk_threads = TRUE /\ lib = FALSE
  /\ maxcmd = 0

InitEnv ==
  /\ stage = "new"
  /\ stage' \in {"env", "failed"}
  /\ UNCHANGED <<config, address, ctrlrs, spdk_threads, lib, maxcmd>>

\* Without memory pools or without the library the workers are plain threads.
InitLibrary ==
  /\ stage = "env"
  /\ lib' \in BOOLEAN /\ spdk_threads' = lib'
  /\ stage' = "library"
  /\ UNCHANGED <<config, address, ctrlrs, maxcmd>>

CheckTransport ==
  /\ stage = "library"
  /\ stage' \in {"probe", "failed"}
  /\ UNCHANGED <<config, address, ctrlrs, spdk_threads, lib, maxcmd>>

\* An address answers, or is skipped.
Probe ==
  /\ stage = "probe" /\ address < config.traddrs
  /\ address' = address + 1
  /\ ctrlrs' \in {ctrlrs, ctrlrs + 1}
  /\ UNCHANGED <<config, stage, spdk_threads, lib, maxcmd>>

EndProbe ==
  /\ stage = "probe" /\ address = config.traddrs
  /\ IF ctrlrs = 0 THEN stage' = "failed" /\ UNCHANGED maxcmd
                   ELSE stage' = "ready" /\ maxcmd' \in MaxCommands
  /\ UNCHANGED <<config, address, ctrlrs, spdk_threads, lib>>

InitStep == InitEnv \/ InitLibrary \/ CheckTransport \/ Probe \/ EndProbe

\* cleanup() detaches every controller and finishes the thread library.
Cleanup ==
  /\ ctrlrs' = 0
  /\ lib' = (lib /\ ~spdk_threads)
  /\ UNCHANGED <<config, stage, address, spdk_threads, maxcmd>>
=============================================================================
