------------------------------ MODULE MCServer ------------------------------
(* Server with its configurations enumerated for TLC. *)
EXTENDS Server

CONSTANTS PidFiles, Consoles, Freezes, OutUBuffs, ThreadCounts, BindIps

MCSettings ==
  [pidFile : PidFiles, console : Consoles, freeze : Freezes,
   outUBuff : OutUBuffs, threads : ThreadCounts, bindIp : BindIps]
=============================================================================
