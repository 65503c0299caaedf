------------------------------ MODULE MCCdrom ------------------------------
(* Instances of Cdrom for TLC: the disc and the commands the guest issues. *)
EXTENDS Cdrom

(* A data track of two sectors, an audio track, and the lead-out.          *)
LeadOut == 170
DiscTracks == [l \in Lba |-> IF l >= Total THEN LeadOut ELSE IF l < 2 THEN 1 ELSE 2]

Ops(os) == {[op |-> o] : o \in os}
Setlocs(ls) == {[op |-> "SETLOC", lba |-> l] : l \in ls}

Modes(ms) == {[op |-> "SETMODE", mode |-> m] : m \in ms}

(* Four guests: one reads a stream with its filter on, one seeks and asks  *)
(* for more than one second response, one plays audio, and one stops and   *)
(* resets the drive.                                                       *)
Reader  == Setlocs({0}) \cup Modes({{"ADPCM", "FILTER"}}) \cup Ops({"READN", "PAUSE", "GETSTAT"})
Seeker  == Setlocs({2}) \cup Ops({"SEEKL", "READN", "PAUSE", "INIT", "GETID"})
Player  == Modes({{"REPORT", "AUTOPAUSE"}}) \cup {[op |-> "PLAY", lba |-> 2]}
           \cup Ops({"PLAY", "FORWARD", "BACKWARD", "PAUSE"})
Starter == Ops({"STOP", "RESET", "MOTORON", "TEST04", "READN", "GETLOCL", "SYNC", "SETLOC"})

AllGuests == {Reader, Seeker, Player, Starter}
=============================================================================
