------------------------------ MODULE ClientMC ------------------------------
(***************************************************************************)
(* A directory of four relays with one hidden service, written in capitals,*)
(* at the second, and another at a relay that is not listed.               *)
(***************************************************************************)
EXTENDS Client

Host(name, upper, ptor) == [name |-> name, upper |-> upper, ptor |-> ptor]

DirectoryMC == <<"relay1", "relay2", "relay3", "relay4">>
ServicesMC  == << [address |-> Host("service", TRUE, TRUE), relay |-> "relay2"],
                  [address |-> Host("stray", FALSE, TRUE), relay |-> "relay9"] >>
HostsMC     == { Host("web", FALSE, FALSE), Host("service", FALSE, TRUE),
                 Host("stray", FALSE, TRUE), Host("unknown", FALSE, TRUE) }
=============================================================================
