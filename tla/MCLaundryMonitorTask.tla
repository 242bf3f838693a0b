------------------------ MODULE MCLaundryMonitorTask ------------------------
(***************************************************************************)
(* LaundryMonitorTask with a window of five slots, two turns of the loop   *)
(* per second and a quiet timeout equal to the window, as the fallbacks in *)
(* main.cpp have it (120 slots, 120 s).                                    *)
(***************************************************************************)
EXTENDS LaundryMonitorTask

(* A word of the LIS3DH for so many mg, with noise in the unused bits *)
Raw(mg, noise) == (65536 + 16 * mg + noise) % 65536

(* Less than 1 g, 1 g upside down, and 1 mg below the threshold of 90 mg *)
MCStill == {<<0, 0, Raw(950, 0)>>, <<0, Raw(-1, 3), Raw(-1000, 9)>>,
            <<Raw(-1, 15), 0, Raw(1089, 15)>>}

(* At the threshold, lying on an edge and upside down, and above it *)
MCShaking == {<<Raw(654, 0), Raw(-872, 8), 0>>, <<0, 0, Raw(-1090, 0)>>,
              <<0, 0, Raw(1091, 1)>>}

=============================================================================
