------------------------------- MODULE MCJobs -------------------------------
(* Small instances of Jobs.                                                *)
EXTENDS Jobs, TLC

CONSTANTS open, restore, download, coordinate, heavy, w1, w2

MCLaneOf == [r \in Requests |-> IF r = download THEN heavy ELSE coordinate]
MCWorkerLane == [w \in Workers |-> IF w = w1 THEN coordinate ELSE heavy]
=============================================================================
