-------------------------------- MODULE MCFetch -------------------------------
(* Fetch with a status of each class and headers on both sides of their limits. *)
EXTENDS Fetch

MCStatuses == {200, 301, 404, 429, 500}

MCRetryAfters == {NoHeader, -5, 0, 9, 600}

MCLengths == {NoHeader} \cup 0..(MaxBytes + 1)
=============================================================================
