---------------------------- MODULE MCQueueWorker ---------------------------
(* Worker processes on a small queue for TLC, see README.md. *)
EXTENDS QueueWorker

CONSTANTS w1, w2, k1, c1

MCSync == [jobType |-> "SYNC_CONNECTION", dedupeKey |-> k1, conn |-> c1,
           priority |-> 100, maxAttempts |-> 2]
MCWebhook == [jobType |-> "PROCESS_WEBHOOK", dedupeKey |-> None, conn |-> None,
              priority |-> 0, maxAttempts |-> 2]

MCOneRequest == {MCSync}
MCWebhookOnly == {MCWebhook}
=============================================================================
