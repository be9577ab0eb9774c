----------------------------- MODULE Publisher -----------------------------
(***************************************************************************)
(* core/discov/publisher.go: a pair is put in etcd under a lease that a    *)
(* goroutine keeps alive; Pause, Resume and Stop.  etcd is external: a     *)
(* call of it may fail, it may close the channel of a lease that is kept   *)
(* alive, and a lease that is not kept alive ends.                         *)
(***************************************************************************)
EXTENDS Naturals, FiniteSets

CONSTANTS
    MaxLeases,      \* bound on the leases granted
    MaxPauses,      \* bound on the calls of Pause, and on those of Resume
    MaxErrors       \* bound on the calls of etcd that fail

VARIABLE pb

Leases == 1..MaxLeases

\* pc is the goroutine, or KeepAlive running in the caller or in it; pauses and resumes are calls
\* that have been made and are blocked in their sends.  put are the leases with the pair, kept those
\* that etcd keeps alive for us; an error of a call is in failed, one of revoke in unrevoked.
Init ==
    pb = [pc |-> "new", lease |-> 0, next |-> 1, put |-> {}, granted |-> {}, kept |-> {},
          quit |-> FALSE, pauses |-> 0, resumes |-> 0, pausesMade |-> 0, resumesMade |-> 0,
          errors |-> 0, failed |-> FALSE, unrevoked |-> FALSE]

May == pb.errors < MaxErrors

\* register: Grant,
Grant ==
    /\ pb.pc \in {"new", "register"} /\ pb.next <= MaxLeases
    /\ pb' = [pb EXCEPT !.granted = @ \cup {pb.next}, !.next = @ + 1, !.pc = "put"]

\* and Put with the lease, which is assigned to p.lease.
Put ==
    /\ pb.pc = "put"
    /\ pb' = [pb EXCEPT !.put = @ \cup ({pb.next - 1} \cap pb.granted), !.lease = pb.next - 1,
                        !.pc = "keep"]

\* keepAliveAsync starts the goroutine.
KeepAliveAsync ==
    /\ pb.pc = "keep"
    /\ pb' = [pb EXCEPT !.kept = {pb.lease} \cap pb.granted, !.pc = "select"]

\* GetConn, Grant, Put or KeepAlive fails: KeepAlive returns, and so does the goroutine it ran in.
KeepAliveFails ==
    /\ pb.pc \in {"new", "register", "put", "keep"} /\ May
    /\ pb' = [pb EXCEPT !.errors = @ + 1, !.failed = TRUE, !.pc = "over"]

\* The goroutine: etcd has closed the channel,
ChannelCloses ==
    /\ pb.pc = "select" /\ pb.next <= MaxLeases
    /\ pb' = [pb EXCEPT !.kept = {}, !.pc = "lost"]

\* a Pause comes through,
TakePause ==
    /\ pb.pc = "select" /\ pb.pauses > 0
    /\ pb' = [pb EXCEPT !.pauses = @ - 1, !.pc = "pause"]

\* or quit is closed.
TakeQuit ==
    /\ pb.pc = "select" /\ pb.quit
    /\ pb' = [pb EXCEPT !.pc = "quit"]

After == [lost |-> "register", pause |-> "paused", quit |-> "over"]

\* Revoked: the lease of p.lease is revoked.
Revoked ==
    [pb EXCEPT !.put = @ \ {pb.lease}, !.granted = @ \ {pb.lease}, !.kept = @ \ {pb.lease},
               !.pc = After[@]]

\* revoke: an error is logged only.
Revoke ==
    /\ pb.pc \in {"lost", "pause", "quit"}
    /\ \/ pb' = Revoked
       \/ May /\ pb' = [pb EXCEPT !.errors = @ + 1, !.unrevoked = TRUE, !.pc = After[@]]

\* Paused: a Resume registers again, a Stop ends the goroutine.
TakeResume ==
    /\ pb.pc = "paused" /\ pb.resumes > 0 /\ pb.next <= MaxLeases
    /\ pb' = [pb EXCEPT !.resumes = @ - 1, !.pc = "register"]

QuitPaused ==
    /\ pb.pc = "paused" /\ pb.quit
    /\ pb' = [pb EXCEPT !.pc = "over"]

Pause ==
    /\ pb.pausesMade < MaxPauses
    /\ pb' = [pb EXCEPT !.pauses = @ + 1, !.pausesMade = @ + 1]

Resume ==
    /\ pb.resumesMade < MaxPauses
    /\ pb' = [pb EXCEPT !.resumes = @ + 1, !.resumesMade = @ + 1]

Stop ==
    /\ pb.pc # "new"
    /\ pb' = [pb EXCEPT !.quit = TRUE]

\* etcd: a lease that nobody keeps alive ends, and with it the pair.  The client keeps a lease
\* alive until its context ends, whether the goroutine reads the channel or not.
LeaseEnds(l) ==
    /\ l \in pb.granted \ pb.kept /\ ~(pb.pc \in {"put", "keep"} /\ l = pb.next - 1)
    /\ pb' = [pb EXCEPT !.granted = @ \ {l}, !.put = @ \ {l}]

Goroutine ==
    \/ Grant \/ Put \/ KeepAliveAsync \/ TakePause \/ TakeQuit \/ Revoke \/ TakeResume
    \/ QuitPaused

Next ==
    \/ Goroutine \/ KeepAliveFails \/ ChannelCloses \/ Pause \/ Resume \/ Stop
    \/ \E l \in Leases : LeaseEnds(l)

Spec == Init /\ [][Next]_pb

\* The goroutine goes on, and a lease that nobody keeps alive ends.
FairSpec ==
    /\ Spec /\ WF_pb(Goroutine)
    /\ \A l \in Leases : WF_pb(LeaseEnds(l))

TypeOK ==
    /\ pb.put \subseteq pb.granted /\ pb.granted \subseteq 1..(pb.next - 1)
    /\ pb.kept \subseteq pb.granted /\ Cardinality(pb.kept) <= 1 /\ pb.lease < pb.next
-----------------------------------------------------------------------------
\* While paused, the pair is not in etcd, unless a revoke failed.
PausedIsWithdrawn ==
    pb.pc = "paused" /\ ~pb.unrevoked => pb.put = {}

\* Two leases have the pair only after a revoke failed.
OnlyErrorPublishesTwice == ~pb.unrevoked => Cardinality(pb.put) <= 1

\* After Stop the goroutine ends and the pair is withdrawn for good, unless a revoke failed: the
\* lease of a failed revoke is kept alive by the client for as long as the process lives.
StopWithdraws == pb.quit ~> pb.unrevoked \/ (pb.pc = "over" /\ pb.put = {})

\* A Pause comes through, unless KeepAlive failed, the publisher has stopped, or it is paused.
PauseComesThrough ==
    pb.pauses > 0 /\ pb.pc # "new"
        ~> pb.pauses = 0 \/ pb.failed \/ pb.quit \/ pb.pc = "paused"
=============================================================================
