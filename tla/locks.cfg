SPECIFICATION LkSpec
CONSTANT Threads = {"main", "worker", "producer", "consumer"}
INVARIANT NoDeadlock
