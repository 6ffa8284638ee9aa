\* A canceller, a deadline, the channel's events and two DATA callbacks: a
\* split message, a second message, bytes after the message and an
\* end-of-stream chunk before or after the trailers.  A behaviour may have
\* no deadline and the peer may stay silent, so that nothing but the event
\* EndResolves names resolves the call.
CONSTANTS
    Cancellers = {ctx}
    MaxData = 2
SPECIFICATION Spec
INVARIANTS TypeOK ExactlyOnce NeverOrphaned HonestResult
PROPERTIES EndResolves NoStreamAfterCancel ImplementsOneShot
CHECK_DEADLOCK FALSE
