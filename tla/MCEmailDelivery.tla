------------------------- MODULE MCEmailDelivery -------------------------
EXTENDS EmailDelivery

\* The CHECK constraints of db/migrations/007_email_logs.sql, and constraints
\* that would take everything the code writes.
ShippedStatuses == {"sent", "failed", "queued"}
ShippedTypes == {"otp", "magic"}
AllStatuses == ShippedStatuses \union {"delivered"}
AllTypes == ShippedTypes \union {"magic_link"}
=============================================================================
