-------------------------- MODULE AppRolloutProps --------------------------
EXTENDS AppRollout

Complete == [content |-> "committed", pinned |-> TRUE]

\* app-provider.ts:392 publishWin32App: the row says published and a job says success only for an
\* app whose content Intune has taken and pinned, whatever overlapping rollouts and repeated runs write.
PublishedIsComplete ==
    /\ row.status = "published" => row.app = Complete
    /\ \A j \in Jobs : runs[j].result = "succeeded" => runs[j].app = Complete

\* app-publish-job-handlers.ts:77: a job that is repeated after its app was recorded, because it
\* crashed or its result could not be stored, does not start over to make a second one; only
\* another rollout, or the late first write of its own, opens the row again.
RecordedAppStays ==
    [][\A j \in Jobs : row.status = "published" /\ row.by = j /\ runs'[j] # runs[j]
          => row'.status \in {"published", "absent"}]_vars

\* app-publish-job-handlers.ts:97: no row is left at publishing, though uploads fail, Intune
\* refuses content or falls silent, the database fails or the worker crashes once.
RowSettles == row.status = "publishing" ~> row.status # "publishing"
=============================================================================
