\* Two sites, archives at three different seconds, failures and kills anywhere.
CONSTANTS
    Names = {1, 2}
    Extends <- Apart
    Retains = {1, 2}
    MaxTime = 3
    NoSite = NoSite
SPECIFICATION Spec
INVARIANTS TypeOK CronCoversAll ScheduledIsRun
PROPERTIES RetentionKept WholeCopyKept
