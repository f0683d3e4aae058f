SPECIFICATION Spec
CONSTANTS
    c1 = c1  c2 = c2  s1 = s1  r1 = r1  h1 = h1
    app = app  cron = cron  d1 = d1
    Consumers = {c1, c2}
    Schedulers = {s1}
    Runtimes = {r1}
    Hooks = {h1}
    Closeable = {c1, c2, r1, h1}
    Slots = {app, cron}
    NowSlot = app
    Shutdowns = {d1}
INVARIANTS
    PermitAccounted JobNeverOverlaps ReverseOrder ShutdownClosesAll TimersListed
