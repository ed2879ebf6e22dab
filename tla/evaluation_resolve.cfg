SPECIFICATION AloneSpec
CONSTANTS
    Results = {r1, r2}
    Incidents = {i1, i2, i3}
    offline = offline
    slow = slow
    offlineIncident = offlineIncident
    offlineNote = offlineNote
    slowIncident = slowIncident
    Criteria = {offline, slow}
    Templates = {offlineIncident, offlineNote, slowIncident}
    TemplatesOf <- MCTemplatesOf
    StatusOf <- MCStatusOf
    AutoResolve = {offlineIncident, slowIncident}
    Statuses = {"operational", "degraded", "down"}
    Operational = "operational"
    Default = "operational"
    Unset = unset
INVARIANTS AutoResolved
SYMMETRY Symmetry
