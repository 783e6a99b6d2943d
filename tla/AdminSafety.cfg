\* Three accounts that can become administrators, a banned one, and two concurrent
\* requests: two administrators take each other away while a third comes or goes.
CONSTANTS
    alice = alice
    bob = bob
    carol = carol
    mallory = mallory
    q1 = q1
    q2 = q2
    Users = {alice, bob, carol, mallory}
    Banned = {mallory}
    Requests = {q1, q2}
SYMMETRY Symmetry
SPECIFICATION Spec
INVARIANTS ActiveAdminExists
PROPERTIES NoSelfLockout ActsAtOnce
