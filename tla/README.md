# Verification of django-project-base

TLA+ models of the parts of `django_project_base` in which processes, requests,
providers and failures interleave, the TLC runs that check them on small instances,
and proofs, checked by TLAPS, that the main safety properties hold for every value of
the constants. Paths below are relative to `src/django_project_base/` unless they
start with `tests/` or `docs/`. `PROJECT.json` names, for every definition, the lines
it models.

## 1. The system

`django_project_base` is a Django application: accounts, projects with settings,
notifications, tags, permissions, a profiler and a Vue front end. It runs as several
web processes with threads and as Celery workers. They share the database, the Django
cache (Redis, or one without list commands) and the services they call: AWS SES and
SNS, T2 and Nexmo.

| Component | State it keeps | Operations | Interacts with | What is hard |
|---|---|---|---|---|
| **CacheLock** `serialization.py`, `caching/__init__.py` | a counter in the cache per name; a statistics counter of waiters; per object: timeout, checked, raised, waiting | `__init__`, `__enter__`, `__call__`, `__exit__` | every user of the cache | three cache calls per attempt interleave with those of others and with the delete of the owner; timeouts; failures; processes that die |
| **Registration of lock names** `serialization.py:55-71` | flags `Inserted.*`, counters `Waiting.*`, the queue `CacheLockKeys` | `set_waiting`, `append_waiting_key` | CacheQueue, which is itself guarded by a CacheLock | a waiting thread takes a second lock and may register that one as well |
| **CacheQueue**, **CacheQueueRedis** `caching/cache_queue/` | a list in the cache | `rpush lpush lpop rpop ltrim lrange` | CacheLock, or the list commands of Redis | read, change, write back; expiry; a second command for the timeout |
| **Sending** `notifications/base/send_notification_service.py`, `channels/channel.py`, `licensing/logic.py`, `rest/delivery_report.py` | the row of a notification, delivery reports, the license ledger | `make_send`, `Channel.send`, `LogAccessService.log`, delivery callbacks, `resend_notification` | Celery, providers, database | a chain of non-transactional steps; kills; lost answers; a resend beside the task; reports in any order |
| **Providers** `channels/integrations/` | none | `client_send`, `enqueue_dlr_request`, `parse_delivery_report` | Sending | fail, answer late, take a message and lose the answer |
| **Project settings** `rest/project.py`, `base/event.py`, `aws/ses.py`, `base/models.py` | per setting a value, a pending value and `action_required`; identities at SES | create, edit, confirm, confirm as operator, reset | SES, operators | read, call SES, write back; overlapping requests |
| **Notification front end** `notifications/base/notification.py`, `*_mixin.py`, `email_notification.py`, `rest/notification.py`, `celery/` | notification rows, counters, the throttle in the cache | create, merge a duplicate, delay, throttle, enqueue | Sending | check and act, read and write back |
| **Envelope of a notification** `notifications/base/notification.py`, `channels/channel.py`, `channels/sms_channel.py`, `email_notification.py`, `base/phone_number_parser.py` | the object that is pickled into the task: senders, fallback, recipients | request, resend, serve a channel | settings, profiles, sending | read when it is requested, used much later; read again by a resend |
| **Maintenance notifications** `notifications/rest/maintenance_notification.py`, `src/vue/components/titlebar.vue` | delayed notifications, acknowledgements in the session, what a title bar shows | create, list, poll, show, acknowledge, reload | front end | overlap of two notices; pages that answer beside each other |
| **Accounts** `account/rest/`, `account/service/`, `base/event.py` | users and profiles, codes in the cache and the session, invites, members of projects, `delete_at` | register, verify, log in, change the address, reset a password, invite, accept, edit a member, delete, restore | cache, notifications, merging | codes that outlive what they were issued for; checks apart from what they guard |
| **Merging of users** `account/service/merge_users_service.py`, `account/rest/profile_merge.py` | lists in the cache, groups in the database | collect, group, merge at a login | accounts | cache read and written back; a merge at each login |
| **User cache** `base/auth_backends.py` | users in the cache | fill, invalidate | accounts | a fill that crosses an invalidation |
| **Roles of a project** `rest/project_role.py` | groups whose name is the key of the project, a delimiter and a label | create, rename, delete, list | projects, sessions | told apart by a prefix of the name; a read apart from its write |
| **Tables of people** `account/rest/profile.py`, `project_profiles.py`, `project_profiles_utils.py` | the rows loaded so far, the filter of the file | open, scroll, filter, export | accounts, merging | pages of a list that changes; two implementations of a filter |
| **Messages** `notifications/rest/notification.py` | recipients of a message, the names shown for them | compose, view, resend, open as a guest | front end, users, tags | users and tags go; views write back |
| **License** `licensing/` | the ledger | report, and the warning of the page | sending, page | answers that are late |
| **SMS counter** `channels/integrations/t2.py:17-257` | none | `count` | ledger | boundaries of the parts |
| **Session of a browser** `base/middleware.py`, `account/middleware.py`, `account/rest/impersonate.py`, `src/vue/components/user-session/` | the session, the store of the page | log in and out, impersonate, select a project, load the profile | every request | answers in any order, lost, of an earlier page |
| **Lost password and codes** `account/rest/reset_password.py`, `user-session/login.ts`, `login-inline.vue`, `user-profile.vue` | codes, cookies, dialogs | ask, mail, type, post | accounts | parts that expire at different times |
| **Settings page** `src/vue/components/project-settings.vue` | the cookie of pending settings, the dialog | list, check, confirm, look, reset | project settings | calls that follow each other, overtaken or failed |
| **Profiler** `profiling/` | a ring of long requests, a queue for every ten seconds, log files | record, view, rotate | every request | processes share all of it |
| **Cached query set** `base/queryset_with_cache.py` | copies of rows and lists | get, list, update, create | notifications | a fill that crosses a write |
| Permissions, tags, filters, query tracker, routing, example | of one request, or none | - | - | - |

What makes each component correct:

- CacheLock: at most one process in its block; no lock that nobody holds; waiting with a
  timeout ends; whoever polls gets on.
- Registration: bounded nesting, no deadlock, counters that come back to zero, no name lost.
- CacheQueue: each call takes effect at once and returns.
- Sending: the row accounts for every channel; what is shown as sent was taken by a
  provider or passed over in silence for want of an address, and nothing else is charged; every
  run ends; undisturbed resends mail and charge once and keep what was sent, but for a task that starts after them.
- Project settings: only approved values become active; a pending sender can be verified;
  no proposal stays pending for ever.
- Front end and maintenance: what was answered as queued is sent, not before its time; what a request
  does alone (throttling, merging, acknowledging, keeping notices apart) is right whoever else is under way.
- Envelope: what is sent has a sender and an address of its time, an address gets one copy, a person one mail, and a row has a task.
- Title bars: a notice is hidden only when it was read in all its ranges, and what was acknowledged is not shown again.
- Roles: the owner of a project finds its roles and no others. Tables: read to the end, everybody is there once, and the file agrees.
- Accounts, deletion, user cache: calls that do not overlap take nothing back, a restored profile is not deleted, the
  cached user is the row, a code for a new address works once, only for the address it was mailed to, and as long as its mail says.
- Registration and invitations: an active user was mailed his code, addresses differ, an invitation takes one user in.
- Merging: a user is in one group, and no row of a merged user is lost.
- Messages, license, query set: what is shown follows the last resend, the credit and the rows.
- Browser: when calls are answered the page shows the session, and it comes to rest; who is asked for a code can enter one
  that works, and it works for him alone; there is one question about a setting at a time.
- Profiler: the view has every request of the last hour, and the last records survive a rotation.

## 2. Modules

| Module | Models | Notes |
|---|---|---|
| `Mutex` | what users of a CacheLock rely on: one inside, entry only when free; a lock left by a foreign ObjectLockTimeout stays closed | abstract specification |
| `CacheLock` | `serialization.py`, `caching/__init__.py` | one action per cache call |
| `WaitingKeys` | `serialization.py:55-71` with `CacheQueueOther.rpush` | a thread is a stack of CacheLock objects; taking a lock is one step, as `CacheLock` justifies |
| `CacheQueue` | what the queue promises | abstract specification |
| `QueueCalls` | calls by processes that may be killed | common to both queues |
| `CacheQueueOther` | `caching/cache_queue/cache_queue_other.py` | lock, get, set, touch, unlock are steps; the lock is `Mutex` |
| `CacheQueues` | `caching/cache_queue/__init__.py`, `cache_queue_redis.py` | either queue, which implements `CacheQueue`; for Redis a list command, then the command for the timeout |
| `Delivery` | `make_send`, `Channel.send`, `LogAccessService.log`, delivery reports, resends | one action per call of the database or of a provider |
| `Envelope` | the senders, the fallback and the recipients of `notification.py`, `channel.py`, `sms_channel.py`, `email_notification.py` | one action per setting or profile that is read; a channel is served in one step |
| `ProjectSettings` | `rest/project.py`, `base/event.py`, `aws/ses.py`, `base/models.py` | a request reads, calls SES, writes |
| `Roles` | `rest/project_role.py` | names are sequences of characters |
| `Members` | the table and the export of `rest/profile.py`, `rest/project_profiles.py`, `project_profiles_utils.py` | one action per page that is loaded |
| `NotificationFront` | `Notification.send` and its subclasses, the mixins, the throttle, maintenance notices, acknowledgements, the Celery task up to `make_send` | one action per call of the database, the cache or the broker |
| `Notices` | `rest/maintenance_notification.py`, `titlebar.vue` | polls, answers and acknowledgements of several pages |
| `Profiles` | the current profile of `rest/profile.py`, `base/auth_backends.py`, login, change of the password, `delete_users` | the copy of the row that a request got, the signals and the commits are steps |
| `AccountTables`, `Registration`, `MergeUsers` | the tables they share; `profile.py:371-419`, `account.py:203-267`, `invite.py`, `base/event.py`, `project_profiles.py`; `merge_users_service.py`, `profile_merge.py` | a call holds a copy of what it read; the others go on in between |
| `Accounts` | the two composed: a login and a verification go on with the merge and the invitation | |
| `SMSCounter` | `t2.py:17-257` | a text is the number of its characters of each class |
| `Licence` | the ledger with `SMSCounter`, `licensing/`, `notifications-editor.vue` | |
| `Messages` | `notifications/rest/notification.py`, `Notification.resend` | |
| `UserSession` | `state.ts` and its callers, the middlewares, impersonation | calls are served and answered in any order |
| `PasswordReset`, `CodeDialogs`, `SettingsPage` | `login.ts`; `login-inline.vue`, `user-profile.vue`; `project-settings.vue` | page and server together |
| `DebugView`, `LogFiles` | `profiling/` | one action per call of the cache or of the file system |
| `CachedRows` | `base/queryset_with_cache.py` | |
| `Services` | the last nine together: `UserSession`, `PasswordReset`, `CodeDialogs`, `SettingsPage`, `Messages`, `Licence`, `DebugView`, `LogFiles`, `CachedRows` | they share nothing; a behaviour is one of one of them, while the others stay as they began |
| `MC*` | - | instances for TLC; `MCQueues`, `MCDelivery`, `MCNotificationFront` and `MCProfiles` have several parts (section 3) |
| `CacheLockProofs`, `QueueProofs`, `DeliveryProofs`, `NotificationFrontProofs`, `ProfilesProofs`, `AccountsProofs`, `ProjectProofs`, `ServicesProofs` | - | theorems, section 5 |

### CacheLock

`count` is the value in the cache, `Absent` without a key. `pc[p]` says which call of
`CacheCounter.incr` (`add`, `incr`, `touch`), which line of `__enter__` (`decide`, `sleep`)
or which part of the with block (`check`, `body`) comes next. `mode` is the timeout: 0, -1 or
positive. `checked`, `timedOut` and `waiting` are the attributes of the object. `left` is a
history variable: where a process was that left its key behind.

`Careless` processes forget `cl()` at the start of the block (`serialization.py:96-98`); the
key is deleted, whoever owns it. So mutual exclusion is stated, checked and proved under the
hypothesis that nobody is careless and that the cache does not evict (`Disciplined` in
`CacheLockProofs`); the docstring of `NoTimeoutCheck` (`serialization.py:12-20`) asks the
caller for it. `PollersProgress` and `TimeoutEndsWaiting` hold without it.

A cache whose `incr` is not atomic (the read and write of Django's `BaseCache.incr`) is not
modelled: `Incr` is atomic, as in Redis, Memcached and LocMemCache. The default timeout of a
new key does not pass between two calls of one `incr`.

### WaitingKeys

`stack[t]` holds the nested CacheLock objects of a thread: the application's, the one
that `rpush` makes for `CacheLockKeys`, and once more that one when the thread had to wait for
it. A third level is impossible, because the flag is set before the name is appended
(`NestingIsBounded`). A cache failure inside `set_waiting` is not modelled, here or in `CacheLock`: `is_waiting` is
already true when the increment fails (`serialization.py:62-71`), so the handler of `__enter__` decrements what was never
incremented and the counter of waiters goes to -1. A name may be listed twice;
the code does not prevent it and nothing depends on it.

### The queues

In Redis every operation is one command that Redis executes alone, so it maps to the abstract operation there; the
command that renews the timeout comes later, and is missing when the process is killed in between: the key then keeps or loses
its timeout, which the abstract queue allows as well (`MayVanish`). Each operation of `CacheQueueOther` maps to the abstract one at its `cache.set`. `Unlock` is
the end of the with block and the return of the call. The key's timeout may pass, but not
between a get and its set. Calls without a count stand for a count of 0 in `CacheQueueOther` too, which takes 0 for no count
(`cache_queue_other.py:35-36`); Redis takes nothing with a count of 0, a difference between the two that no model has.
`CallsReturn` excuses a process that was killed in the block of the queue's lock, and nothing else: whoever dies elsewhere, idle or between
the two commands of Redis, holds up nobody.

### Delivery

One notification, one `Task` and some `Resends`, each a run of `make_send`. `row` has the
fields `sent_channels` and `failed_channels`; `reports` are the rows of `DeliveryReport`, known by
the run that created them instead of a UUID; `charged` counts messages in the ledger;
`handed` is a history of what providers really took. A run holds its locals in one record, whose
names are those of the code.

What the code does, and the model with it:

- Failover never delivers: the next provider replaces the first without
  `ensure_credentials` (`channel.py:268-273`), so its `client_send` raises. The exclusion lasts
  for the recipients that follow.
- Providers return in silence without an address: AWS SES without an e-mail address (`aws_ses.py:133-134`), those of SMS without a
  phone number (`t2.py:293-295`). The recipient is counted, charged, reported DELIVERED by AWS SES, and the channel shown as sent. `handed` counts
  such a recipient as taken (`Ignored`), so `SentWasTaken` and `LedgerIsBacked` say: taken, or passed over in silence. Neither can be
  told apart in the row or the ledger. The second provider passes him over as well, if it comes to that: its credentials are not needed. A mail may
  therefore be charged once for each provider to one without an address (`Mails` in `OnceUndisturbed`). `kind.unreachable` names
  those without an address for each channel; that they share it for all runs of a notification is an abstraction, as a profile may change.
- `MailChannel.send` mails a copy to the sender first and fails if that fails.
- `notifications_channels_state` holds Channel objects, `chl_prices` is keyed by names
  (`logic.py:93-99`): what this run sent before is never counted. `Used` therefore is the ledger alone.
- `Consumed` refuses when `used >= 0`; the credit is a negative amount.
- A resend reads the row again, sends all required channels and passes an empty
  `extra_data`, which has no settings to make a fallback from: the fallback mail raises `KeyError`. In the first run it cannot be
  saved either, because its `extra_data` has the `Settings` object in it (`channel.py:246`). Both are only logged (`channel.py:254`), so
  `FallBack` never makes a mail.
- A callback for a report that does not exist yet is lost (`delivery_report.py:41-46`).
- The task works on the object that was pickled when it was enqueued (`send_notification_service.py:34-51`). A resend may run to its end before
  a delayed task starts, which is no overlap and which `resend_notification` does not look for; the task then knows nothing of it, and writes
  `sent_channels` without what the resend sent and the task did not (`:85-131`). `SentIsKept` has this step as its only exception (`LateTask`): the
  task saves after a resend has. `OnceUndisturbed` has no such exception, as the reports stop the second mail.
- An SMS is charged as the number of its messages (`channel.py:282-285`): here a part of its price; `Licence` has them.

### Envelope

`past` is every state the settings and the profiles had, the present one last; `sending[o]` is the object of a notification `o`, for its first
run or the resend: where it is, its senders, its fallback, the recipients that were put on it (`people`, empty when a channel reads them
itself) and from when to when it was made. `form` says what it is: with a delay (`task`), sent in the request (`now`), to a list of
addresses (`list`), a system mail or one of a project. Two people are one recipient of an SMS when their numbers have the same
digits. A delivery report is looked up by the id of the recipient, which all addresses of a list share. Failures, kills and providers are
in `Delivery`; here a channel is served in one step and may hand over any part of what it tries. As the addresses share their id
(`email_notification.py:85-93`), the others count as delivered once AWS SES has taken the first; the model does the same.

### ProjectSettings

`row[n]` has `value`, `pending` and `action` (`action_required`). A request carries in `write` the
row it is about to write, computed from the row as it was read. Confirmations and resets are
transactions (`project.py:426-471`): the row a reset has written is in `lock` until it commits, and
is rolled back when SES fails; what SES was told is not. `approved` records what may be active:
the value a row was created with, what SES had verified, what an operator confirmed.
`nameless` records senders proposed by an update of a reserved setting without its name,
which the serializer allows (`project.py:352`) and for which the event registers nothing. A setting made through the API may be given a pending value
(`project.py:253-255`, `:278-279`); here it is made without one.

The code confirms only the two senders. A setting of any other name takes its edits as pending values
(`project.py:272-276`), and nothing ever makes them active (`event.py:166-173`); `confirm_setting`
returns "ok" all the same. The model has no confirmation of such a setting.

### Roles

`role[i]` is the name of a group as a sequence of characters, because prefixes and delimiters are what matters. `call[r]` is an update or a
deletion between its read and its write. `home` and `given` are histories: the project a role was created for and its last label. An
update saves the row it read, which inserts it again when it was deleted meanwhile (`project_role.py:50`), though the deletion was answered. A
label with the delimiter in it is shown up to there (`project_role.py:39`); no test has either case (`tests/test_role.py:77-92`). A superuser lists all groups; the groups of other
parts of an application, whose names may have no delimiter, are not modelled.

### Members

`table` is what a page has loaded: `cursor` is the last row in the order of the name and the key, `end` says that there is no more. `file` is the
export, made from the filter the table had. `fit` are those who fitted the filter when the table was opened, `touched` and
`renamed` those to whom something happened since. A filter for the state joins the memberships once more, and finds the state a person has
in any project (`HasState`). Keys are positive, as the database gives them. The code in `src/` gives the order (`profile.py:299`); that a page goes on after
the last row of the one before is the paged loader of dynamicforms, which is not in `src/`.

### Notices

`page[p]` is a title bar: its poll (`idle`, `sent`, `served`), the answer, the notice it showed (`item`, never reset) and its acknowledgement,
which reads the session when it arrives and saves it when it is answered. The three ranges start 10 hours, 2 hours and 10 minutes ahead; the list
holds a notice 8 hours ahead. `mixed` records that two acknowledgements ran beside each other: one of the two is then lost.
Because `maintenanceNotificationItem` is never reset (`titlebar.vue:128`), a page that stays open shows a notice in one of its ranges, not in each
as `docs/notifications.md:17` has it; the model follows the code.

### NotificationFront

A request is served once and carries its locals in `req[r]`: `at` is the call it makes next, `to` is
`delayed_to`, `seen` what it has read and will write back. `rows[r]` is the notification it stored;
its message and the row are saved in one step, and `committed` says whether other connections see it. `call.atomic` is
TRUE where the sender runs in a transaction (creating a maintenance notice, an invitation, a
registration); `Abort` rolls that row back, not the cache, the mails or the queue. `context` stands for all the fields
the search for duplicates compares, `Own` for the fresh UUID of a call without a context. `mail` covers
`Notification` and both lists of e-mails (which are not throttled), `system` the throttled
`SystemEMailNotification`. A task leaves the broker when it is started (`task_acks_late` is not set): what follows is
`Delivery`, and a redelivery after the visibility timeout is not modelled; `enqueue_notification`
refuses longer delays for that reason.

The search for duplicates, the check for an overlap, the throttle and the acknowledgement all read first and
write later, without a lock. Requests beside each other therefore do lose counts and acknowledgements, send
duplicates and pass the throttle; the code takes no measure against it. The properties say the rest: who is
served while no other request is (`Lone`, over the history `overlaps`) loses nothing, is throttled and finds every duplicate,
whatever other requests overlapped before or after. The throttle lets through `Limit + 1` mails a minute, by the `>` of
`email_notification.py:131`. A notice is denied when any delayed notification, not only a notice, is near
(`maintenance_notification.py:77`). A delay longer than the visibility timeout raises after the row was saved: outside a
transaction the row stays, and later duplicates are merged into what will never be sent; `DispatchedAsAnswered` names
this case.

Left out: the pause between two mails of a worker (`notification_tasks.py:27-30`, a sleep), `TESTING`, attachments, the
throttle of guests in `rest/notification.py`, and notifications that are not persisted.

### Profiles

`row[u]` is the profile with its parent user, reduced to the columns that are saved separately: the address, `delete_at`
(0 for NULL) and `password_invalid`; `cached[u]` is the copy under `USER_CACHE_KEY`. `req[r]` is a request: `at` says what it does next (the
lookup in the cache, the load and the fill of `get_user`; the handler; the signal after a save, or the commit; the answer,
with which Django stores the session), `copy` is `request.user`, `codes` the addresses in the session as it was loaded, each
of which stands for its code. `session[u]` is the stored session. `form[u]` is what the form of the profile that the user has open shows of `password_invalid`. A call of the staff loads the profile itself and holds no copy.

What the code does, and the model with it:

- `update_current_profile` and the change of the password save the whole of `request.user`, which the cache may have
  given: they take back what another call changed in between, and Django's `save()` inserts the row again if it
  is gone. The others save one column (`update_fields`) and fail without a row.
- In a transaction (`confirm_new_email`, `reset_user_data`) the signal drops the copy before the commit; a request that fills
  the cache in between caches the old row.
- `delete_users` runs in a process where no backend was made, so that nothing listens to its signals: a cached user outlives his
  row until the cache expires. It selects first and deletes later, without looking whether the mark was taken back.
- `password_invalid` is a writable, required field of the form (`profile.py:122`), hidden from the user: `update_current_profile` saves the posted
  value (`:485-490`). A form that was opened before the staff invalidates the password and is posted afterwards takes the invalidation back, with
  no two calls beside each other. The model posts the value the form was opened with; a post with another value than the row's counts as an
  overlap, of the form with the change it does not show (`Outdated`). So `RowIsAsAsked` says nothing of a user who posts such a form: that one is lost.
- The mail says "Code is valid for" `CONFIRMATION_CODE_TIMEOUT` (`profile.py:500-502`), but the code lies in the session and nothing takes
  it out after that time: `confirm_new_email` takes it as long as the session lives. `CodesAreMailed` asks for the code to be in the session for the time
  the mail says (`Validity`, from `mailed`) and allows it to be there afterwards, as it is in the code. That a code stops working after its time is false of
  the code: TLC, asked in addition that no confirmation uses a code after `Validity`, shows a code mailed at time 1 confirmed at time 2 with `Validity = 1`.
- A code is not removed when another one is used, and the session of a request that began earlier is stored over that of a later one.

None of this is prevented, so the properties are stated for users outside `mixed`: a history of the users of whom two calls overlapped, one of
which changes something, where `delete_users` counts as a call from its selection on, and finding a cached copy
counts as an overlap. `asked` is the row as the calls meant it, applied in their order; `mailed` has for each address when a code was mailed
to it that is not yet used. All three start over when the copy of a user expires while nobody works on him (`Expire`): from then on nothing stale is left.

A marked user can still log in: the comment in `profile.py:547` asks for it, `docs/user-profile.md:58` says he cannot; and the documented default of
`DELETE_PROFILE_TIMEDELTA` is 0 (`docs/user-profile.md:96`), in the code 3 (`settings.py:88`). The model follows the code.

Left out: other columns, files, records of other models that `reset_user_data` deletes, inactive users, a second session of a
user, a hijacked session, and whether a new address is free (nothing checks it).

### Accounts

`user`, `row` and `session` are the tables; `call[c]` is a request at its next access, with what it read. `flow[b]` is the
flow of a browser: its cookie, the code in the cache and the user under the code. A registration mails the code and caches the user
before its transaction commits; a verification saves the cached copy of `is_active` alone. Every login goes
on with `MergeUsersService.handle`, which finds the group, and in a second step moves the rows and deletes the users. Rows without a
project, and those of another project than the first, are kept apart (`merge_users_service.py:19`).

The code checks before it writes, without a lock: that an address is free (and not at all when it is changed, `account.py:262`),
that users are in no other group, that an invitation is open. `twins` records which of these overlapped; the properties
hold without, and name the case. `late` are the rows made for a user whom another login merges in between, which may be lost with him. A login deletes the cookie of a registration (`login.py:109`); here the flow stays, which only adds behaviours.

### The parts of Services

- `UserSession`. `page` is the store, `calls` what is on its way, `session` the server's. `hist` is the stack of impersonation.
  `overtaken` and `unaware` record that an answer came after a later one, was lost, or that the session ended elsewhere: the page
  then shows what is gone, until the next answer; the code has no guard against it. Calls of a page that was left stay in `calls`, unheard, until
  the server has served them.
- `PasswordReset`. The data of a link is one variable per page, so a dialog posts the data of the last answer. After a reset the
  code deletes the key of a field object instead of the code (`reset_password.py:61`): it works until its time is up.
- `CodeDialogs`. A tab is a page with one dialog or one call. Once a wrong code was typed, "Different email" is not heard
  in the dialog that opens again: nobody waits for its result (`login-inline.vue:129-133`). The cookie `verify-email` stays when
  the session that holds the codes ends: the page asks for a code that cannot work (`confused` excludes it). A
  reloaded page no longer asks for the code of a registration.
- `SettingsPage`. The list sets the cookie, newest first; the page asks for the first sender alone, so a pending sender of SMS,
  which takes up to two weeks, hides the question for e-mail. A check does not look whether the setting is still pending. In the code a setting of any name that was edited
  is pending and comes into the cookie (`project.py:272-276`, `:400-412`); here the two senders only.
- `Messages`. `row.names` is `recipients_original_payload_search`, written back by every view that finds it empty; a
  view beside a resend may store the names of before (`mixed`). Recipients of a resend are records of users and tags; bare numbers of users
  (`rest/notification.py:290`) and an empty list, on which the view of a guest raises (`:429`), are left out.
- `Licence`. The check before a send counts what notifications used, the report what all content types used; `shown` (`licenseConsumedShown`) is
  never reset, so the warning comes once.
- `CachedRows`. Copies are dropped by a pattern, which only Redis can (`patterns`); `save()` of a model drops none; a
  fill that crosses a write keeps the old row (`missed`) until the timeout. A write commits at once; in a transaction the copies are dropped before
  the commit, and a reader in between caches the old row, which `CopiesAreRecent` does not cover.
- `DebugView`, `LogFiles`. The pointer of the ring and its slot are two calls; the names of the log files are listed, then
  removed and renamed. Requests that rotate at the same time (`crossed`) lose records: a rename of a file that is gone
  raises, and the error is swallowed. `NewestSurvive` says nothing of these: it is about the order in which one process removes, renames and
  writes while others write.
- `SMSCounter`. The classes follow the maps of the code: characters of the extended map count two in the 7-bit alphabet.
  `truncate` (`t2.py:237-257`) asks the dictionary that `count` returns for attributes and cannot run; it is not modelled.

## 3. Runs

| Run | Instance | Question | Result |
|---|---|---|---|
| `CacheLockSafety` | 3 processes, all timeouts, one may be killed, two with a failing cache | does the lock exclude, is a positive counter owned, are waiters counted, does it implement `Mutex`? | holds, 951796 states |
| `CacheLockLive` | 2 processes, one careless and mortal, eviction | does waiting end, does polling get on? | holds |
| `CacheLockLeak` | 3 processes | is the lock free after its block, as `tests/test_serialization.py:123` expects? | violated |
| `Queues` | queues: 2 processes, one may be killed, 2 items, counts 0 and 2, either queue; registration: 3 threads, 2 locks | are the calls of a queue atomic, do they return; is the nesting of locks bounded, is there a deadlock, are counters and list right? | holds, 98840 states |
| `Delivery` | four kinds of a notification: undisturbed by e-mail and SMS to two recipients, one without a number and one without an e-mail address; an SMS notice to one without either; overlapping runs, failing database, lost answers and credit 2; SMS with a fallback | does the row account for every channel, was what is sent taken or passed over, is the ledger covered and the overdraft bounded; undisturbed, in either order: mailed, charged and reported once, sent stays sent but for a late task; does every run end? | holds, 876024 states |
| | notices: 1 notice, 2 pages, 6 ticks, 1 reload | is it hidden only after all ranges, and not shown again? | holds, 105701 states |
| `DeliveryTwice` | task beside a resend | one report, as `channel.py:170-171` asserts? | violated |
| `NotificationFront` | 3 requests, 2 at a time, one breaks off anywhere, limit 0, minutes of 2 ticks | do rows, tasks and answers agree, is nothing sent early; are lone requests throttled, merged and kept? | holds, 2571831 states |
| | envelope: one notification of five forms (delayed by both channels, an SMS at once, a list, two system mails), 2 users, 3 spellings of numbers, 2 changes of settings and profiles | is it signed and addressed as it was in its time, one copy to an address, one mail to a person, a task for each row? | holds, 1885290 states |
| `EnvelopeFallback` | an SMS to a user without a number, with a fallback | is the mail made that the setting promises? | violated |
| `ProjectSettings` | 2 requests, 3 values, 2 edits, failing SES | only approved values active, pending ones registered, proposals settle? | holds, 454268 states |
| `Profiles` | 1 user, 2 addresses, 2 requests at a time, 4 in all, 3 ticks | is anything taken back, the cached user stale, a code there that was not mailed or missing within its time, when calls do not overlap? | holds, 2077083 states |
| | tables: 3 people, 2 projects, pages of 2, 2 changes | is the table complete and without repeats, does the file agree? | holds, 488432 states |
| | roles: 2 projects, "1" and "11", 2 labels, one with the delimiter, 2 owners and a superuser, 2 roles, 2 requests | do owners find the roles of their projects, under their labels? | holds, 522288 states |
| `Accounts` | 4 users, 2 of them new, 3 addresses, 2 browsers, 2 calls at a time, 4 in all, a group of two and two lists | is a user in two groups, a row lost, an address given twice, somebody active without a code, an invitation used twice? | holds, 949216 states |
| `Services` | nine parts, one at a time | the properties of the parts below | holds, 1935958 states |

Several runs have parts that share nothing: in one behaviour one part moves, while the others stay as they began, so that the states of the
parts are added and not multiplied. The fairness of `Delivery` and of the registration of locks is that of their part alone. The parts of `Queues` with the
items and of `NotificationFront` with the envelope may end, and then stutter; deadlock is checked for the other part of each.

Some properties are conjunctions of named ones, each stated beside its module:

| Property | Its parts |
|---|---|
| `RegistrationIsRight` | `NestingIsBounded`, `WaitingIsCounted`, `FlaggedNameIsListed`, `QueueOwnerNeverWaits` |
| `SettingsAreRight` | `ActiveWasApproved`, `PendingIsRegistered` |
| `DispatchedAsAnswered` | after each step `AnsweredIsSent`, and of each step `StartsInTime` |
| `LoneAreServed` | `ClashesOverlapped`, `LoneIsNeverLost`, `ThrottleHolds` |
| `SentInTime` | `SignedInTime`, `AddressedInTime` |
| `SentOnce` | `OneCopyEach`, `MailedOnce` |
| `ReadIsRead` | `HiddenWhenRead`, `NotShownAgain` |
| `TableIsRight` | `EachInTheTableOnce`, `FileHasTheTable` |
| `MergesAreRight` | `InOneGroup`, `NothingIsLost` |
| `JoiningIsRight` | `AddressesDiffer`, `ActiveWasMailed`, `JoinedOnce` |
| `LicenceIsRight` | `WarningFollowsCredit`, `ChargedAsFewest` |

The parts of `Services`: `UserSession` (2 users, one of them staff, 2 projects, 3 events, one loss) with `PageAgrees` and `PageSettles`; `DebugView` (3
requests, 2 slots, an hour of 4) with `ViewIsComplete`; `LogFiles` (4 writers, files that are full with one record) with `NewestSurvive`;
`Messages` (2 users, one tag, 3 calls) with `MessageFollowsResend`; `Licence` (2 channels, texts at the boundaries of the parts, 4 rows, 3 polls) with
`LicenceIsRight`; `CachedRows` (2 readers, 2 versions) with `CopiesAreRecent`; `PasswordReset` (2 users, 4 requests, codes that end) with
`CodeResetsItsUser`; `SettingsPage` (2 senders, 5 calls, 2 at a time) with `QuestionsAreRight`; `CodeDialogs` (2 tabs, 2 codes, 3 typed) with
`AskedCanAnswer`.

**Bounds.** `MaxCount = 2`: the code tells 1 from more and nothing else. Three processes are an
owner, one that polls and one that arrives. Three-process liveness of the lock takes too long;
the pair has every interleaving of an add, an incr and a delete. Three threads and two locks
make two threads wait for the queue at once. Two items suffice for a queue whose operations
copy: each is pushed once. One resend beside the task is the overlap; two recipients and two
providers are enough for a failover that carries over; one of the two recipients has no e-mail address, the other no number. Prices are in units, the SMS
dearer. Settings: three values and two edits let an edit replace a value that
is being confirmed; with two values that cannot happen. Sequences of edits are bounded by `MaxEdits`.
Front end: three requests, of which two overlap, are a pair beside each other and one alone, before or after them; `Limit = 0`
lets one mail pass, so the second is stopped and the third finds a list that is too long; the clock runs over a change of the minute and over
the end of the aggregation time; `Visibility = 1` makes a delay of 2 too long.
Profiles: users share nothing, so one suffices; two addresses are the old and a new one; of two requests at a time one may change
what the other has read, and four in all allow a change of the address, its confirmation, and a mark with its
restoring; `Delta = 1` and three ticks let a mark fall due, and `Validity = 1` a code outlive its time. `MaxRequests` bounds the requests, `MaxTime` the clock.
Envelope: one change before and one after the task is made tell the times apart; both users share a number in two spellings, and a third is not
allowed. Notices: the clock is scaled down, but keeps the order of the ranges and of the list's 8 hours; two pages cross each other, and a page
is reloaded once. Roles: one key is a prefix of the other; an update and a deletion of one role overlap. Members: one page is full and the next
is not, two share a name at the end of a page, and of two changes one may take back the other.
Accounts: a registration beside another one, a login beside a login of the same group, and a call before and after; two users have
an address from the start, two can register. Services: `MaxEvents` and `MaxFaults` bound clicks and losses, which already let an answer
be overtaken; four writers rotate once while another has listed; an hour of two intervals has a first, a middle and a last one; two tabs cross
each other; three codes typed are a wrong one, the next address and a right one; `MaxOthers` lets one thing happen outside the page.

**Fairness.** Processes, threads, runs and requests take their next step (WF): the scheduler runs
them, and calls of providers have timeouts (`t2.py:303`). Strong fairness is assumed where the code
polls: of `TimeOut` (wall clock time passes between polls), of `Lock` and `Acquire` in the models that use the
lock as a whole, of `Incr` (that the window between an add and its incr is not hit every
time), and of requests on a row that is locked and freed. The code enforces none of these four: a
process that polls without a timeout can starve, and no property denies it. `ProposalSettles`
also assumes that owners verify addresses, that somebody confirms again and that SES does not
fail for ever. `PageSettles` assumes that calls are served and answered, or fail; axios and the server have timeouts.
Nothing is assumed of kills, failures and callbacks.

`CHECK_DEADLOCK FALSE` stands where all processes may have been killed, a lock was left behind, all
runs are over, or the bounded requests and events are (`Delivery`, `Profiles`, `Accounts`, `Services`). `CacheLockSafety`, `Queues`, `ProjectSettings` and
`NotificationFront` check deadlock.

## 4. What the violations show

- `CacheLockLeak`: an `ObjectLockTimeout` of another lock that leaves a block is taken for
  the block's own: `__exit__` returns before the delete (`serialization.py:100-101`) and the lock stays
  closed for ever. `LockLeftStaysClosed` proves that nobody ever enters it again.
- `DeliveryTwice`: a resend beside the task finds no report before the task creates one; both create
  one, and the assertion of `_make_send` then fails every later send to that recipient.
- `EnvelopeFallback`: the mail that is to replace an SMS has the settings of the channel in its `extra_data`, a column that only takes JSON:
  saving it raises, which is only logged (`channel.py:246-254`). Nobody without a number is mailed.

## 5. Proofs

All theorems hold for any sets of processes, runs, recipients, providers, values, users and requests. Every invariant and every
action property that a passing run checks is proved; what is left to TLC is liveness. A proof has one lemma for each action (what it does to the state, or that it keeps the invariant),
one that the invariant implies the property, and a last temporal step.

### CacheLockProofs

- `LockInv` says, beside types, that owners are alone, that the counter is positive
  while there is one and its key persistent once touched (or its owner dead on the way), and where a key
  without an owner comes from. Mutual exclusion alone is not inductive: a second process
  could win if the key of the owner expired. From it follow `LockMutualExclusion`, `LockLeftStaysClosed` and `LockImplementsMutex`: each step of the lock is
  one of `Mutex` or leaves it alone. Hypothesis (`Disciplined`): `Careless = {}` and `Evicting = FALSE`.
- `LockCountersAreOwned` needs no such hypothesis: a positive counter has an owner or a failure that left it, and the statistics count
  who waits, also when callers are careless and the cache evicts. The count of waiters is a cardinality, which each step changes by one process.

### QueueProofs

- `CopyIsCurrent` (who holds the lock is alone, and its copy is the list) is
  inductive; with it `QueueIsAtomic`: the write of the copy, or the list command of Redis, is the atomic operation, for either queue.
- `WaitingInv` gives the nested locks of a thread their shape (`StackInv`), says what the innermost one
  has flagged, read and written (`TopInv`), and that who is in a with block owns its lock alone. The bound on the nesting is not inductive:
  it needs that a thread at the third level finds the flag of the queue's lock set. The counters need that `rpush` and its
  return shift the objects of a thread without changing their number (`Shifted`, a bijection). From both
  `WaitingRegistrationIsRight`, all of what the run checks but its liveness. Hypothesis: finitely many threads.

### DeliveryProofs

- `DeliveryInv` adds to the properties what a run under way will save (`Covers`) and
  what backs what it holds (`Backed`); the row alone says nothing of a run that is about to
  overwrite it. From it `DeliveryNothingForgotten` and `DeliverySentWasTaken` (taken, or passed over for want of an address), with overlap, kills and faults,
  and for system notifications, which no run instantiates.
- `OnceInv` is about runs that do not overlap when nothing is lost: one run at a time works on the row as it is (`Solo`), with the only report
  there is (`OwnReport`), and what was mailed and charged is what the reports and that run show (`MailOnce`, `ChargedOnce`). It holds only
  while `Undisturbed` does, so the theorem is about the implication, and needs that nothing disturbed becomes undisturbed again. From it
  `DeliveryOnceUndisturbed` and the action property `DeliverySentIsKept`. The task may come after resends that are over, so its object is the row only as
  long as no resend has saved; what a task that comes later writes is the exception of `SentIsKept`.
- `LedgerInv` is about the money. That what is charged was taken is not inductive: a charge needs that the messages it adds were taken before, so
  `Backing` adds to the charges of a channel what each run holds for it (`Held`), from the answer of the provider to the charge. The overdraft is a
  matter of runs that were let through beside each other: while there is credit, or the runs that are sending (`Underway`), each worth at most one
  channel of the dearest price, cannot overdraw it further than the bound (`Budget`). The sums over runs and recipients are functions that a step
  changes in one place (`SumFunction`); what such a change does to a sum is proved by induction on the size of the subsets over which the fold goes.
  From it `DeliveryLedgerIsBacked`, with overlap, kills and faults. Hypothesis: finitely many resends, as a sum over runs needs.
- `EnvelopeInv` follows an object through its places (`Course`): its senders are of settings that were there since it began (`SignedFrom`), the
  recipients on it of profiles that were (`PeopleFrom`), and what was handed over under it has left its channel (`Served`), so that a channel is
  served once. `SignedInTime` alone does not say what an object holds that is yet to be sent. From it `EnvelopesAreInTime`, `EnvelopesAreSentOnce` and `RowsOfTheFailed`.
- `NoticesInv`: each range is in a list once (`Once`), also in the copy of the session that an acknowledgement will save, hence three
  entries are all three ranges (`HiddenWhenRead`); and, unless two acknowledgements overlapped, the only one has read what there is,
  and an answer to a poll has what had been answered when it was sent (`Alone`), hence `NotShownAgain`. Together they are `NoticesAreRead`.

### NotificationFrontProofs

- `FrontInv` ties the place of a request to its row and its task (`RowInv`, `TaskInv`). `AnsweredIsSent`
  alone is not inductive: it does not say that a request about to commit has enqueued its task, nor that a duplicate under way
  has seen a committed row. The lemma `RowInvKept` says what a step must leave alone for the others to keep their
  part. From it `FrontAnsweredIsSent` and, with the time of each task, `FrontStartedInTime`; together they are
  `FrontDispatchedAsAnswered`, which the run checks.
- `AloneInv` is about requests that nobody overlapped: what such a request found stays until it writes. Of two that did not overlap the
  later one has seen the row of the earlier (`PairInv`); counters are bounded by the duplicates that are under way (`CountInv`); and the list of a
  minute has at least the lone requests that passed it (`ThrottleInv`). From it `FrontClashesOverlapped`, `FrontLoneIsNeverLost`
  and `FrontThrottleHolds`, for any limit and length of the minute, which together are `FrontLoneAreServed`. Hypothesis: finitely many requests.

### ProfilesProofs

`ProfilesInv` says of users outside `mixed` that a call that changes something is alone (`Alone`), that every copy of
the row which may still be cached or saved is the row, and what a form on its way shows of it (`CopiesInv`), and that the codes a request holds are those of the
session (`SessionInv`). That the row is as asked is not inductive: it does not say what a request is about to save. The
lemmas `Undisturbed`, `Moves`, `Free` and `Lone` say what a step may do for a user; each action falls under one. From it `ProfilesRow`,
`ProfilesCache` and `ProfilesCodes`.

### AccountsProofs

- `NoRowIsLost`: `LostInv` says that the rows a merge has found are all of those of the users it will delete (`AllSeen`), that the user it
  keeps is there (`Chosen`), and that rows which came in between are in `late` (`OverlapIsLate`). The invariant was not inductive at first:
  a row made between the search and the move belonged to nobody's copy, and the history now records it at the move.
- `InvitationTakesOneIn`, `GroupsAndListsAreRight`, `ActiveUsersWereMailed` and `AddressesStayDifferent` each add to their property what the calls
  under way are about to write, for users and lists whose calls the histories do not name as overlapping.
- As the run checks them: `MergesStayRight` is `NoRowIsLost` with `GroupsAndListsAreRight`, `JoiningStaysRight` the other three.

### ProjectProofs

- `SettingsInv` says what a request is about to write (`WriteIsApproved`): a stale
  row holds a value that was approved, a confirmation the value that was checked. From it
  `SettingsStayRight`: only approved values are active, and a pending sender is known to SES.
- `RolesInv`: what is stored, and what a request will save, is a label under the key of the project the role was created for. Keys have no
  delimiter, so the part before the first one is the key (`NameOfRole`), and a key that is a prefix of another is not one together with the
  delimiter. From it `RolesAreFound`; labels may have delimiters, and those without are shown as they are (`LabelOfName`).
- `TableInv` says of each person whether he is before or after the cursor and so loaded or still to come: people who were not touched are in
  the rows just when they fitted and are not after the cursor, and no page has a row of an earlier one unless it was renamed. That a page is
  the first of what comes after the cursor needs least elements of finite sets of pairs. From it `TableStaysRight`, whose
  second part also needs that the two implementations of the filter agree.

### ServicesProofs

- `CountIsFewest` and `CountGrows`, for every text: the messages it is charged as hold it, with what their joining takes off, and fewer would not; a
  character more never costs less, also when it changes the encoding (`HalfAsLong`: a text of the extended map
  that becomes UTF16 is at least half as long, in parts of less than half the size). From them `ChargedAsFewestMessages`,
  and with `WarningIsRight` below `LicenceStaysRight`.
- `CopiesStayRecent` (`ReadersAreRight`: what a reader is about to store is a version that was there when it asked), `WarningIsRight`,
  `CodesResetTheirUsers` (the code that was made last is in the cache, on its way or in the last mail), `QuestionsStayRight` (`OneQuestion`, `CookieIsRight`),
  `CodesCanBeEntered` (`RegisterInv`, `ChangeInv`: the dialog a tab shows is backed by a code of its session), `MessagesFollowResends`
  (`SavedOnce`, `ResendsApart`), `ViewStaysComplete` (`QueuesAreRight`, `SlotsAreRight`) and `NewestAlwaysSurvive` (`LogInv`: where the two newest records are while one writer moves the
  files): one invariant for each part.
- `PagesAgree`, of the session of a browser. The page agrees only when it rests, so `SessionInv` says what it waits for when it does not. While no
  answer was overtaken the calls of the page stand behind those of the page before it (`UnheardFirst`) and were served in their order (`InOrder`). Then for each thing
  that `PageAgrees` compares, either the page shows it or a call is on its way that will put it right: for the user and the impersonation
  (`RightUser`) a profile call that is not served yet, a call whose answer makes the page ask (`WillAsk`), or as the last one an answer that has the session as it
  is (`LastTells`); for the permissions (`RightBasis`) and the header (`RightHeader`, `RightProject`) a profile call, too. Calls of a page that is
  gone may still change the session; so they are served before the new page shows a user (`GoneServed`), or its profile call is still to be
  served (`AsksFirst`). Once an answer was lost nothing says who the user is until an answer arrives that is not `old`, and `RightUser` has that case. The
  lemmas follow the code: what each function of the store does to a page, what asking or not asking does to the parts (`AskedStep`,
  `PlainStep`, `ToldStep`, `LostStep`), then one lemma for each action.
- `EachPartSteps` takes a behaviour of `Services` apart into its parts.

The assumptions on constants are the named ASSUMEs; TLC evaluates them in each run. Beside types they say what the code has by its nature: finitely
many requests, recipients, threads and people; prices and limits that are natural numbers; keys that are positive and have no delimiter.

**Only model-checked.** All liveness properties (TLAPS does not prove liveness under fairness, nor ENABLED): `TimeoutEndsWaiting`, `PollersProgress`,
`CallsReturn`, `CallsComplete`, `RunsEnd`, `ProposalSettles`, `PageSettles`. What the violation runs refute is not proved either.

`Undisturbed` (no overlap, no fault) is the precondition of `OnceUndisturbed` and `SentIsKept`. The code does not enforce it: Celery
may run the task while an operator resends.

## 6. Not modelled

- Of the front end: what section 2 names. The list of attachments not yet saved is one of the class (`notifications/models.py:38`), shared by
  all messages of a process; nothing in `src/django_project_base` attaches anything.
- Social accounts, the text search over profiles, the columns and the format of an exported file, invitations to several projects.
- The parser of phone numbers, but for what it makes equal: a pure function over strings.
- The groups of an application that are not roles of a project.
- Permissions, tags, filters, routing, query tracker, settings parser: checks, data conversion and diagnostics of one request.
- Of the front end in Vue: layout and tables, social connections, the browser for debugging, cleanup and merging (their calls are modelled). `resetUserState`
  (`login.ts:150-185`) asks whether the data is to be reset and then posts the payload of the login instead of the answer.
- Templates, translations, migrations, the example: no logic of their own.
- `TESTING` paths of the channels: test doubles.
- The mails to administrators when `action_required` is saved.

## 7. Plan

1. Done: every part of section 2, modelled and checked, and the theorems of section 5, which state all invariants and action properties of the passing runs.
2. `Envelope` and `NotificationFront` composed with `Delivery`: a notification handed over at most once.
